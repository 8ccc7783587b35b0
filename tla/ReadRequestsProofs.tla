------------------------- MODULE ReadRequestsProofs -------------------------
(***************************************************************************)
(* Every request is answered at most once, no id leaks in live_reads, the  *)
(* results and outlines the client is served are of the live buffer, and   *)
(* the steps of ReadRequests are steps of ReadContract, for any number of  *)
(* documents, requests, versions and failures.                             *)
(*                                                                         *)
(* TInv types the channels.  LInv and Tracked are the table: an id that is *)
(* live has been asked, has no answer, and has a job on its way.           *)
(* OneTextPerCell gives each outline cell one text, whoever fills it, and  *)
(* VersionsNameTexts lets the gate's comparison of versions stand for a    *)
(* comparison of texts.                                                    *)
(***************************************************************************)
EXTENDS ReadRequests, TLAPS

TextOrNone == Texts \cup {None}
DocOrNone == Docs \cup {None}
Views == [Docs -> TextOrNone]
Jobs == [id : Ids, kind : AllKinds, doc : DocOrNone, text : TextOrNone, cell : Nat]
Outcomes == {"result", "null", "error", "cancelled", "modified"}
Answers == [outcome : Outcomes, kind : AllKinds \cup {None}, doc : DocOrNone,
            text : TextOrNone, others : Views \cup {None, <<>>}]
PoolJobs == [job : Jobs, view : Views \cup {None}, cancelled : BOOLEAN,
             phase : {"read", "locate"}, found : Answers \cup {None}]
Replies == [id : Ids, answer : Answers]
LintRequests == [doc : Docs, text : Texts]

TInv ==
  /\ version \in [Docs -> 0 .. MaxVersion]
  /\ lastVersion \in [Docs -> Nat]
  /\ buffer \in [Docs -> Texts]
  /\ cell \in [Docs -> Nat]
  /\ outlines \in Seq(TextOrNone)
  /\ live \in [Ids -> {None} \cup [doc : DocOrNone, version : Nat]]
  /\ lintQ \in Seq(LintRequests)
  /\ readQ \in Seq(Jobs)
  /\ outQ \in Seq(Replies)
  /\ db \in Views
  /\ writing \in {None} \cup LintRequests
  /\ pool \subseteq PoolJobs
  /\ asked \subseteq Ids
  /\ died \subseteq asked
  /\ answers \in [Ids -> Seq(Answers)]
  /\ budget \in [opens : Nat, panics : Nat]
  /\ \A j \in pool : j.job.id \in asked
  /\ \A i \in 1 .. Len(readQ) : readQ[i].id \in asked
  /\ \A d \in Docs : version[d] > 0 => cell[d] \in 1 .. Len(outlines)
  /\ \A j \in pool : j.job.kind = "outline" => j.job.cell \in 1 .. Len(outlines)
  /\ \A i \in 1 .. Len(readQ) :
       readQ[i].kind = "outline" => readQ[i].cell \in 1 .. Len(outlines)
  /\ \A j \in pool : j.phase = "locate" => j.found \in Answers

-----------------------------------------------------------------------------
LEMMA InitType == Init => TInv
<1> SUFFICES ASSUME Init PROVE TInv
  OBVIOUS
<1>1. (CHOOSE t \in Texts : TRUE) \in Texts
  BY ReadAssumption
<1> QED BY <1>1, ReadAssumption DEF Init, TInv, TextOrNone, Views

\* A new version of a document: its cell is the newest.
LEMMA SetDocumentType ==
  ASSUME TInv, NEW d \in Docs, NEW v \in 1 .. MaxVersion, NEW text \in Texts,
         SetDocument(d, v, text),
         UNCHANGED <<live, readQ, outQ, db, writing, pool, asked, answers, died>>,
         budget' \in [opens : Nat, panics : Nat]
  PROVE  TInv'
<1> USE DEF TInv
<1>1. outlines' \in Seq(TextOrNone) /\ Len(outlines') = Len(outlines) + 1
  BY DEF SetDocument, TextOrNone
<1>2. /\ version' \in [Docs -> 0 .. MaxVersion]
      /\ lastVersion' \in [Docs -> Nat]
      /\ buffer' \in [Docs -> Texts]
      /\ cell' \in [Docs -> Nat]
  <2>1. /\ version \in [Docs -> 0 .. MaxVersion] /\ lastVersion \in [Docs -> Nat]
        /\ buffer \in [Docs -> Texts] /\ cell \in [Docs -> Nat]
    OBVIOUS
  <2>2. v \in 0 .. MaxVersion /\ v \in Nat /\ Len(outlines) + 1 \in Nat
    BY ReadAssumption
  <2>3. /\ version' = [version EXCEPT ![d] = v]
        /\ lastVersion' = [lastVersion EXCEPT ![d] = IF v > @ THEN v ELSE @]
        /\ buffer' = [buffer EXCEPT ![d] = text]
        /\ cell' = [cell EXCEPT ![d] = Len(outlines) + 1]
    BY DEF SetDocument
  <2> QED
    BY <2>1, <2>2, <2>3
<1>3. lintQ' \in Seq(LintRequests)
  <2>1. [doc |-> d, text |-> text] \in LintRequests
    BY DEF LintRequests
  <2> QED BY <2>1 DEF SetDocument
<1>4. \A e \in Docs : version'[e] > 0 => cell'[e] \in 1 .. Len(outlines')
  <2> SUFFICES ASSUME NEW e \in Docs, version'[e] > 0
               PROVE  cell'[e] \in 1 .. Len(outlines')
    OBVIOUS
  <2>1. CASE e = d
    <3>1. cell'[e] = Len(outlines) + 1
      BY <2>1 DEF SetDocument
    <3> QED BY <3>1, <1>1
  <2>2. CASE e # d
    <3>1. version'[e] = version[e] /\ cell'[e] = cell[e]
      BY <2>2 DEF SetDocument
    <3> QED BY <3>1, <1>1
  <2> QED BY <2>1, <2>2
<1>5. \A j \in pool' : j.job.kind = "outline" => j.job.cell \in 1 .. Len(outlines')
  BY <1>1
<1>6. \A i \in 1 .. Len(readQ') :
        readQ'[i].kind = "outline" => readQ'[i].cell \in 1 .. Len(outlines')
  BY <1>1
<1> QED BY <1>1, <1>2, <1>3, <1>4, <1>5, <1>6

\* What a request captures of its document.
LEMMA JobType ==
  ASSUME TInv, NEW id \in Ids, NEW kind \in AllKinds, NEW d \in DocOrNone,
         Serves(kind, d)
  PROVE  /\ Job(id, kind, d) \in Jobs
         /\ Job(id, kind, d).id = id
         /\ kind = "outline" => Job(id, kind, d).cell \in 1 .. Len(outlines)
         /\ d # None => d \in Docs
<1> USE DEF TInv
<1>1. d # None => d \in Docs
  BY DEF DocOrNone
<1>2. Job(id, kind, d) \in Jobs /\ Job(id, kind, d).id = id
  BY <1>1 DEF Job, Jobs, TextOrNone
<1>3. kind = "outline" => d \in Docs /\ d # None /\ version[d] > 0
  BY ReadAssumption DEF Serves, IsOpen, DocumentLess, Docs
<1>4. kind = "outline" => Job(id, kind, d).cell = cell[d]
  BY <1>3 DEF Job
<1> QED BY <1>1, <1>2, <1>3, <1>4

\* What a job answers is an answer.
LEMMA FoundType ==
  ASSUME TInv, NEW j \in pool
  PROVE  /\ OwnText(j) \in TextOrNone
         /\ j.job.kind = "outline" => Outline(j) \in TextOrNone
         /\ Found(j) \in Answers
<1> USE DEF TInv
<1>1. j \in PoolJobs /\ j.job \in Jobs /\ j.job.text \in TextOrNone /\ j.job.doc \in DocOrNone
      /\ j.job.kind \in AllKinds /\ j.view \in Views \cup {None}
  BY DEF PoolJobs, Jobs
<1>2. OwnText(j) \in TextOrNone
  BY <1>1 DEF OwnText, TracksBuffer, HoldsSnapshot
<1>3. j.job.kind = "outline" => Outline(j) \in TextOrNone
  BY <1>1, <1>2 DEF Outline
<1>4. /\ Refusal("null") \in Answers
      /\ Result(j.job.kind, None, None, j.view) \in Answers
      /\ Result(j.job.kind, j.job.doc, OwnText(j), <<>>) \in Answers
      /\ Result(j.job.kind, j.job.doc, OwnText(j), j.view) \in Answers
      /\ j.job.kind = "outline" => Result(j.job.kind, j.job.doc, Outline(j), <<>>) \in Answers
  BY <1>1, <1>2, <1>3 DEF Refusal, Result, Answer, Answers, Outcomes, TextOrNone, DocOrNone
<1>5. Found(j) \in Answers
  <2>1. CASE j.job.kind \in DocumentLess
    BY <2>1, <1>4 DEF Found
  <2>2. CASE j.job.kind \notin DocumentLess /\ j.job.kind = "outline"
    BY <2>2, <1>4 DEF Found
  <2>3. CASE j.job.kind \notin DocumentLess /\ j.job.kind # "outline" /\ j.job.kind = "rename"
    BY <2>3, <1>4 DEF Found
  <2>4. CASE j.job.kind \notin DocumentLess /\ j.job.kind # "outline" /\ j.job.kind # "rename"
    BY <2>4, <1>4 DEF Found
  <2> QED BY <2>1, <2>2, <2>3, <2>4
<1> QED BY <1>2, <1>3, <1>5

\* Appending to, and taking from, the channels.
LEMMA Queues ==
  ASSUME NEW S, NEW s \in Seq(S), NEW e \in S
  PROVE  /\ Append(s, e) \in Seq(S) /\ Len(Append(s, e)) = Len(s) + 1
         /\ \A i \in 1 .. Len(s) : Append(s, e)[i] = s[i]
         /\ Append(s, e)[Len(s) + 1] = e
         /\ s # <<>> => /\ Tail(s) \in Seq(S) /\ Len(Tail(s)) = Len(s) - 1
                        /\ Head(s) \in S /\ Head(s) = s[1] /\ Len(s) >= 1
                        /\ \A i \in 1 .. Len(s) - 1 : Tail(s)[i] = s[i + 1]
OBVIOUS

\* Each request takes a new id and leaves the documents alone.
LEMMA AskType ==
  ASSUME TInv,
         NEW id \in Ids, NEW kind \in AllKinds, NEW d \in DocOrNone,
         \/ AskDeclined(id, kind, d)
         \/ kind = "prepare" /\ d \in Docs /\ AskPrepare(id, d)
         \/ AskDirect(id, kind, d)
         \/ AskViaLintThread(id, kind, d)
  PROVE  TInv'
<1> USE DEF TInv
<1>0. id \in asked' /\ asked \subseteq asked' /\ asked' \subseteq Ids
  BY DEF Ask, AskDeclined, AskPrepare, AskDirect, AskViaLintThread
<1>a. \A x \in Answers : [answers EXCEPT ![id] = Append(@, x)] \in [Ids -> Seq(Answers)]
  OBVIOUS
<1>b. \A read \in {d, None} : Register(id, read) /\ Serves(kind, d) =>
        live' \in [Ids -> {None} \cup [doc : DocOrNone, version : Nat]]
  <2> SUFFICES ASSUME NEW read \in {d, None}, Register(id, read), Serves(kind, d)
               PROVE  live' \in [Ids -> {None} \cup [doc : DocOrNone, version : Nat]]
    OBVIOUS
  <2>1. read \in DocOrNone /\ (IF read = None THEN 0 ELSE version[read]) \in Nat
    BY JobType, ReadAssumption DEF DocOrNone
  <2>2. [doc |-> read, version |-> IF read = None THEN 0 ELSE version[read]]
          \in [doc : DocOrNone, version : Nat]
    BY <2>1
  <2> QED BY <2>2 DEF Register
<1>c. VersionRead(kind, d) \in {d, None}
  BY DEF VersionRead
<1>1. CASE AskDeclined(id, kind, d)
  <2>1. Refusal(IF kind = "unknown" THEN "error" ELSE "null") \in Answers
    BY DEF Refusal, Answer, Answers, Outcomes, TextOrNone, DocOrNone
  <2>2. answers' \in [Ids -> Seq(Answers)]
    BY <1>1, <2>1, <1>a DEF AskDeclined
  <2> QED BY <1>0, <1>1, <2>2 DEF AskDeclined, docVars
<1>2. CASE d \in Docs /\ AskPrepare(id, d)
  <2>1. Result("prepare", d, buffer[d], <<>>) \in Answers
    BY <1>2 DEF Result, Answer, Answers, AllKinds, Outcomes, TextOrNone, DocOrNone
  <2>2. answers' \in [Ids -> Seq(Answers)]
    BY <1>2, <2>1, <1>a DEF AskPrepare
  <2> QED BY <1>0, <1>2, <2>2 DEF AskPrepare, docVars
<1>3. CASE AskDirect(id, kind, d)
  <2>1. /\ Job(id, kind, d) \in Jobs /\ Job(id, kind, d).id = id
        /\ kind = "outline" => Job(id, kind, d).cell \in 1 .. Len(outlines)
    BY <1>3, JobType DEF AskDirect
  <2>2. Job(id, kind, d).kind = kind
    BY DEF Job
  <2> DEFINE s == Started(Job(id, kind, d), None)
  <2>3. /\ s \in PoolJobs /\ s.job.id = id /\ s.phase # "locate"
        /\ s.job.kind = "outline" => s.job.cell \in 1 .. Len(outlines)
    BY <2>1, <2>2 DEF Started, PoolJobs
  <2>4. pool' = pool \cup {s}
    BY <1>3 DEF AskDirect
  <2> HIDE DEF s
  <2> QED BY <1>0, <1>b, <1>c, <1>3, <2>3, <2>4 DEF AskDirect, docVars
<1>4. CASE AskViaLintThread(id, kind, d)
  <2>1. /\ Job(id, kind, d) \in Jobs /\ Job(id, kind, d).id = id
        /\ kind = "outline" => Job(id, kind, d).cell \in 1 .. Len(outlines)
    BY <1>4, JobType DEF AskViaLintThread
  <2>2. Job(id, kind, d).kind = kind
    BY DEF Job
  <2>3. /\ readQ' \in Seq(Jobs) /\ Len(readQ') = Len(readQ) + 1
        /\ \A i \in 1 .. Len(readQ) : readQ'[i] = readQ[i]
        /\ readQ'[Len(readQ) + 1] = Job(id, kind, d)
    BY <1>4, <2>1 DEF AskViaLintThread
  <2>4. \A i \in 1 .. Len(readQ') :
          /\ readQ'[i].id \in asked'
          /\ readQ'[i].kind = "outline" => readQ'[i].cell \in 1 .. Len(outlines)
    <3> TAKE i \in 1 .. Len(readQ')
    <3>1. CASE i \in 1 .. Len(readQ)
      BY <3>1, <2>3, <1>0
    <3>2. CASE i = Len(readQ) + 1
      BY <3>2, <2>1, <2>2, <2>3, <1>0
    <3> QED BY <3>1, <3>2, <2>3
  <2> QED BY <1>0, <1>b, <1>4, <2>3, <2>4 DEF AskViaLintThread, docVars
<1> QED BY <1>1, <1>2, <1>3, <1>4

LEMMA ServerType ==
  ASSUME TInv,
         \/ MintSnapshot \/ HandleLint \/ FinishWrite \/ OnReadReply
         \/ \E id \in Ids : Cancel(id)
         \/ \E j \in pool : RunRead(j) \/ Locate(j) \/ UnwindUnguarded(j) \/ Panic(j)
  PROVE  TInv'
<1> USE DEF TInv
<1>a. \A id \in Ids, x \in Answers : [answers EXCEPT ![id] = Append(@, x)] \in [Ids -> Seq(Answers)]
  OBVIOUS
<1>b. \A o \in Outcomes : Refusal(o) \in Answers
  BY DEF Refusal, Answer, Answers, TextOrNone, DocOrNone
<1>1. CASE MintSnapshot
  <2>1. /\ Head(readQ) \in Jobs /\ Tail(readQ) \in Seq(Jobs) /\ Len(Tail(readQ)) = Len(readQ) - 1
        /\ Head(readQ) = readQ[1] /\ 1 \in 1 .. Len(readQ)
        /\ \A i \in 1 .. Len(readQ) - 1 : i + 1 \in 1 .. Len(readQ) /\ Tail(readQ)[i] = readQ[i + 1]
    BY <1>1 DEF MintSnapshot
  <2> DEFINE s == Started(Head(readQ), db)
  <2>2. /\ s \in PoolJobs /\ s.job = Head(readQ) /\ s.phase # "locate"
    BY <2>1 DEF Started, PoolJobs
  <2>3. /\ s.job.id \in asked
        /\ s.job.kind = "outline" => s.job.cell \in 1 .. Len(outlines)
    BY <2>1, <2>2
  <2>4. pool' = pool \cup {s} /\ readQ' = Tail(readQ)
    BY <1>1 DEF MintSnapshot
  <2> HIDE DEF s
  <2>5. \A i \in 1 .. Len(readQ') :
          /\ readQ'[i].id \in asked
          /\ readQ'[i].kind = "outline" => readQ'[i].cell \in 1 .. Len(outlines)
    BY <2>1, <2>4
  <2> QED BY <1>1, <2>1, <2>2, <2>3, <2>4, <2>5 DEF MintSnapshot, docVars
<1>2. CASE HandleLint
  <2>1. Head(lintQ) \in LintRequests /\ Tail(lintQ) \in Seq(LintRequests)
    BY <1>2 DEF HandleLint
  <2>2. writing' \in {None} \cup LintRequests /\ lintQ' \in Seq(LintRequests)
    BY <1>2, <2>1 DEF HandleLint
  <2>3. pool' = pool \/ pool' = {[j EXCEPT !.cancelled = HoldsSnapshot(j)] : j \in pool}
    BY <1>2 DEF HandleLint
  <2>4. \A j \in PoolJobs :
          LET c == [j EXCEPT !.cancelled = HoldsSnapshot(j)]
          IN  c \in PoolJobs /\ c.job = j.job /\ c.phase = j.phase /\ c.found = j.found
    BY DEF PoolJobs, HoldsSnapshot
  <2>5. /\ pool' \subseteq PoolJobs
        /\ \A j \in pool' : \E k \in pool : j.job = k.job /\ j.phase = k.phase /\ j.found = k.found
    <3>1. CASE pool' = pool
      BY <3>1
    <3>2. CASE pool' = {[j EXCEPT !.cancelled = HoldsSnapshot(j)] : j \in pool}
      <4> SUFFICES ASSUME NEW j \in pool'
                   PROVE  /\ j \in PoolJobs
                          /\ \E k \in pool : j.job = k.job /\ j.phase = k.phase /\ j.found = k.found
        OBVIOUS
      <4>1. PICK k \in pool : j = [k EXCEPT !.cancelled = HoldsSnapshot(k)]
        BY <3>2
      <4>2. k \in PoolJobs
        OBVIOUS
      <4> QED BY <4>1, <4>2, <2>4
    <3> QED BY <2>3, <3>1, <3>2
  <2>6. \A j \in pool' : /\ j.job.id \in asked
                         /\ j.job.kind = "outline" => j.job.cell \in 1 .. Len(outlines)
                         /\ j.phase = "locate" => j.found \in Answers
    <3> SUFFICES ASSUME NEW j \in pool'
                 PROVE  /\ j.job.id \in asked
                        /\ j.job.kind = "outline" => j.job.cell \in 1 .. Len(outlines)
                        /\ j.phase = "locate" => j.found \in Answers
      OBVIOUS
    <3>1. PICK k \in pool : j.job = k.job /\ j.phase = k.phase /\ j.found = k.found
      BY <2>5
    <3>2. /\ k.job.id \in asked
          /\ k.job.kind = "outline" => k.job.cell \in 1 .. Len(outlines)
          /\ k.phase = "locate" => k.found \in Answers
      OBVIOUS
    <3> QED BY <3>1, <3>2
  <2> QED BY <1>2, <2>2, <2>5, <2>6 DEF HandleLint, docVars
<1>3. CASE FinishWrite
  <2>1. writing \in LintRequests /\ writing.doc \in Docs /\ writing.text \in TextOrNone
    BY <1>3 DEF FinishWrite, LintRequests, TextOrNone
  <2>2. db' \in Views
    BY <1>3, <2>1 DEF FinishWrite, Views
  <2> QED BY <1>3, <2>2 DEF FinishWrite, docVars
<1>4. CASE OnReadReply
  <2>1. Head(outQ) \in Replies /\ Tail(outQ) \in Seq(Replies)
    BY <1>4 DEF OnReadReply
  <2>2. Head(outQ).id \in Ids /\ Head(outQ).answer \in Answers
    BY <2>1 DEF Replies
  <2>3. live' \in [Ids -> {None} \cup [doc : DocOrNone, version : Nat]]
    BY <1>4, <2>2 DEF OnReadReply
  <2>4. answers' \in [Ids -> Seq(Answers)]
    <3> DEFINE id == Head(outQ).id
               x == IF IsCurrent(live[id]) THEN Head(outQ).answer ELSE Refusal("modified")
    <3>1. x \in Answers
      BY <2>2, <1>b DEF Outcomes
    <3>2. answers' = answers \/ answers' = [answers EXCEPT ![id] = Append(@, x)]
      BY <1>4 DEF OnReadReply
    <3>3. id \in Ids
      BY <2>2
    <3>4. [answers EXCEPT ![id] = Append(@, x)] \in [Ids -> Seq(Answers)]
      <4> HIDE DEF x, id
      <4> QED BY <3>1, <3>3
    <3> QED BY <3>2, <3>4
  <2> QED BY <1>4, <2>1, <2>3, <2>4 DEF OnReadReply, docVars
<1>5. ASSUME NEW id \in Ids, Cancel(id) PROVE TInv'
  <2>1. live' \in [Ids -> {None} \cup [doc : DocOrNone, version : Nat]]
    BY <1>5 DEF Cancel
  <2>2. answers' \in [Ids -> Seq(Answers)]
    BY <1>5, <1>a, <1>b DEF Cancel, Outcomes
  <2> QED BY <1>5, <2>1, <2>2 DEF Cancel, docVars
<1>6. ASSUME NEW j \in pool, RunRead(j) PROVE TInv'
  <2>0. j \in PoolJobs /\ j.job \in Jobs /\ j.job.id \in Ids
    BY DEF PoolJobs, Jobs
  <2>1. Found(j) \in Answers
    BY FoundType
  <2>2. outlines' \in Seq(TextOrNone) /\ Len(outlines') = Len(outlines)
    <3>1. CASE j.job.kind = "outline"
      <4>1. Outline(j) \in TextOrNone /\ j.job.cell \in 1 .. Len(outlines)
        BY <3>1, FoundType
      <4>2. outlines' = [outlines EXCEPT ![j.job.cell] = Outline(j)]
        BY <1>6, <3>1 DEF RunRead, StoreOutline
      <4> QED BY <4>1, <4>2
    <3>2. CASE j.job.kind # "outline"
      BY <1>6, <3>2 DEF RunRead, StoreOutline
    <3> QED BY <3>1, <3>2
  <2>3. CASE Unguarded(j)
    <3> DEFINE k == [j EXCEPT !.phase = "locate", !.found = Found(j)]
    <3>1. k \in PoolJobs /\ k.job = j.job /\ k.found \in Answers
      BY <2>0, <2>1 DEF PoolJobs
    <3>2. pool' = (pool \ {j}) \cup {k} /\ outQ' = outQ
      BY <1>6, <2>3 DEF RunRead
    <3> HIDE DEF k
    <3> QED BY <1>6, <2>2, <3>1, <3>2 DEF RunRead
  <2>4. CASE ~Unguarded(j)
    <3>1. [id |-> j.job.id, answer |-> Found(j)] \in Replies
      BY <2>0, <2>1 DEF Replies
    <3>2. outQ' = Append(outQ, [id |-> j.job.id, answer |-> Found(j)]) /\ pool' = pool \ {j}
      BY <1>6, <2>4 DEF RunRead, SendReply
    <3>3. outQ' \in Seq(Replies)
      BY <3>1, <3>2, Queues
    <3> QED BY <1>6, <2>2, <3>2, <3>3 DEF RunRead
  <2> QED BY <2>3, <2>4
<1>7. ASSUME NEW j \in pool, Locate(j) PROVE TInv'
  <2>1. [id |-> j.job.id, answer |-> j.found] \in Replies
    BY <1>7 DEF Locate, Replies, PoolJobs, Jobs
  <2>2. outQ' \in Seq(Replies) /\ pool' = pool \ {j}
    BY <1>7, <2>1 DEF Locate, SendReply
  <2> QED BY <1>7, <2>2 DEF Locate, docVars
<1>8. ASSUME NEW j \in pool, UnwindUnguarded(j) PROVE TInv'
  BY <1>8 DEF UnwindUnguarded, docVars
<1>9. ASSUME NEW j \in pool, Panic(j) PROVE TInv'
  <2>1. budget' = [budget EXCEPT !.panics = @ - 1] /\ budget.panics \in Nat /\ budget.panics > 0
    BY <1>9 DEF Panic
  <2>2. budget.panics - 1 \in Nat
    BY <2>1
  <2>3. budget' \in [opens : Nat, panics : Nat]
    BY <2>1, <2>2, budget \in [opens : Nat, panics : Nat]
  <2> QED BY <1>9, <2>3 DEF Panic, docVars
<1> QED BY <1>1, <1>2, <1>3, <1>4, <1>5, <1>6, <1>7, <1>8, <1>9

LEMMA StepType == TInv /\ [Next]_vars => TInv'
<1> SUFFICES ASSUME TInv, [Next]_vars PROVE TInv'
  OBVIOUS
<1>1. CASE UNCHANGED vars
  BY <1>1 DEF TInv, vars, docVars
<1>2. ASSUME NEW d \in Docs, NEW text \in Texts, DidOpen(d, text) PROVE TInv'
  <2> DEFINE first == IF RestartVersions THEN 1 ELSE lastVersion[d] + 1
  <2>1. first \in 1 .. MaxVersion
    BY <1>2, ReadAssumption DEF DidOpen, TInv
  <2>2. budget' = [budget EXCEPT !.opens = @ - 1] /\ budget.opens - 1 \in Nat
    BY <1>2 DEF DidOpen, TInv
  <2>3. budget' \in [opens : Nat, panics : Nat]
    BY <2>2 DEF TInv
  <2>4. SetDocument(d, first, text)
        /\ UNCHANGED <<live, readQ, outQ, db, writing, pool, asked, answers, died>>
    BY <1>2 DEF DidOpen
  <2> HIDE DEF first
  <2> QED BY <2>1, <2>3, <2>4, SetDocumentType
<1>3. ASSUME NEW d \in Docs, NEW text \in Texts, DidChange(d, text) PROVE TInv'
  <2>1. version[d] + 1 \in 1 .. MaxVersion
    BY <1>3, ReadAssumption DEF DidChange, TInv
  <2>2. budget' \in [opens : Nat, panics : Nat]
    BY <1>3 DEF DidChange, TInv
  <2>3. SetDocument(d, version[d] + 1, text)
        /\ UNCHANGED <<live, readQ, outQ, db, writing, pool, asked, answers, died>>
    BY <1>3 DEF DidChange
  <2> QED BY <2>1, <2>2, <2>3, SetDocumentType
<1>4. ASSUME NEW d \in Docs, DidClose(d) PROVE TInv'
  BY <1>4, ReadAssumption DEF DidClose, TInv
<1>5. ASSUME NEW id \in Ids, NEW kind \in Kinds, NEW d \in Docs \cup {None}, d \in DocsOf(kind),
             AskDeclined(id, kind, d) \/ AskDirect(id, kind, d) \/ AskViaLintThread(id, kind, d)
      PROVE  TInv'
  BY <1>5, AskType, ReadAssumption DEF DocOrNone
<1>6. ASSUME NEW id \in Ids, NEW d \in Docs, AskPrepare(id, d) PROVE TInv'
  BY <1>6, AskType DEF DocOrNone, AllKinds
<1>7. ASSUME NEW id \in Ids, Cancel(id) PROVE TInv'
  BY <1>7, ServerType
<1>8. ASSUME MintSnapshot \/ HandleLint \/ FinishWrite \/ OnReadReply PROVE TInv'
  BY <1>8, ServerType
<1>9. ASSUME NEW j \in pool, RunRead(j) \/ Locate(j) \/ UnwindUnguarded(j) \/ Panic(j)
      PROVE  TInv'
  BY <1>9, ServerType
<1> QED BY <1>1, <1>2, <1>3, <1>4, <1>5, <1>6, <1>7, <1>8, <1>9
        DEF Next, ClientStep, LintThreadStep, PoolStep

\* The types of all channels, tables and pools hold throughout.
THEOREM ReadTypes == Spec => [](TypeOK /\ TInv)
<1>1. TInv => TypeOK
  BY DEF TInv, TypeOK, LintRequests
<1> QED BY <1>1, InitType, StepType, PTL DEF Spec

-----------------------------------------------------------------------------
LInv ==
  /\ \A id \in Ids : live[id] # None => id \in asked /\ answers[id] = <<>>
  /\ \A id \in Ids : id \notin asked => answers[id] = <<>>
  /\ \A id \in Ids : Len(answers[id]) <= 1

\* Giving one answer to an id that has none.
LEMMA OneAnswer ==
  ASSUME TInv, NEW id \in Ids, NEW x, answers[id] = <<>>,
         answers' = [answers EXCEPT ![id] = Append(@, x)]
  PROVE  /\ Len(answers'[id]) = 1
         /\ \A other \in Ids \ {id} : answers'[other] = answers[other]
         /\ [i \in Ids |-> Len(answers'[i])] = [[i \in Ids |-> Len(answers[i])] EXCEPT ![id] = 1]
<1>1. answers'[id] = Append(<<>>, x) /\ \A other \in Ids \ {id} : answers'[other] = answers[other]
  BY DEF TInv
<1>2. Len(answers'[id]) = 1
  <2>1. \A y : Len(Append(<<>>, y)) = 1
    OBVIOUS
  <2> QED BY <1>1, <2>1
<1>3. [i \in Ids |-> Len(answers'[i])] = [[i \in Ids |-> Len(answers[i])] EXCEPT ![id] = 1]
  <2>1. ASSUME NEW i \in Ids PROVE Len(answers'[i]) = IF i = id THEN 1 ELSE Len(answers[i])
    <3>1. CASE i = id
      BY <3>1, <1>2, Zenon
    <3>2. CASE i # id
      <4>1. answers'[i] = answers[i]
        BY <3>2, <1>1, Zenon
      <4> QED BY <3>2, <4>1
    <3> QED BY <3>1, <3>2, Zenon
  <2>2. [i \in Ids |-> Len(answers'[i])] = [i \in Ids |-> IF i = id THEN 1 ELSE Len(answers[i])]
    BY <2>1, Zenon
  <2>3. [[i \in Ids |-> Len(answers[i])] EXCEPT ![id] = 1]
          = [i \in Ids |-> IF i = id THEN 1 ELSE Len(answers[i])]
    BY Zenon
  <2> QED BY <2>2, <2>3
<1> QED BY <1>1, <1>2, <1>3

\* The table and the contract, one step at a time: every step keeps the table
\* and is a step of ReadContract, or none.
LEMMA ContractStep ==
  TInv /\ TInv' /\ LInv /\ [Next]_vars => LInv' /\ [Contract!Next]_(Contract!vars)
<1> SUFFICES ASSUME TInv, TInv', LInv, [Next]_vars
             PROVE  LInv' /\ [Contract!Next]_(Contract!vars)
  OBVIOUS
<1> DEFINE responses == [i \in Ids |-> Len(answers[i])]
           Same == UNCHANGED <<asked, answers, died>>
<1>a. Same => [Contract!Next]_(Contract!vars)
  BY DEF Contract!vars
<1>0. ASSUME Same, \A id \in Ids : live'[id] # None => live[id] # None
      PROVE  LInv' /\ [Contract!Next]_(Contract!vars)
  BY <1>0, <1>a DEF LInv
<1>1. CASE UNCHANGED vars
  BY <1>0, <1>1 DEF vars
<1>2. ASSUME NEW d \in Docs, NEW text \in Texts, DidOpen(d, text) \/ DidChange(d, text) \/ DidClose(d)
      PROVE  LInv' /\ [Contract!Next]_(Contract!vars)
  BY <1>0, <1>2 DEF DidOpen, DidChange, DidClose
<1>3. ASSUME NEW id \in Ids, NEW kind, NEW d, AskDeclined(id, kind, d) \/ AskPrepare(id, d)
      PROVE  LInv' /\ [Contract!Next]_(Contract!vars)
  <2>1. id \notin asked /\ asked' = asked \cup {id} /\ died' = died /\ live' = live
    BY <1>3 DEF AskDeclined, AskPrepare, Ask
  <2>2. answers[id] = <<>> /\ live[id] = None
    BY <2>1 DEF LInv
  <2>3. \E x : answers' = [answers EXCEPT ![id] = Append(@, x)]
    BY <1>3 DEF AskDeclined, AskPrepare
  <2>4. /\ Len(answers'[id]) = 1
        /\ \A other \in Ids \ {id} : answers'[other] = answers[other]
        /\ [i \in Ids |-> Len(answers'[i])] = [responses EXCEPT ![id] = 1]
    BY <2>2, <2>3, OneAnswer
  <2>5. Contract!AskAndAnswer(id)
    BY <2>1, <2>4 DEF Contract!AskAndAnswer
  <2>6. LInv'
    BY <2>1, <2>2, <2>4 DEF LInv
  <2> QED BY <2>5, <2>6 DEF Contract!Next
<1>4. ASSUME NEW id \in Ids, NEW kind, NEW d, AskDirect(id, kind, d) \/ AskViaLintThread(id, kind, d)
      PROVE  LInv' /\ [Contract!Next]_(Contract!vars)
  <2>1. id \notin asked /\ asked' = asked \cup {id} /\ died' = died /\ answers' = answers
    BY <1>4 DEF AskDirect, AskViaLintThread, Ask
  <2>2. \A other \in Ids \ {id} : live'[other] = live[other]
    BY <1>4 DEF AskDirect, AskViaLintThread, Register, TInv
  <2>3. Contract!Ask(id)
    BY <2>1 DEF Contract!Ask
  <2>4. LInv'
    BY <2>1, <2>2 DEF LInv
  <2> QED BY <2>3, <2>4 DEF Contract!Next
<1>5. ASSUME NEW id \in Ids, live[id] # None, live' = [live EXCEPT ![id] = None],
             NEW x, answers' = [answers EXCEPT ![id] = Append(@, x)], UNCHANGED <<asked, died>>
      PROVE  LInv' /\ [Contract!Next]_(Contract!vars)
  <2>1. id \in asked /\ answers[id] = <<>>
    BY <1>5 DEF LInv
  <2>2. /\ Len(answers'[id]) = 1
        /\ \A other \in Ids \ {id} : answers'[other] = answers[other]
        /\ [i \in Ids |-> Len(answers'[i])] = [responses EXCEPT ![id] = 1]
    BY <2>1, <1>5, OneAnswer
  <2>3. responses[id] = 0
    BY <2>1
  <2>4. Contract!Answer(id)
    BY <2>1, <2>2, <2>3, <1>5 DEF Contract!Answer
  <2>5. LInv'
    <3>1. live'[id] = None /\ \A other \in Ids \ {id} : live'[other] = live[other]
      BY <1>5 DEF TInv
    <3> QED BY <3>1, <2>1, <2>2, <1>5 DEF LInv
  <2> QED BY <2>4, <2>5 DEF Contract!Next
<1>6. ASSUME NEW id \in Ids, Cancel(id) PROVE LInv' /\ [Contract!Next]_(Contract!vars)
  BY <1>5, <1>6 DEF Cancel
<1>7. CASE MintSnapshot \/ HandleLint \/ FinishWrite
  BY <1>0, <1>7 DEF MintSnapshot, HandleLint, FinishWrite
<1>8. CASE OnReadReply
  <2> DEFINE id == Head(outQ).id
  <2>0. id \in Ids
    <3>1. Head(outQ) \in Replies
      BY <1>8 DEF OnReadReply, TInv
    <3> QED BY <3>1 DEF Replies
  <2>1. CASE live[id] = None
    <3>1. Same /\ live' = [live EXCEPT ![id] = None]
      BY <1>8, <2>1 DEF OnReadReply
    <3>2. \A o \in Ids : live'[o] # None => live[o] # None
      BY <3>1, <2>0 DEF TInv
    <3> HIDE DEF id
    <3> QED BY <3>1, <3>2, <1>0
  <2>2. CASE live[id] # None
    <3>1. \E x : answers' = [answers EXCEPT ![id] = Append(@, x)]
      BY <1>8, <2>2 DEF OnReadReply
    <3>2. live' = [live EXCEPT ![id] = None] /\ UNCHANGED <<asked, died>>
      BY <1>8 DEF OnReadReply
    <3> HIDE DEF id
    <3> QED BY <2>0, <2>2, <3>1, <3>2, <1>5
  <2> QED BY <2>1, <2>2
<1>9. ASSUME NEW j \in pool, RunRead(j) \/ Locate(j) PROVE LInv' /\ [Contract!Next]_(Contract!vars)
  BY <1>0, <1>9 DEF RunRead, Locate, docVars
<1>10. ASSUME NEW j \in pool, UnwindUnguarded(j) \/ Panic(j)
       PROVE  LInv' /\ [Contract!Next]_(Contract!vars)
  <2> DEFINE id == j.job.id
  <2>1. /\ id \in asked /\ id \in Ids /\ died' = died \cup {id}
        /\ asked' = asked /\ answers' = answers /\ live' = live
    BY <1>10 DEF UnwindUnguarded, Panic, TInv
  <2> HIDE DEF id
  <2>2. LInv'
    BY <2>1 DEF LInv
  <2>3. CASE id \in died
    BY <2>1, <2>2, <2>3, <1>a
  <2>4. CASE id \notin died
    <3>1. Contract!Die(id)
      BY <2>1, <2>4 DEF Contract!Die
    <3> QED BY <2>1, <2>2, <3>1 DEF Contract!Next
  <2> QED BY <2>3, <2>4
<1> QED BY <1>1, <1>2, <1>3, <1>4, <1>6, <1>7, <1>8, <1>9, <1>10, ReadAssumption
        DEF Next, ClientStep, LintThreadStep, PoolStep

LEMMA InitTable == Init => LInv /\ Contract!Init
BY DEF Init, LInv, Contract!Init

\* A request never has two responses (on_read_reply, $/cancelRequest).
THEOREM AtMostOneResponse == Spec => []AnsweredAtMostOnce
<1>1. LInv => AnsweredAtMostOnce
  BY DEF LInv, AnsweredAtMostOnce
<1> QED BY <1>1, InitType, StepType, InitTable, ContractStep, PTL DEF Spec

\* Whatever the threads, snapshots and cancellations do, the client sees steps
\* of ReadContract: the safety part of ImplementsContract.
THEOREM ReadsFollowContract == Spec => Contract!Init /\ [][Contract!Next]_(Contract!vars)
<1> QED BY InitType, StepType, InitTable, ContractStep, PTL DEF Spec

-----------------------------------------------------------------------------
(* live_reads is exact.                                                    *)

\* A live id is queued, running, answered on the channel, or lost.
Tracked == \A id \in Ids : live[id] # None => UnderWay(id) \/ id \in died

LEMMA TrackedStep ==
  ASSUME TInv, Tracked, [Next]_vars PROVE Tracked'
<1> USE DEF TInv
<1>0. ASSUME UNCHANGED <<readQ, outQ, pool>>, died \subseteq died',
             \A id \in Ids : live'[id] # None => live[id] # None
      PROVE  Tracked'
  BY <1>0 DEF Tracked, UnderWay
<1>1. CASE UNCHANGED vars
  BY <1>0, <1>1 DEF vars
<1>2. ASSUME NEW d \in Docs, NEW text \in Texts, DidOpen(d, text) \/ DidChange(d, text) \/ DidClose(d)
      PROVE  Tracked'
  BY <1>0, <1>2 DEF DidOpen, DidChange, DidClose
<1>3. ASSUME NEW id \in Ids, NEW kind, NEW d, AskDeclined(id, kind, d) \/ AskPrepare(id, d)
      PROVE  Tracked'
  BY <1>0, <1>3 DEF AskDeclined, AskPrepare
<1>4. ASSUME NEW id \in Ids, NEW kind, NEW d, AskDirect(id, kind, d) PROVE Tracked'
  <2>1. Started(Job(id, kind, d), None).job.id = id
    BY DEF Started, Job
  <2>2. pool' = pool \cup {Started(Job(id, kind, d), None)} /\ UNCHANGED <<readQ, outQ, died>>
        /\ \A o \in Ids \ {id} : live'[o] = live[o]
    BY <1>4 DEF AskDirect, Register
  <2>3. UnderWay(id)'
    BY <2>1, <2>2 DEF UnderWay
  <2>4. \A o \in Ids : UnderWay(o) => UnderWay(o)'
    BY <2>2 DEF UnderWay
  <2> QED BY <2>2, <2>3, <2>4 DEF Tracked
<1>5. ASSUME NEW id \in Ids, NEW kind \in AllKinds, NEW d \in DocOrNone, AskViaLintThread(id, kind, d)
      PROVE  Tracked'
  <2>1. Job(id, kind, d) \in Jobs /\ Job(id, kind, d).id = id
    BY <1>5, JobType DEF AskViaLintThread
  <2>2. readQ' = Append(readQ, Job(id, kind, d)) /\ UNCHANGED <<pool, outQ, died>>
        /\ \A o \in Ids \ {id} : live'[o] = live[o]
    BY <1>5 DEF AskViaLintThread, Register
  <2>3. /\ Len(readQ') = Len(readQ) + 1
        /\ \A i \in 1 .. Len(readQ) : readQ'[i] = readQ[i]
        /\ readQ'[Len(readQ) + 1].id = id
    BY <2>1, <2>2, Queues
  <2>4. UnderWay(id)'
    <3>1. Len(readQ) + 1 \in 1 .. Len(readQ')
      BY <2>3
    <3> QED BY <2>3, <3>1 DEF UnderWay
  <2>5. \A o \in Ids : UnderWay(o) => UnderWay(o)'
    BY <2>2, <2>3 DEF UnderWay
  <2> QED BY <2>2, <2>4, <2>5 DEF Tracked
<1>6. ASSUME NEW id \in Ids, Cancel(id) PROVE Tracked'
  BY <1>0, <1>6 DEF Cancel
<1>7. CASE MintSnapshot
  <2>1. /\ readQ # <<>> /\ readQ' = Tail(readQ)
        /\ pool' = pool \cup {Started(Head(readQ), db)}
        /\ UNCHANGED <<live, outQ, died>>
    BY <1>7 DEF MintSnapshot
  <2>2. /\ Head(readQ) = readQ[1] /\ Len(Tail(readQ)) = Len(readQ) - 1
        /\ \A i \in 1 .. Len(readQ) - 1 : Tail(readQ)[i] = readQ[i + 1]
    BY <2>1, Queues
  <2>3. Started(Head(readQ), db).job = readQ[1]
    BY <2>2 DEF Started
  <2>4. ASSUME NEW o \in Ids, UnderWay(o) PROVE UnderWay(o)'
    <3>1. ASSUME NEW i \in 1 .. Len(readQ), readQ[i].id = o PROVE UnderWay(o)'
      <4>1. CASE i = 1
        BY <4>1, <3>1, <2>1, <2>3 DEF UnderWay
      <4>2. CASE i # 1
        <5>1. i - 1 \in 1 .. Len(readQ') /\ readQ'[i - 1] = readQ[i]
          BY <4>2, <2>1, <2>2
        <5> QED BY <5>1, <3>1 DEF UnderWay
      <4> QED BY <4>1, <4>2
    <3> QED BY <3>1, <2>4, <2>1 DEF UnderWay
  <2> QED BY <2>1, <2>4 DEF Tracked
<1>8. CASE HandleLint
  <2>1. pool' = pool \/ pool' = {[j EXCEPT !.cancelled = HoldsSnapshot(j)] : j \in pool}
    BY <1>8 DEF HandleLint
  <2>2. ASSUME NEW j \in pool PROVE \E k \in pool' : k.job = j.job
    <3>1. [j EXCEPT !.cancelled = HoldsSnapshot(j)].job = j.job
      BY DEF PoolJobs
    <3> QED BY <2>1, <3>1
  <2>3. UNCHANGED <<live, readQ, outQ, died>>
    BY <1>8 DEF HandleLint
  <2>4. ASSUME NEW o \in Ids, UnderWay(o) PROVE UnderWay(o)'
    BY <2>2, <2>3, <2>4 DEF UnderWay
  <2> QED BY <2>3, <2>4 DEF Tracked
<1>9. CASE FinishWrite
  BY <1>0, <1>9 DEF FinishWrite
<1>10. CASE OnReadReply
  <2> DEFINE id == Head(outQ).id
  <2>1. outQ # <<>> /\ outQ' = Tail(outQ) /\ UNCHANGED <<readQ, pool, died>>
        /\ live' = [live EXCEPT ![id] = None]
    BY <1>10 DEF OnReadReply
  <2>2. /\ Head(outQ) = outQ[1] /\ Len(Tail(outQ)) = Len(outQ) - 1
        /\ Head(outQ) \in Replies /\ \A i \in 1 .. Len(outQ) - 1 : Tail(outQ)[i] = outQ[i + 1]
    BY <2>1, Queues
  <2>3. id \in Ids
    BY <2>2 DEF Replies
  <2>4. ASSUME NEW o \in Ids, o # id, UnderWay(o) PROVE UnderWay(o)'
    <3>1. ASSUME NEW i \in 1 .. Len(outQ), outQ[i].id = o PROVE UnderWay(o)'
      <4>1. i # 1
        BY <3>1, <2>2, <2>4
      <4>2. i - 1 \in 1 .. Len(outQ') /\ outQ'[i - 1] = outQ[i]
        BY <4>1, <2>1, <2>2
      <4> QED BY <4>2, <3>1 DEF UnderWay
    <3> QED BY <3>1, <2>4, <2>1 DEF UnderWay
  <2> HIDE DEF id
  <2> QED BY <2>1, <2>3, <2>4 DEF Tracked
<1>11. ASSUME NEW j \in pool, RunRead(j) \/ Locate(j) PROVE Tracked'
  <2>0. j.job.id \in Ids /\ j \in PoolJobs
    BY DEF PoolJobs, Jobs
  <2>1. UNCHANGED <<live, readQ, died>>
    BY <1>11 DEF RunRead, Locate
  <2>2. \/ \E k : k.job = j.job /\ pool' = (pool \ {j}) \cup {k} /\ outQ' = outQ
        \/ pool' = pool \ {j} /\ \E a \in Answers : outQ' = Append(outQ, [id |-> j.job.id, answer |-> a])
    <3>1. CASE RunRead(j) /\ Unguarded(j)
      <4>1. [j EXCEPT !.phase = "locate", !.found = Found(j)].job = j.job
        BY <2>0 DEF PoolJobs
      <4> QED BY <4>1, <3>1 DEF RunRead
    <3>2. CASE RunRead(j) /\ ~Unguarded(j)
      BY <3>2, FoundType DEF RunRead, SendReply
    <3>3. CASE Locate(j)
      BY <3>3 DEF Locate, SendReply
    <3> QED BY <3>1, <3>2, <3>3, <1>11
  <2>3. ASSUME NEW o \in Ids, UnderWay(o) PROVE UnderWay(o)'
    <3>1. CASE \E k : k.job = j.job /\ pool' = (pool \ {j}) \cup {k} /\ outQ' = outQ
      <4>1. PICK k : k.job = j.job /\ pool' = (pool \ {j}) \cup {k} /\ outQ' = outQ
        BY <3>1
      <4>2. \A x \in pool : x = j \/ x \in pool'
        BY <4>1
      <4>3. k \in pool'
        BY <4>1
      <4> QED BY <4>1, <4>2, <4>3, <2>1, <2>3 DEF UnderWay
    <3>2. ASSUME NEW a \in Answers, pool' = pool \ {j},
                 outQ' = Append(outQ, [id |-> j.job.id, answer |-> a])
          PROVE  UnderWay(o)'
      <4>1. [id |-> j.job.id, answer |-> a] \in Replies
        BY <2>0 DEF Replies
      <4>2. /\ Len(outQ') = Len(outQ) + 1
            /\ \A i \in 1 .. Len(outQ) : outQ'[i] = outQ[i]
            /\ outQ'[Len(outQ) + 1].id = j.job.id
        BY <3>2, <4>1, Queues
      <4>3. CASE o = j.job.id
        <5>1. Len(outQ) + 1 \in 1 .. Len(outQ')
          BY <4>2
        <5> QED BY <5>1, <4>2, <4>3 DEF UnderWay
      <4>4. CASE o # j.job.id
        <5>1. \A x \in pool : x.job.id = o => x \in pool'
          BY <3>2, <4>4
        <5> QED BY <5>1, <4>2, <2>1, <2>3 DEF UnderWay
      <4> QED BY <4>3, <4>4
    <3> QED BY <2>2, <3>1, <3>2
  <2> QED BY <2>1, <2>3 DEF Tracked
<1>12. ASSUME NEW j \in pool, UnwindUnguarded(j) \/ Panic(j) PROVE Tracked'
  <2>1. /\ UNCHANGED <<live, readQ, outQ>>
        /\ pool' = pool \ {j} /\ died' = died \cup {j.job.id}
    BY <1>12 DEF UnwindUnguarded, Panic
  <2>2. ASSUME NEW o \in Ids, UnderWay(o), o \notin died' PROVE UnderWay(o)'
    <3>1. \A x \in pool : x.job.id = o => x \in pool'
      BY <2>1, <2>2
    <3> QED BY <3>1, <2>1, <2>2 DEF UnderWay
  <2> QED BY <2>1, <2>2 DEF Tracked
<1>13. Kinds \subseteq AllKinds
  BY ReadAssumption
<1> QED BY <1>1, <1>2, <1>3, <1>4, <1>5, <1>6, <1>7, <1>8, <1>9, <1>10, <1>11, <1>12, <1>13
        DEF Next, ClientStep, LintThreadStep, PoolStep, DocOrNone

\* live_reads never leaks: an id it holds has no response yet, and its job is
\* queued, running, answered on the channel or lost (register_read,
\* dispatch_read, run_read, on_read_reply).
THEOREM LiveReadsAreExact == Spec => []LiveReadsAreUnderWay
<1>1. Init => Tracked
  BY DEF Init, Tracked
<1>2. LInv /\ Tracked => LiveReadsAreUnderWay
  BY DEF LInv, Tracked, LiveReadsAreUnderWay
<1>3. TInv /\ Tracked /\ [Next]_vars => Tracked'
  BY TrackedStep
<1> QED BY <1>1, <1>2, <1>3, InitType, StepType, InitTable, ContractStep, PTL DEF Spec

-----------------------------------------------------------------------------
(* Outline cells and replies.                                              *)

\* Jobs that still have their text to read.
Work == {readQ[i] : i \in 1 .. Len(readQ)} \cup {j.job : j \in pool}

\* Who may fill or read a cell, and the text it stands for: the document that
\* holds it and the jobs that captured it.
Claims == {<<cell[d], buffer[d]>> : d \in {e \in Docs : cell[e] > 0}}
          \cup {<<w.cell, w.text>> : w \in {x \in Work : x.kind = "outline"}}

\* A cell stands for one text, and holds its outline or nothing.
OneTextPerCell ==
  /\ \A a \in Claims : a[1] \in 1 .. Len(outlines) /\ outlines[a[1]] \in {None, a[2]}
  /\ \A a, b \in Claims : a[1] = b[1] => a[2] = b[2]

\* A job reads the text it captured, from its snapshot or from a parse of its own.
LEMMA OwnTextIsCaptured ==
  ASSUME NEW j PROVE OwnText(j) = j.job.text
BY DEF OwnText, TracksBuffer

\* ... and so does an outline that another job left in the cell.
LEMMA OutlineIsCaptured ==
  ASSUME OneTextPerCell, NEW j \in pool, j.job.kind = "outline"
  PROVE  /\ Outline(j) = j.job.text
         /\ <<j.job.cell, j.job.text>> \in Claims
<1>1. j.job \in Work
  BY DEF Work
<1>2. <<j.job.cell, j.job.text>> \in Claims
  BY <1>1 DEF Claims
<1>3. outlines[j.job.cell] \in {None, j.job.text}
  <2>1. outlines[(<<j.job.cell, j.job.text>>)[1]] \in {None, (<<j.job.cell, j.job.text>>)[2]}
    BY <1>2 DEF OneTextPerCell
  <2> QED BY <2>1
<1> QED BY <1>2, <1>3, OwnTextIsCaptured DEF Outline

\* The server only moves jobs on; a request adds one.
LEMMA ServerWork ==
  ASSUME TInv,
         \/ MintSnapshot \/ HandleLint \/ FinishWrite \/ OnReadReply
         \/ \E id \in Ids : Cancel(id)
         \/ \E j \in pool : RunRead(j) \/ Locate(j) \/ UnwindUnguarded(j) \/ Panic(j)
  PROVE  Work' \subseteq Work
<1> USE DEF TInv
<1>0. ASSUME readQ' = readQ, \A j \in pool' : \E k \in pool : k.job = j.job
      PROVE  Work' \subseteq Work
  BY <1>0 DEF Work
<1>1. CASE MintSnapshot
  <2>1. /\ readQ # <<>> /\ readQ' = Tail(readQ)
        /\ pool' = pool \cup {Started(Head(readQ), db)}
    BY <1>1 DEF MintSnapshot
  <2>2. /\ Head(readQ) = readQ[1] /\ Len(Tail(readQ)) = Len(readQ) - 1 /\ Len(readQ) >= 1
        /\ \A i \in 1 .. Len(readQ) - 1 : Tail(readQ)[i] = readQ[i + 1]
    BY <2>1, Queues
  <2>3. Started(Head(readQ), db).job = readQ[1] /\ 1 \in 1 .. Len(readQ)
    BY <2>2 DEF Started
  <2>4. ASSUME NEW i \in 1 .. Len(readQ') PROVE \E k \in 1 .. Len(readQ) : readQ'[i] = readQ[k]
    <3>1. i + 1 \in 1 .. Len(readQ) /\ readQ'[i] = readQ[i + 1]
      BY <2>1, <2>2
    <3> QED BY <3>1
  <2>5. ASSUME NEW j \in pool' PROVE j.job \in Work
    BY <2>1, <2>3 DEF Work
  <2> QED BY <2>4, <2>5 DEF Work
<1>2. CASE HandleLint
  <2>1. pool' = pool \/ pool' = {[j EXCEPT !.cancelled = HoldsSnapshot(j)] : j \in pool}
    BY <1>2 DEF HandleLint
  <2>2. \A j \in pool : [j EXCEPT !.cancelled = HoldsSnapshot(j)].job = j.job
    BY DEF PoolJobs
  <2>3. readQ' = readQ
    BY <1>2 DEF HandleLint
  <2> QED BY <2>1, <2>2, <2>3, <1>0
<1>3. CASE FinishWrite \/ OnReadReply
  BY <1>0, <1>3 DEF FinishWrite, OnReadReply
<1>4. ASSUME NEW id \in Ids, Cancel(id) PROVE Work' \subseteq Work
  BY <1>0, <1>4 DEF Cancel
<1>5. ASSUME NEW j \in pool, RunRead(j) PROVE Work' \subseteq Work
  <2>1. [j EXCEPT !.phase = "locate", !.found = Found(j)].job = j.job
    BY DEF PoolJobs
  <2>2. /\ pool' = (pool \ {j}) \cup {[j EXCEPT !.phase = "locate", !.found = Found(j)]}
           \/ pool' = pool \ {j}
        /\ readQ' = readQ
    BY <1>5 DEF RunRead
  <2> QED BY <2>1, <2>2, <1>0
<1>6. ASSUME NEW j \in pool, Locate(j) \/ UnwindUnguarded(j) \/ Panic(j) PROVE Work' \subseteq Work
  BY <1>0, <1>6 DEF Locate, UnwindUnguarded, Panic
<1> QED BY <1>1, <1>2, <1>3, <1>4, <1>5, <1>6

LEMMA AskWork ==
  ASSUME TInv, NEW id \in Ids, NEW kind \in AllKinds, NEW d \in DocOrNone,
         AskDirect(id, kind, d) \/ AskViaLintThread(id, kind, d)
  PROVE  Work' \subseteq Work \cup {Job(id, kind, d)}
<1> USE DEF TInv
<1>1. CASE AskDirect(id, kind, d)
  <2>1. Started(Job(id, kind, d), None).job = Job(id, kind, d)
    BY DEF Started
  <2> QED BY <1>1, <2>1 DEF AskDirect, Work
<1>2. CASE AskViaLintThread(id, kind, d)
  <2>1. Job(id, kind, d) \in Jobs
    BY <1>2, JobType DEF AskViaLintThread
  <2>2. readQ' = Append(readQ, Job(id, kind, d)) /\ pool' = pool
    BY <1>2 DEF AskViaLintThread
  <2>3. /\ Len(readQ') = Len(readQ) + 1
        /\ \A i \in 1 .. Len(readQ) : readQ'[i] = readQ[i]
        /\ readQ'[Len(readQ) + 1] = Job(id, kind, d)
    BY <2>1, <2>2, Queues
  <2>4. ASSUME NEW i \in 1 .. Len(readQ')
        PROVE  readQ'[i] = Job(id, kind, d) \/ \E k \in 1 .. Len(readQ) : readQ'[i] = readQ[k]
    <3>1. i = Len(readQ) + 1 \/ i \in 1 .. Len(readQ)
      BY <2>3
    <3> QED BY <3>1, <2>3
  <2> QED BY <2>2, <2>4 DEF Work
<1> QED BY <1>1, <1>2

LEMMA CellsStep ==
  ASSUME TInv, OneTextPerCell, [Next]_vars PROVE OneTextPerCell'
<1> USE DEF TInv
<1>0. ASSUME Claims' \subseteq Claims, outlines' = outlines PROVE OneTextPerCell'
  BY <1>0 DEF OneTextPerCell
<1>a. ASSUME Work' \subseteq Work, cell' = cell, buffer' = buffer PROVE Claims' \subseteq Claims
  BY <1>a DEF Claims
<1>b. ASSUME UNCHANGED <<readQ, pool>> PROVE Work' = Work
  BY <1>b DEF Work
<1>1. CASE UNCHANGED vars
  BY <1>0, <1>a, <1>b, <1>1 DEF vars, docVars
<1>2. ASSUME NEW d \in Docs, NEW v, NEW text \in Texts, SetDocument(d, v, text), Work' = Work
      PROVE  OneTextPerCell'
  <2>1. /\ outlines' = Append(outlines, None)
        /\ cell' = [cell EXCEPT ![d] = Len(outlines) + 1]
        /\ buffer' = [buffer EXCEPT ![d] = text]
    BY <1>2 DEF SetDocument
  <2>2. /\ Len(outlines') = Len(outlines) + 1
        /\ \A i \in 1 .. Len(outlines) : outlines'[i] = outlines[i]
        /\ outlines'[Len(outlines) + 1] = None
    BY <2>1, Queues DEF TextOrNone
  <2>3. ASSUME NEW a \in Claims' PROVE a \in Claims \/ a = <<Len(outlines) + 1, text>>
    <3>1. ASSUME NEW e \in Docs, cell'[e] > 0, a = <<cell'[e], buffer'[e]>>
          PROVE  a \in Claims \/ a = <<Len(outlines) + 1, text>>
      <4>1. CASE e = d
        BY <4>1, <3>1, <2>1
      <4>2. CASE e # d
        <5>1. cell'[e] = cell[e] /\ buffer'[e] = buffer[e]
          BY <4>2, <2>1
        <5> QED BY <5>1, <3>1 DEF Claims
      <4> QED BY <4>1, <4>2
    <3>2. ASSUME NEW w \in Work, w.kind = "outline", a = <<w.cell, w.text>> PROVE a \in Claims
      BY <3>2 DEF Claims
    <3> QED BY <3>1, <3>2, <1>2 DEF Claims
  <2>4. ASSUME NEW a \in Claims'
        PROVE  a[1] \in 1 .. Len(outlines') /\ outlines'[a[1]] \in {None, a[2]}
    <3>1. CASE a \in Claims
      <4>1. a[1] \in 1 .. Len(outlines) /\ outlines[a[1]] \in {None, a[2]}
        BY <3>1 DEF OneTextPerCell
      <4> QED BY <4>1, <2>2
    <3>2. CASE a = <<Len(outlines) + 1, text>>
      BY <3>2, <2>2
    <3> QED BY <3>1, <3>2, <2>3
  <2>5. ASSUME NEW a \in Claims', NEW b \in Claims', a[1] = b[1] PROVE a[2] = b[2]
    <3>1. \A c \in Claims : c[1] # Len(outlines) + 1
      BY DEF OneTextPerCell
    <3>2. (<<Len(outlines) + 1, text>>)[1] = Len(outlines) + 1
      OBVIOUS
    <3>3. CASE a \in Claims /\ b \in Claims
      BY <3>3, <2>5 DEF OneTextPerCell
    <3>4. CASE a \notin Claims \/ b \notin Claims
      <4>1. a = b
        BY <3>4, <3>1, <3>2, <2>3, <2>5
      <4> QED BY <4>1
    <3> QED BY <3>3, <3>4
  <2> QED BY <2>4, <2>5 DEF OneTextPerCell
<1>3. ASSUME NEW d \in Docs, NEW text \in Texts, DidOpen(d, text) \/ DidChange(d, text)
      PROVE  OneTextPerCell'
  <2>1. UNCHANGED <<readQ, pool>> /\ \E v : SetDocument(d, v, text)
    BY <1>3 DEF DidOpen, DidChange
  <2> QED BY <2>1, <1>2, <1>b
<1>4. ASSUME NEW d \in Docs, DidClose(d) PROVE OneTextPerCell'
  BY <1>0, <1>a, <1>b, <1>4 DEF DidClose
<1>5. ASSUME NEW id \in Ids, NEW kind, NEW d, AskDeclined(id, kind, d) \/ AskPrepare(id, d)
      PROVE  OneTextPerCell'
  BY <1>0, <1>a, <1>b, <1>5 DEF AskDeclined, AskPrepare, docVars
<1>6. ASSUME NEW id \in Ids, NEW kind \in AllKinds, NEW d \in DocOrNone,
             AskDirect(id, kind, d) \/ AskViaLintThread(id, kind, d)
      PROVE  OneTextPerCell'
  <2>1. UNCHANGED docVars /\ Serves(kind, d)
    BY <1>6 DEF AskDirect, AskViaLintThread
  <2>2. kind = "outline" => d \in Docs /\ d # None /\ cell[d] > 0
    BY <2>1, ReadAssumption DEF Serves, IsOpen, DocumentLess, Docs
  <2> DEFINE w == Job(id, kind, d)
  <2>3. w.kind = kind /\ (kind = "outline" => w.cell = cell[d] /\ w.text = buffer[d])
    BY <2>2 DEF Job
  <2>4. w.kind = "outline" => <<w.cell, w.text>> \in Claims
    BY <2>2, <2>3 DEF Claims
  <2>5. Work' \subseteq Work \cup {w}
    BY <1>6, AskWork
  <2> HIDE DEF w
  <2>6. Claims' \subseteq Claims
    BY <2>1, <2>4, <2>5 DEF Claims, docVars
  <2> QED BY <1>0, <2>1, <2>6 DEF docVars
<1>7. ASSUME \/ MintSnapshot \/ HandleLint \/ FinishWrite \/ OnReadReply
             \/ \E id \in Ids : Cancel(id)
             \/ \E j \in pool : Locate(j) \/ UnwindUnguarded(j) \/ Panic(j)
      PROVE  OneTextPerCell'
  <2>1. UNCHANGED docVars
    BY <1>7 DEF MintSnapshot, HandleLint, FinishWrite, OnReadReply, Cancel, Locate,
                UnwindUnguarded, Panic
  <2>2. Work' \subseteq Work
    BY <1>7, ServerWork
  <2> QED BY <2>1, <2>2, <1>0, <1>a DEF docVars
<1>8. ASSUME NEW j \in pool, RunRead(j) PROVE OneTextPerCell'
  <2>1. Claims' \subseteq Claims
    BY <1>8, <1>a, ServerWork DEF RunRead
  <2>2. CASE j.job.kind # "outline"
    BY <2>1, <2>2, <1>0, <1>8 DEF RunRead, StoreOutline
  <2>3. CASE j.job.kind = "outline"
    <3> DEFINE c == j.job.cell
    <3>1. <<c, j.job.text>> \in Claims /\ outlines' = [outlines EXCEPT ![c] = j.job.text]
      BY <2>3, <1>8, OutlineIsCaptured DEF RunRead, StoreOutline
    <3>2. c \in 1 .. Len(outlines) /\ DOMAIN outlines = 1 .. Len(outlines)
      BY <2>3
    <3>3. Len(outlines') = Len(outlines)
      BY <3>1, <3>2
    <3>4. ASSUME NEW a \in Claims
          PROVE  a[1] \in 1 .. Len(outlines') /\ outlines'[a[1]] \in {None, a[2]}
      <4>1. a[1] \in 1 .. Len(outlines) /\ outlines[a[1]] \in {None, a[2]}
        BY DEF OneTextPerCell
      <4>2. CASE a[1] = c
        <5>1. (<<c, j.job.text>>)[1] = c /\ (<<c, j.job.text>>)[2] = j.job.text
          OBVIOUS
        <5>2. a[2] = j.job.text
          BY <4>2, <5>1, <3>1 DEF OneTextPerCell
        <5> QED BY <5>2, <4>1, <4>2, <3>1, <3>2, <3>3
      <4>3. CASE a[1] # c
        BY <4>1, <4>3, <3>1, <3>2, <3>3
      <4> QED BY <4>2, <4>3
    <3> QED BY <3>4, <2>1 DEF OneTextPerCell
  <2> QED BY <2>2, <2>3
<1>9. Kinds \subseteq AllKinds
  BY ReadAssumption
<1> QED BY <1>1, <1>3, <1>4, <1>5, <1>6, <1>7, <1>8, <1>9
        DEF Next, ClientStep, LintThreadStep, PoolStep, DocOrNone

\* The outline documentSymbol serves from its cell is the outline of the live
\* buffer, however late and in whatever order the jobs that captured cells run
\* (Document::new, on_document_symbol, get_or_init).
THEOREM OutlinesFollowTheBuffer == Spec => []OutlineIsOfLiveBuffer
<1>1. Init => OneTextPerCell
  <2> SUFFICES ASSUME Init PROVE Claims = {}
    BY DEF OneTextPerCell
  <2>1. Work = {}
    BY DEF Init, Work
  <2> QED BY <2>1 DEF Init, Claims
<1>2. TInv /\ OneTextPerCell => OutlineIsOfLiveBuffer
  <2> SUFFICES ASSUME TInv, OneTextPerCell, NEW d \in Docs, OutlineReady(d)
               PROVE  outlines[cell[d]] = buffer[d]
    BY DEF OutlineIsOfLiveBuffer
  <2>1. <<cell[d], buffer[d]>> \in Claims
    BY DEF OutlineReady, Claims
  <2>2. outlines[(<<cell[d], buffer[d]>>)[1]] \in {None, (<<cell[d], buffer[d]>>)[2]}
    BY <2>1 DEF OneTextPerCell
  <2> QED BY <2>2 DEF OutlineReady
<1>3. TInv /\ OneTextPerCell /\ [Next]_vars => OneTextPerCell'
  BY CellsStep
<1> QED BY <1>1, <1>2, <1>3, InitType, StepType, PTL DEF Spec

\* While the version a live read registered is the document's, `text` is its
\* buffer.
Indexes(id, d, text) ==
  live[id] # None =>
    /\ live[id].doc = d
    /\ d # None /\ version[d] = live[id].version => text = buffer[d]

\* A colorPresentation's job and its answer promise nothing: its read is of no
\* version.
JobIndexes(w) == w.kind # "presentation" => Indexes(w.id, w.doc, w.text)
AnswerIndexes(id, a) ==
  a.outcome = "result" /\ a.doc # None /\ a.kind # "presentation" =>
    Indexes(id, a.doc, a.text)

\* Answers computed and not yet at the gate.
Outgoing == {<<j.job.id, j.found>> : j \in {k \in pool : k.phase = "locate"}}
            \cup {<<outQ[i].id, outQ[i].answer>> : i \in 1 .. Len(outQ)}

\* A version names one text of its document, and every other result on its way
\* indexes the text of the version its request registered.
VersionsNameTexts ==
  /\ \A d \in Docs : version[d] > 0 => version[d] = lastVersion[d]
  /\ \A id \in Ids : live[id] # None /\ live[id].doc # None =>
       live[id].version \in 1 .. lastVersion[live[id].doc]
  /\ \A w \in Work : JobIndexes(w)
  /\ \A c \in Outgoing : c[1] \in asked /\ AnswerIndexes(c[1], c[2])

\* A result is about the document and the text the job captured.
LEMMA FoundIsCaptured ==
  ASSUME TInv, OneTextPerCell, NEW j \in pool,
         Found(j).outcome = "result", Found(j).doc # None
  PROVE  Found(j).kind = j.job.kind /\ Found(j).doc = j.job.doc /\ Found(j).text = j.job.text
<1>1. j.job.kind \notin DocumentLess
  <2> SUFFICES ASSUME j.job.kind \in DocumentLess PROVE FALSE
    OBVIOUS
  <2>1. Found(j) = IF j.cancelled THEN Refusal("null") ELSE Result(j.job.kind, None, None, j.view)
    <3>1. j.job.kind # "outline" /\ j.job.kind # "rename"
      BY DEF DocumentLess
    <3> QED BY <3>1 DEF Found
  <2>2. Refusal("null").outcome = "null" /\ Result(j.job.kind, None, None, j.view).doc = None
    BY DEF Refusal, Result, Answer
  <2> QED BY <2>1, <2>2
<1>2. CASE j.job.kind = "outline"
  <2>1. Found(j) = Result(j.job.kind, j.job.doc, Outline(j), <<>>)
    BY <1>1, <1>2 DEF Found
  <2>2. Outline(j) = j.job.text
    BY <1>2, OutlineIsCaptured
  <2> QED BY <2>1, <2>2, <1>2 DEF Result, Answer
<1>3. CASE j.job.kind # "outline"
  <2>1. \/ Found(j) = Refusal("null")
        \/ \E view : Found(j) = Result(j.job.kind, j.job.doc, OwnText(j), view)
    BY <1>1, <1>3 DEF Found
  <2> QED BY <2>1, OwnTextIsCaptured DEF Result, Answer, Refusal
<1> QED BY <1>2, <1>3

\* A reply takes its job's place.
LEMMA ReplyOutgoing ==
  ASSUME TInv, NEW j \in pool, NEW a \in Answers, pool' = pool \ {j},
         outQ' = Append(outQ, [id |-> j.job.id, answer |-> a])
  PROVE  Outgoing' \subseteq Outgoing \cup {<<j.job.id, a>>}
<1> USE DEF TInv
<1>1. [id |-> j.job.id, answer |-> a] \in Replies
  BY DEF Replies, PoolJobs, Jobs
<1>2. /\ Len(outQ') = Len(outQ) + 1
      /\ \A i \in 1 .. Len(outQ) : outQ'[i] = outQ[i]
      /\ outQ'[Len(outQ) + 1] = [id |-> j.job.id, answer |-> a]
  BY <1>1, Queues
<1>3. ASSUME NEW i \in 1 .. Len(outQ')
      PROVE  \/ i \in 1 .. Len(outQ) /\ outQ'[i] = outQ[i]
             \/ outQ'[i] = [id |-> j.job.id, answer |-> a]
  <2>1. i = Len(outQ) + 1 \/ i \in 1 .. Len(outQ)
    BY <1>2
  <2> QED BY <2>1, <1>2
<1> QED BY <1>3 DEF Outgoing

\* Only run_read adds an answer to those on their way.
LEMMA RunReadOutgoing ==
  ASSUME TInv, NEW j \in pool, RunRead(j)
  PROVE  Outgoing' \subseteq Outgoing \cup {<<j.job.id, Found(j)>>}
<1> USE DEF TInv
<1>1. CASE Unguarded(j)
  <2> DEFINE k == [j EXCEPT !.phase = "locate", !.found = Found(j)]
  <2>1. k.job = j.job /\ k.found = Found(j)
    BY DEF PoolJobs
  <2>2. outQ' = outQ /\ pool' = (pool \ {j}) \cup {k}
    BY <1>1 DEF RunRead
  <2> HIDE DEF k
  <2> QED BY <2>1, <2>2 DEF Outgoing
<1>2. CASE ~Unguarded(j)
  BY ReplyOutgoing, <1>2, FoundType DEF RunRead, SendReply
<1> QED BY <1>1, <1>2

LEMMA OutgoingStep ==
  ASSUME TInv,
         \/ MintSnapshot \/ HandleLint \/ FinishWrite \/ OnReadReply
         \/ \E id \in Ids : Cancel(id)
         \/ \E j \in pool : Locate(j) \/ UnwindUnguarded(j) \/ Panic(j)
  PROVE  Outgoing' \subseteq Outgoing
<1> USE DEF TInv
<1>0. ASSUME outQ' = outQ,
             \A k \in pool' : k.phase = "locate" =>
               \E j \in pool : j.phase = "locate" /\ j.job = k.job /\ j.found = k.found
      PROVE  Outgoing' \subseteq Outgoing
  BY <1>0 DEF Outgoing
<1>1. CASE MintSnapshot
  <2>1. Started(Head(readQ), db).phase = "read"
    BY DEF Started
  <2>2. outQ' = outQ /\ pool' = pool \cup {Started(Head(readQ), db)}
    BY <1>1 DEF MintSnapshot
  <2> QED BY <2>1, <2>2, <1>0
<1>2. CASE HandleLint
  <2>1. pool' = pool \/ pool' = {[j EXCEPT !.cancelled = HoldsSnapshot(j)] : j \in pool}
    BY <1>2 DEF HandleLint
  <2>2. \A j \in pool : LET k == [j EXCEPT !.cancelled = HoldsSnapshot(j)]
                        IN  k.job = j.job /\ k.phase = j.phase /\ k.found = j.found
    BY DEF PoolJobs
  <2>3. outQ' = outQ
    BY <1>2 DEF HandleLint
  <2>4. ASSUME NEW k \in pool' PROVE \E j \in pool : j.job = k.job /\ j.phase = k.phase /\ j.found = k.found
    <3>1. CASE pool' = pool
      BY <3>1
    <3>2. CASE pool' = {[j EXCEPT !.cancelled = HoldsSnapshot(j)] : j \in pool}
      <4>1. PICK j \in pool : k = [j EXCEPT !.cancelled = HoldsSnapshot(j)]
        BY <3>2
      <4> QED BY <4>1, <2>2
    <3> QED BY <2>1, <3>1, <3>2
  <2> QED BY <2>3, <2>4, <1>0
<1>3. CASE FinishWrite
  BY <1>0, <1>3 DEF FinishWrite
<1>4. CASE OnReadReply
  <2>1. outQ # <<>> /\ outQ' = Tail(outQ) /\ pool' = pool
    BY <1>4 DEF OnReadReply
  <2>2. \A i \in 1 .. Len(outQ') : i + 1 \in 1 .. Len(outQ) /\ outQ'[i] = outQ[i + 1]
    BY <2>1, Queues
  <2> QED BY <2>1, <2>2 DEF Outgoing
<1>5. ASSUME NEW id \in Ids, Cancel(id) PROVE Outgoing' \subseteq Outgoing
  BY <1>0, <1>5 DEF Cancel
<1>6. ASSUME NEW j \in pool, Locate(j) PROVE Outgoing' \subseteq Outgoing
  <2>1. <<j.job.id, j.found>> \in Outgoing
    BY <1>6 DEF Locate, Outgoing
  <2> QED BY ReplyOutgoing, <1>6, <2>1 DEF Locate, SendReply
<1>7. ASSUME NEW j \in pool, UnwindUnguarded(j) \/ Panic(j) PROVE Outgoing' \subseteq Outgoing
  BY <1>0, <1>7 DEF UnwindUnguarded, Panic
<1> QED BY <1>0, <1>1, <1>2, <1>3, <1>4, <1>5, <1>6, <1>7

LEMMA VersionsStep ==
  ASSUME TInv, LInv, OneTextPerCell, VersionsNameTexts, ~RestartVersions, [Next]_vars
  PROVE  VersionsNameTexts'
<1> USE DEF TInv
<1>a. ASSUME UNCHANGED <<readQ, pool>> PROVE Work' = Work
  BY <1>a DEF Work
<1>b. ASSUME UNCHANGED <<pool, outQ>> PROVE Outgoing' = Outgoing
  BY <1>b DEF Outgoing
<1>c. \A w \in Work : w.id \in asked
  BY DEF Work
\* A read keeps its text as long as its registration or its document stays.
<1>0. ASSUME UNCHANGED <<version, lastVersion, buffer, asked>>,
             Work' \subseteq Work, Outgoing' \subseteq Outgoing,
             \A id \in Ids : live'[id] \in {None, live[id]}
      PROVE  VersionsNameTexts'
  <2>1. ASSUME NEW id \in Ids, NEW d, NEW text, Indexes(id, d, text) PROVE Indexes(id, d, text)'
    BY <1>0, <2>1 DEF Indexes
  <2>2. ASSUME NEW w \in Work' PROVE JobIndexes(w)'
    BY <2>1, <2>2, <1>0, <1>c DEF VersionsNameTexts, JobIndexes
  <2>3. ASSUME NEW c \in Outgoing' PROVE c[1] \in asked' /\ AnswerIndexes(c[1], c[2])'
    BY <2>1, <1>0 DEF VersionsNameTexts, AnswerIndexes
  <2>4. /\ \A d \in Docs : version'[d] > 0 => version'[d] = lastVersion'[d]
        /\ \A id \in Ids : live'[id] # None /\ live'[id].doc # None =>
             live'[id].version \in 1 .. lastVersion'[live'[id].doc]
    BY <1>0 DEF VersionsNameTexts
  <2> QED BY <2>2, <2>3, <2>4 DEF VersionsNameTexts
<1>1. CASE UNCHANGED vars
  BY <1>0, <1>a, <1>b, <1>1 DEF vars, docVars
\* A registration that a new version leaves behind indexes nothing any more.
<1>2. ASSUME NEW d \in Docs, NEW v \in Nat,
             \A e \in Docs \ {d} : version'[e] = version[e] /\ lastVersion'[e] = lastVersion[e]
                                   /\ buffer'[e] = buffer[e],
             version'[d] = v,
             \/ v = 0 /\ lastVersion'[d] = lastVersion[d]
             \/ v > lastVersion[d] /\ lastVersion'[d] = v,
             UNCHANGED <<live, readQ, outQ, pool, asked>>
      PROVE  VersionsNameTexts'
  <2>1. ASSUME NEW id \in Ids, NEW e, NEW text, Indexes(id, e, text) PROVE Indexes(id, e, text)'
    <3> SUFFICES ASSUME live[id] # None, e # None, live[id].doc = e, version'[e] = live[id].version
                 PROVE  text = buffer'[e]
      BY <1>2, <2>1 DEF Indexes
    <3>1. e \in Docs /\ live[id].version \in 1 .. lastVersion[e]
      BY DEF VersionsNameTexts, DocOrNone
    <3>2. CASE e = d
      BY <3>1, <3>2, <1>2
    <3>3. CASE e # d
      BY <3>1, <3>3, <1>2, <2>1 DEF Indexes
    <3> QED BY <3>2, <3>3
  <2>2. ASSUME NEW w \in Work' PROVE JobIndexes(w)'
    BY <2>1, <1>2, <1>a, <1>c DEF VersionsNameTexts, JobIndexes
  <2>3. ASSUME NEW c \in Outgoing' PROVE c[1] \in asked' /\ AnswerIndexes(c[1], c[2])'
    BY <2>1, <1>2, <1>b DEF VersionsNameTexts, AnswerIndexes
  <2>4. ASSUME NEW e \in Docs, version'[e] > 0 PROVE version'[e] = lastVersion'[e]
    <3>1. CASE e = d
      BY <3>1, <2>4, <1>2
    <3>2. CASE e # d
      BY <3>2, <2>4, <1>2 DEF VersionsNameTexts
    <3> QED BY <3>1, <3>2
  <2>5. ASSUME NEW id \in Ids, live'[id] # None, live'[id].doc # None
        PROVE  live'[id].version \in 1 .. lastVersion'[live'[id].doc]
    <3>1. live'[id] = live[id] /\ live[id].doc \in Docs
      BY <1>2, <2>5 DEF DocOrNone
    <3>2. live[id].version \in 1 .. lastVersion[live[id].doc]
      BY <3>1, <2>5, <1>2 DEF VersionsNameTexts
    <3>3. ASSUME NEW e \in Docs PROVE lastVersion'[e] \in Nat /\ lastVersion'[e] >= lastVersion[e]
      <4>1. CASE e = d
        BY <4>1, <1>2
      <4>2. CASE e # d
        BY <4>2, <1>2
      <4> QED BY <4>1, <4>2
    <3>4. lastVersion[live[id].doc] \in Nat
      BY <3>1
    <3> QED BY <3>1, <3>2, <3>3, <3>4
  <2> QED BY <2>2, <2>3, <2>4, <2>5 DEF VersionsNameTexts
<1>3. ASSUME NEW d \in Docs, NEW text \in Texts, DidOpen(d, text) \/ DidChange(d, text)
      PROVE  VersionsNameTexts'
  <2>1. PICK v \in Nat : SetDocument(d, v, text) /\ v = lastVersion[d] + 1
    <3>1. CASE DidOpen(d, text)
      BY <3>1 DEF DidOpen
    <3>2. CASE DidChange(d, text)
      BY <3>2 DEF DidChange, IsOpen, VersionsNameTexts
    <3> QED BY <1>3, <3>1, <3>2
  <2>2. UNCHANGED <<live, readQ, outQ, pool, asked>>
    BY <1>3 DEF DidOpen, DidChange
  <2>3. \A e \in Docs \ {d} : version'[e] = version[e] /\ lastVersion'[e] = lastVersion[e]
                              /\ buffer'[e] = buffer[e]
    BY <2>1 DEF SetDocument
  <2>4. version'[d] = v /\ v > lastVersion[d] /\ lastVersion'[d] = v
    BY <2>1 DEF SetDocument
  <2> QED BY <2>2, <2>3, <2>4, <1>2
<1>4. ASSUME NEW d \in Docs, DidClose(d) PROVE VersionsNameTexts'
  BY <1>2, <1>4 DEF DidClose
<1>5. ASSUME NEW id \in Ids, NEW kind, NEW d, AskDeclined(id, kind, d) \/ AskPrepare(id, d)
      PROVE  VersionsNameTexts'
  <2>1. UNCHANGED <<docVars, live, readQ, outQ, pool>> /\ asked' = asked \cup {id}
    BY <1>5 DEF AskDeclined, AskPrepare, Ask
  <2>2. Work' = Work /\ Outgoing' = Outgoing
    BY <2>1, <1>a, <1>b
  <2>3. \A i, e, text : Indexes(i, e, text)' <=> Indexes(i, e, text)
    BY <2>1 DEF Indexes, docVars
  <2> QED BY <2>1, <2>2, <2>3 DEF VersionsNameTexts, JobIndexes, AnswerIndexes, docVars
<1>6. ASSUME NEW id \in Ids, NEW kind \in AllKinds, NEW d \in DocOrNone,
             d \in DocsOf(kind), AskDirect(id, kind, d) \/ AskViaLintThread(id, kind, d)
      PROVE  VersionsNameTexts'
  <2>1. /\ UNCHANGED <<docVars, outQ>> /\ asked' = asked \cup {id} /\ id \notin asked
        /\ Serves(kind, d)
    BY <1>6 DEF AskDirect, AskViaLintThread, Ask
  <2>b. PICK read : Register(id, read) /\ read \in {d, None}
                    /\ (kind # "presentation" => read = d)
    BY <1>6 DEF AskDirect, AskViaLintThread, VersionRead
  <2>2. /\ live'[id] = [doc |-> read, version |-> IF read = None THEN 0 ELSE version[read]]
        /\ \A o \in Ids \ {id} : live'[o] = live[o]
    BY <2>b DEF Register
  <2>3. d # None => d \in Docs /\ version[d] > 0
    BY <1>6, <2>1, ReadAssumption DEF Serves, IsOpen, DocumentLess, Docs, DocOrNone, DocsOf
  <2>4. ASSUME NEW o \in asked, NEW e, NEW text, Indexes(o, e, text) PROVE Indexes(o, e, text)'
    <3>1. live'[o] = live[o]
      BY <2>1, <2>2
    <3> QED BY <3>1, <2>1, <2>4 DEF Indexes, docVars
  <2>a. PICK w : w = Job(id, kind, d)
    OBVIOUS
  <2>5. /\ w.id = id /\ w.kind = kind /\ w.doc = d
        /\ d # None => w.text = buffer[d]
    BY <2>a DEF Job
  <2>6. Work' \subseteq Work \cup {w}
    BY <1>6, <2>a, AskWork
  <2>7. JobIndexes(w)'
    <3> SUFFICES ASSUME kind # "presentation" PROVE Indexes(w.id, w.doc, w.text)'
      BY <2>5 DEF JobIndexes
    <3>1. buffer' = buffer /\ live'[id].doc = d
      BY <2>1, <2>2, <2>b DEF docVars
    <3> QED BY <2>5, <3>1 DEF Indexes
  <2>8. ASSUME NEW x \in Work' PROVE JobIndexes(x)'
    <3>1. CASE x \in Work
      BY <3>1, <2>4, <1>c DEF VersionsNameTexts, JobIndexes
    <3>2. CASE x = w
      BY <3>2, <2>7
    <3> QED BY <3>1, <3>2, <2>6
  <2>9. Outgoing' \subseteq Outgoing
    <3>1. Started(w, None).phase = "read"
      BY DEF Started
    <3>2. outQ' = outQ /\ pool' \subseteq pool \cup {Started(w, None)}
      BY <1>6, <2>a DEF AskDirect, AskViaLintThread
    <3> QED BY <3>1, <3>2 DEF Outgoing
  <2>10. ASSUME NEW c \in Outgoing' PROVE c[1] \in asked' /\ AnswerIndexes(c[1], c[2])'
    <3>1. c[1] \in asked /\ AnswerIndexes(c[1], c[2])
      BY <2>9 DEF VersionsNameTexts
    <3> QED BY <3>1, <2>1, <2>4 DEF AnswerIndexes
  <2>11. ASSUME NEW o \in Ids, live'[o] # None, live'[o].doc # None
         PROVE  live'[o].version \in 1 .. lastVersion'[live'[o].doc]
    <3>1. CASE o = id
      <4>1. version[d] = lastVersion[d] /\ live'[o].version = version[d] /\ live'[o].doc = d
        BY <3>1, <2>2, <2>b, <2>3, <2>11 DEF VersionsNameTexts
      <4>2. version[d] \in 1 .. version[d]
        BY <2>3, <2>2, <2>b, <2>11, <3>1
      <4> QED BY <4>1, <4>2, <2>1 DEF docVars
    <3>2. CASE o # id
      BY <3>2, <2>1, <2>2, <2>11 DEF VersionsNameTexts, docVars
    <3> QED BY <3>1, <3>2
  <2> QED BY <2>1, <2>8, <2>10, <2>11 DEF VersionsNameTexts, docVars
<1>7. ASSUME \/ MintSnapshot \/ HandleLint \/ FinishWrite \/ OnReadReply
             \/ \E id \in Ids : Cancel(id)
             \/ \E j \in pool : Locate(j) \/ UnwindUnguarded(j) \/ Panic(j)
      PROVE  VersionsNameTexts'
  <2>1. Work' \subseteq Work
    BY <1>7, ServerWork
  <2>2. Outgoing' \subseteq Outgoing
    BY <1>7, OutgoingStep
  <2>3. UNCHANGED <<version, lastVersion, buffer, asked>>
    BY <1>7 DEF MintSnapshot, HandleLint, FinishWrite, OnReadReply, Cancel, Locate,
                UnwindUnguarded, Panic, docVars
  <2>4. live' = live \/ \E id : live' = [live EXCEPT ![id] = None]
    BY <1>7 DEF MintSnapshot, HandleLint, FinishWrite, OnReadReply, Cancel, Locate,
                UnwindUnguarded, Panic
  <2>5. \A id \in Ids : live'[id] \in {None, live[id]}
    BY <2>4
  <2> QED BY <2>1, <2>2, <2>3, <2>5, <1>0
<1>8. ASSUME NEW j \in pool, RunRead(j) PROVE VersionsNameTexts'
  <2>1. UNCHANGED <<version, lastVersion, buffer, asked, live>>
    BY <1>8 DEF RunRead
  <2>2. Work' \subseteq Work
    BY <1>8, ServerWork
  <2>3. Outgoing' \subseteq Outgoing \cup {<<j.job.id, Found(j)>>}
    BY <1>8, RunReadOutgoing
  <2>4. \A i, e, text : Indexes(i, e, text)' <=> Indexes(i, e, text)
    BY <2>1 DEF Indexes
  <2>5. j.job.id \in asked /\ AnswerIndexes(j.job.id, Found(j))
    <3>1. j.job \in Work
      BY DEF Work
    <3>2. JobIndexes(j.job)
      BY <3>1 DEF VersionsNameTexts
    <3> QED BY <3>2, FoundIsCaptured DEF AnswerIndexes, JobIndexes
  <2>6. ASSUME NEW c \in Outgoing' PROVE c[1] \in asked' /\ AnswerIndexes(c[1], c[2])'
    <3>1. c[1] \in asked /\ AnswerIndexes(c[1], c[2])
      BY <2>3, <2>5 DEF VersionsNameTexts
    <3> QED BY <3>1, <2>1, <2>4 DEF AnswerIndexes
  <2>7. ASSUME NEW w \in Work' PROVE JobIndexes(w)'
    BY <2>2, <2>4 DEF VersionsNameTexts, JobIndexes
  <2> QED BY <2>1, <2>6, <2>7 DEF VersionsNameTexts
<1>9. Kinds \subseteq AllKinds
  BY ReadAssumption
<1> QED BY <1>1, <1>3, <1>4, <1>5, <1>6, <1>7, <1>8, <1>9
        DEF Next, ClientStep, LintThreadStep, PoolStep, DocOrNone

\* The one gate: what it lets through indexes the live buffer.
LEMMA GateStep ==
  ASSUME TInv, LInv, VersionsNameTexts, [Next]_vars, NEW id \in Ids, NEW a \in NewAnswers(id),
         a.kind # "presentation", a.outcome = "result", a.doc # None
  PROVE  a.text = buffer[a.doc]
<1> USE DEF TInv
<1>0. answers'[id] # answers[id] /\ a = answers'[id][Len(answers'[id])]
  BY DEF NewAnswers
\* An answer appended for some id is the new answer, and of that id.
<1>a. ASSUME NEW o \in Ids, NEW x, answers' = [answers EXCEPT ![o] = Append(@, x)]
      PROVE  o = id /\ a = x
  <2>1. \A i \in Ids \ {o} : answers'[i] = answers[i]
    BY <1>a
  <2>2. o = id
    BY <2>1, <1>0
  <2>3. answers'[id] = Append(answers[id], x) /\ answers[id] \in Seq(Answers)
    BY <2>2, <1>a
  <2>4. \A s \in Seq(Answers) : Append(s, x)[Len(Append(s, x))] = x
    OBVIOUS
  <2> QED BY <2>2, <2>3, <2>4, <1>0
<1>1. CASE UNCHANGED answers
  BY <1>0, <1>1
<1>2. ASSUME NEW o \in Ids, NEW kind, NEW d, AskDeclined(o, kind, d) PROVE a.text = buffer[a.doc]
  <2>1. a = Refusal(IF kind = "unknown" THEN "error" ELSE "null")
    BY <1>2, <1>a DEF AskDeclined
  <2> QED BY <2>1 DEF Refusal, Answer
<1>3. ASSUME NEW o \in Ids, NEW d, AskPrepare(o, d) PROVE a.text = buffer[a.doc]
  <2>1. a = Result("prepare", d, buffer[d], <<>>)
    BY <1>3, <1>a DEF AskPrepare
  <2> QED BY <2>1 DEF Result, Answer
<1>4. ASSUME NEW o \in Ids, Cancel(o) PROVE a.text = buffer[a.doc]
  <2>1. a = Refusal("cancelled")
    BY <1>4, <1>a DEF Cancel
  <2> QED BY <2>1 DEF Refusal, Answer
<1>5. CASE OnReadReply
  <2> DEFINE o == Head(outQ).id
             x == IF IsCurrent(live[o]) THEN Head(outQ).answer ELSE Refusal("modified")
  <2>1. Head(outQ) \in Replies /\ Head(outQ) = outQ[1] /\ 1 \in 1 .. Len(outQ)
    BY <1>5, Queues DEF OnReadReply
  <2>2. o \in Ids
    BY <2>1 DEF Replies
  <2>3. live[o] # None /\ answers' = [answers EXCEPT ![o] = Append(@, x)]
    BY <1>5, <1>0 DEF OnReadReply
  <2>4. a = x /\ o = id
    <3> HIDE DEF o, x
    <3> QED BY <2>2, <2>3, <1>a
  <2>5. x = Head(outQ).answer /\ IsCurrent(live[o])
    <3>1. Refusal("modified").outcome # "result"
      BY DEF Refusal, Answer
    <3> QED BY <3>1, <2>4
  <2>6. <<o, a>> \in Outgoing
    BY <2>1, <2>4, <2>5 DEF Outgoing
  <2>7. AnswerIndexes(o, a)
    <3> HIDE DEF o
    <3>1. AnswerIndexes((<<o, a>>)[1], (<<o, a>>)[2])
      BY <2>6 DEF VersionsNameTexts
    <3> QED BY <3>1
  <2> HIDE DEF o, x
  <2> QED BY <2>3, <2>5, <2>7 DEF AnswerIndexes, Indexes, IsCurrent
<1>6. CASE UNCHANGED vars
  BY <1>1, <1>6 DEF vars
<1>7. ASSUME NEW d \in Docs, NEW text \in Texts, DidOpen(d, text) \/ DidChange(d, text) \/ DidClose(d)
      PROVE  UNCHANGED answers
  BY <1>7 DEF DidOpen, DidChange, DidClose
<1>8. ASSUME NEW o \in Ids, NEW kind, NEW d, AskDirect(o, kind, d) \/ AskViaLintThread(o, kind, d)
      PROVE  UNCHANGED answers
  BY <1>8 DEF AskDirect, AskViaLintThread
<1>9. ASSUME \/ MintSnapshot \/ HandleLint \/ FinishWrite
             \/ \E j \in pool : RunRead(j) \/ Locate(j) \/ UnwindUnguarded(j) \/ Panic(j)
      PROVE  UNCHANGED answers
  BY <1>9 DEF MintSnapshot, HandleLint, FinishWrite, RunRead, Locate, UnwindUnguarded, Panic
<1> QED BY <1>1, <1>2, <1>3, <1>4, <1>5, <1>6, <1>7, <1>8, <1>9
        DEF Next, ClientStep, LintThreadStep, PoolStep

\* A result that reaches the client, a colorPresentation's excepted, indexes the
\* text its document has at that moment, provided a reopened document does not
\* count its versions from 1 again: the gate compares versions, never texts
\* (register_read, on_read_reply, file_text_is).
THEOREM ResultsAreOfTheLiveBuffer ==
  ~RestartVersions /\ Spec => ResultsIndexTheLiveBuffer
<1> SUFFICES ASSUME ~RestartVersions PROVE Spec => ResultsIndexTheLiveBuffer
  OBVIOUS
<1> DEFINE Inv == TInv /\ LInv /\ OneTextPerCell /\ VersionsNameTexts
           Gate == \A id \in Ids : \A a \in NewAnswers(id) :
                     a.kind # "presentation" => IndexesTheLiveBuffer(a)
<1>1. Init => Inv
  <2> SUFFICES ASSUME Init PROVE OneTextPerCell /\ VersionsNameTexts
    BY InitType, InitTable
  <2>1. Work = {} /\ Outgoing = {}
    BY DEF Init, Work, Outgoing
  <2>2. Claims = {}
    BY <2>1 DEF Init, Claims
  <2> QED BY <2>1, <2>2 DEF Init, OneTextPerCell, VersionsNameTexts
<1>2. Inv /\ [Next]_vars => Inv'
  BY StepType, ContractStep, CellsStep, VersionsStep
<1>3. Inv /\ [Next]_vars => [Gate]_vars
  BY GateStep DEF IndexesTheLiveBuffer
<1>4. ResultsIndexTheLiveBuffer <=> [][Gate]_vars
  BY DEF ResultsIndexTheLiveBuffer
<1> HIDE DEF Inv, Gate
<1> QED BY <1>1, <1>2, <1>3, <1>4, PTL DEF Spec
=============================================================================
