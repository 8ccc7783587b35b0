------------------------------- MODULE LintFix -------------------------------
(***************************************************************************)
(* `arity lint --fix` on one file: directives that suppress findings       *)
(* (src/linter/suppression.rs), the rules about directives (rules/meta),   *)
(* and the loop that applies fixes and lints again (src/linter/fix.rs,     *)
(* src/main.rs).                                                           *)
(*                                                                         *)
(* A text is a sequence of atoms: statements with their issues, directive  *)
(* comments, spaces and line feeds.  What a rule finds in a statement is   *)
(* its issues; a fix of it deletes the statement or rewrites it.           *)
(***************************************************************************)
EXTENDS Integers, Sequences, FiniteSets, SequencesExt

CONSTANTS
  Texts,       \* the files as their authors left them
  RuleOrder,   \* the rules about statements, in the order of their names
  Rewrites,    \* of the rules whose fix rewrites: the issues it leaves
  Deletes,     \* the rules whose fix deletes the statement
  Unsafe,      \* the rules whose fix is applied on demand only
  Selections,  \* sets of rules a run may enable
  MaxFixIterations,
  MaxRuns

VARIABLES
  file,  \* the text
  job,   \* the run under way
  runs   \* how many were started

fixVars == <<file, job, runs>>

Rules == Range(RuleOrder)
Meta == {"outdated", "misplaced", "blanket"}
Scopes == Rules \union Meta \union {"all", "unnamed"}

\* The directives parse accepts: only a `lint` one that does not close names a rule.
DirectivesOf(tools, verbs, scopes) ==
  [k : {"dir"}, id : Nat, tool : tools, verb : verbs, scope : scopes]

\* A line feed, a space, a statement or a directive comment.
Atoms ==
  [k : {"nl"}] \union [k : {"sp"}] \union [k : {"stmt"}, id : Nat, issues : SUBSET Rules]
  \union DirectivesOf({"lint"}, {"skip", "off", "skip-file"}, Scopes)
  \union DirectivesOf({"lint"}, {"on"}, {"unnamed"})
  \union DirectivesOf({"both"}, {"skip", "off", "on", "skip-file"}, {"all"})

\* A line feed follows a comment, and stands between two statements.
LinesApart(t) ==
  /\ \A i \in 1 .. Len(t) - 1 : t[i].k = "dir" => t[i + 1].k = "nl"
  /\ \A i, j \in 1 .. Len(t) :
       i < j /\ t[i].k = "stmt" /\ t[j].k = "stmt" => \E n \in i + 1 .. j - 1 : t[n].k = "nl"

\* The ids tell the statements, and the directives, apart.
EachIsItself(t) ==
  \A i, j \in DOMAIN t :
    t[i].k \in {"stmt", "dir"} /\ t[j].k = t[i].k /\ t[j].id = t[i].id => i = j

WellFormed(t) == t \in Seq(Atoms) /\ EachIsItself(t) /\ LinesApart(t)

ASSUME FixAssumption ==
  /\ RuleOrder \in Seq(Rules)
  /\ Rules \intersect (Meta \union {"all", "unnamed"}) = {}
  /\ Deletes \subseteq Rules /\ DOMAIN Rewrites \subseteq Rules
  /\ \A r \in DOMAIN Rewrites : Rewrites[r] \subseteq Rules
  /\ \A t \in Texts : WellFormed(t)

NoJob == [on |-> FALSE, enabled |-> {}, unsafe |-> FALSE, round |-> 0]

------------------------------------------------------------------------------
(* suppression.rs                                                          *)

Of(t, kind) == {i \in 1 .. Len(t) : t[i].k = kind}
Statements(t) == Of(t, "stmt")
Directives(t) == Of(t, "dir")

First(s) == {i \in s : \A j \in s : i <= j}

\* next_meaningful_sibling: what a `skip` attaches to, if anything.
NextSibling(t, i) == First({j \in Statements(t) : j > i})

\* The `on` that ends a region: the first one written with the same prefix.
Closer(t, i) == First({j \in Directives(t) : j > i /\ t[j].verb = "on" /\ t[j].tool = t[i].tool})

\* close_regions
RegionEnd(t, i) == IF Closer(t, i) = {} THEN Len(t) ELSE (CHOOSE j \in Closer(t, i) : TRUE) - 1

\* classify, close_regions: the atoms a directive covers.
Coverage(t, i) ==
  {at \in 1 .. Len(t) :
     \/ t[i].verb = "skip-file"
     \/ t[i].verb = "skip" /\ at \in NextSibling(t, i)
     \/ t[i].verb = "off"  /\ at \in i + 1 .. RegionEnd(t, i)}

\* covers: a blanket directive suppresses nothing that is about a directive.
Covers(t, i, at) == at \in Coverage(t, i) /\ (t[i].scope = "all" => at \notin Directives(t))

Suppresses(t, i, rule, at) ==
  t[i].verb # "on" /\ t[i].scope \in {"all", rule} /\ Covers(t, i, at)

IsSuppressed(t, rule, at) == \E i \in Directives(t) : Suppresses(t, i, rule, at)

\* filter: every directive that covers a finding is used.
Used(t, findings) ==
  {i \in Directives(t) : \E f \in findings : Suppresses(t, i, f.rule, f.at)}

Kept(t, findings) == {f \in findings : ~IsSuppressed(t, f.rule, f.at)}

------------------------------------------------------------------------------
(* rules/meta                                                              *)

Finding(rule, at) == [rule |-> rule, at |-> at]

\* misplaced-suppression: an `on` that closes nothing.
Misplaced(t) ==
  {i \in Directives(t) : t[i].verb = "on" /\
     ~\E j \in Directives(t) : t[j].verb = "off" /\ i \in Closer(t, j)}

\* blanket-suppression: no rule named, or every rule beyond one statement.
Blanket(t) ==
  {i \in Directives(t) : t[i].verb # "on" /\
     (t[i].scope = "unnamed" \/ (t[i].scope = "all" /\ t[i].verb # "skip"))}

IsDangling(t, i) == t[i].verb = "skip" /\ NextSibling(t, i) = {}

\* (wrong) A directive of a rule that did not run is outdated.
OutdatedOrDormant(t, enabled, used) ==
  {i \in Directives(t) \ used : t[i].scope \in Rules \union Meta}

\* outdated-suppression: it names a rule that ran and suppressed nothing.
Outdated(t, enabled, used) ==
  {i \in Directives(t) \ used :
     t[i].scope \in Rules \union Meta /\ (IsDangling(t, i) \/ t[i].scope \in enabled)}

------------------------------------------------------------------------------
(* rules.rs                                                                *)

\* The findings before any is suppressed.
RawFindings(t, enabled) ==
  {f \in [rule : enabled, at : Statements(t)] : f.rule \in t[f.at].issues}
  \union [rule : enabled \intersect {"misplaced"}, at : Misplaced(t)]
  \union [rule : enabled \intersect {"blanket"}, at : Blanket(t)]

\* run_rules: the rule about unused directives comes after the filter and cannot
\* make a directive used.
RunRules(t, enabled) ==
  LET raw == RawFindings(t, enabled)
      outdated == {Finding("outdated", i) : i \in Outdated(t, enabled, Used(t, raw))}
  IN  Kept(t, raw) \union IF "outdated" \in enabled THEN Kept(t, outdated) ELSE {}

------------------------------------------------------------------------------
(* Fixes: from and to are offsets between atoms.                           *)

Blanks(t, kinds, i) == \A j \in i : t[j].k \in kinds

\* The offset before the blanks that end at o, and after those that start at o.
Back(t, kinds, o) ==
  CHOOSE p \in 0 .. o : Blanks(t, kinds, p + 1 .. o) /\ (p > 0 => t[p].k \notin kinds)
Ahead(t, kinds, o) ==
  CHOOSE p \in o .. Len(t) :
    Blanks(t, kinds, o + 1 .. p) /\ (p < Len(t) => t[p + 1].k \notin kinds)

ConsumeNewline(t, o) == IF o < Len(t) /\ t[o + 1].k = "nl" THEN o + 1 ELSE o

\* The blank lines that follow: up to the start of the next line with content.
AbsorbBlankLines(t, o) ==
  LET p == Ahead(t, {"sp", "nl"}, o)
      starts == {q \in o .. p : q = o \/ t[q].k = "nl"}
  IN  CHOOSE q \in starts : \A r \in starts : r <= q

\* deletion_span
DeletionSpan(t, i) ==
  LET from == Back(t, {"sp"}, i - 1)
      to == AbsorbBlankLines(t, ConsumeNewline(t, Ahead(t, {"sp"}, i)))
      prev == Back(t, {"sp", "nl"}, from)
  IN  IF to < Len(t) THEN <<from, to>>
      ELSE <<IF prev > 0 THEN ConsumeNewline(t, prev) ELSE 0, to>>

\* comment_deletion_span
CommentDeletionSpan(t, i) ==
  LET from == Back(t, {"sp"}, i - 1)
      ownLine == from = 0 \/ t[from].k = "nl"
  IN  <<from, IF ownLine THEN ConsumeNewline(t, i) ELSE i>>

Rewritten(s, rule) == [s EXCEPT !.issues = (@ \ {rule}) \union Rewrites[rule]]

Fix(span, content, f) == [from |-> span[1], to |-> span[2], content |-> content, rule |-> f.rule]

\* The fix a finding carries, if it does.
FixOf(t, f) ==
  IF f.rule = "outdated" THEN {Fix(CommentDeletionSpan(t, f.at), <<>>, f)}
  ELSE IF f.rule \in Deletes THEN {Fix(DeletionSpan(t, f.at), <<>>, f)}
  ELSE IF f.rule \in DOMAIN Rewrites
       THEN {Fix(<<f.at - 1, f.at>>, <<Rewritten(t[f.at], f.rule)>>, f)}
  ELSE {}

Rank(rule) == IF rule \in Rules THEN CHOOSE n \in DOMAIN RuleOrder : RuleOrder[n] = rule ELSE 0

\* By start, then end; equal ones stay in the order of the findings.
InOrder(f, g) ==
  \/ f.from < g.from
  \/ f.from = g.from /\ (f.to < g.to \/ (f.to = g.to /\ Rank(f.rule) < Rank(g.rule)))

\* The fixes in that order: each after those that go before it.
Sorted(fixes) ==
  [n \in 1 .. Cardinality(fixes) |->
     CHOOSE f \in fixes : Cardinality({g \in fixes : InOrder(g, f)}) = n - 1]

\* (wrong) Fixes that touch the same bytes are all applied.
AcceptedAll(fixes) == Sorted(fixes)

\* The sweep of apply_fixes: a fix that overlaps the last accepted one is dropped.
Sweep(acc, f) == IF acc # <<>> /\ f.from < Last(acc).to THEN acc ELSE Append(acc, f)

Accepted(fixes) == FoldLeft(Sweep, <<>>, Sorted(fixes))

SpliceFix(t, f) == SubSeq(t, 1, f.from) \o f.content \o SubSeq(t, f.to + 1, Len(t))

\* apply_fixes: spliced from the right, so that offsets to the left stay valid.
ApplyFixes(t, accepted) == FoldLeft(SpliceFix, t, Reverse(accepted))

------------------------------------------------------------------------------
(* main.rs                                                                 *)

Fixes(t, enabled) == UNION {FixOf(t, f) : f \in RunRules(t, enabled)}
Eligible(t, j) == {f \in Fixes(t, j.enabled) : j.unsafe \/ f.rule \notin Unsafe}

FixInit == file \in Texts /\ job = NoJob /\ runs = 0

\* `arity lint --fix`, with the rules that are selected this time.
Invoke ==
  /\ ~job.on /\ runs < MaxRuns
  /\ \E enabled \in Selections, unsafe \in BOOLEAN :
       job' = [on |-> TRUE, enabled |-> enabled, unsafe |-> unsafe, round |-> 0]
  /\ runs' = runs + 1
  /\ UNCHANGED file

\* One turn of fix_source_in_project.
Round ==
  /\ job.on /\ job.round < MaxFixIterations
  /\ Eligible(file, job) # {}
  /\ file' = ApplyFixes(file, Accepted(Eligible(file, job)))
  /\ job' = [job EXCEPT !.round = @ + 1]
  /\ UNCHANGED runs

\* Nothing more to apply, or enough turns.
Finish ==
  /\ job.on
  /\ job.round = MaxFixIterations \/ Eligible(file, job) = {}
  /\ job' = NoJob
  /\ UNCHANGED <<file, runs>>

FixNext == Invoke \/ Round \/ Finish

FixSpec == FixInit /\ [][FixNext]_fixVars

------------------------------------------------------------------------------
(* What a step of the loop may do to the file.                             *)

\* The atoms of the new text that stand for atom i of the old one: one or none.
Successor(i) == {x \in Range(file') : x.k = file[i].k /\ x.id = file[i].id}

Reported(i, rules) == \E f \in RunRules(file, job.enabled) : f.at = i /\ f.rule \in rules

\* What a fix of a finding reported there would make of it.
Accounted(i) ==
  \/ Successor(i) = {file[i]}
  \/ Successor(i) = {} /\ Reported(i, Deletes \union {"outdated"})
  \/ \E rule \in DOMAIN Rewrites :
       Reported(i, {rule}) /\ Successor(i) = {Rewritten(file[i], rule)}

\* A run changes what it reported and nothing else, and what was a line of its
\* own stays one, however the fixes of one turn touch or overlap.
OnlyReportedIsChanged ==
  [][/\ \A i \in Statements(file) \union Directives(file) : Accounted(i)
     /\ LinesApart(file')]_fixVars

\* No `skip` loses its statement to a fix.
SkipsKeepTheirStatements ==
  \A i \in Directives(file) : file[i].verb = "skip" =>
    \A j \in NextSibling(file, i) : Successor(i) = {} \/ Successor(j) # {}

\* An issue that is still there is suppressed after a step exactly if it was
\* before, whatever was deleted, and with whichever rules the run was started.
Stable ==
  \A i \in Statements(file), j \in Statements(file') :
    file[i].id = file'[j].id =>
      \A rule \in file[i].issues \intersect file'[j].issues :
        IsSuppressed(file, rule, i) <=> IsSuppressed(file', rule, j)

SuppressionIsStable == [][SkipsKeepTheirStatements => Stable]_fixVars

\* The same of all steps.
SuppressionIsStableAnywhere == [][Stable]_fixVars
==============================================================================
