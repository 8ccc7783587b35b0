----------------------------- MODULE LintFixProofs -----------------------------
(***************************************************************************)
(* `arity lint --fix` changes what it reported and nothing else, and what  *)
(* its fixes leave in place stays suppressed as it was (LintFix), for any  *)
(* rules and any file.                                                     *)
(*                                                                         *)
(* A fix cuts one statement or comment out, with the blanks around it, or  *)
(* puts one statement in the place of another.  The sweep accepts fixes    *)
(* that lie apart, so after any number of them, spliced from the right,    *)
(* what is left stands in its old order (Lineage): each atom of the new    *)
(* text comes from one of the old text, and all others were cut out.       *)
(***************************************************************************)
EXTENDS LintFix, FiniteSetTheorems, SequenceTheorems, WellFoundedInduction, TLAPS

--------------------------------------------------------------------------------
(* Numbers.                                                                *)

\* The order of the naturals is well founded.
LEMMA LeastNatural ==
  ASSUME NEW T, T \subseteq Nat, T # {}
  PROVE  \E x \in T : \A y \in T : x <= y
<1>1. PICK x \in T : \A y \in T : <<y, x>> \notin OpToRel(<, Nat)
  BY NatLessThanWellFounded, WFMin
<1>2. \A y \in T : ~ (y < x)
  BY <1>1 DEF OpToRel
<1> QED BY <1>2

\* Induction up to n, for a set of naturals.
LEMMA CountUp ==
  ASSUME NEW n \in Nat, NEW G, 0 \in G, \A k \in 1 .. n : k - 1 \in G => k \in G
  PROVE  \A k \in 0 .. n : k \in G
<1> SUFFICES ASSUME {k \in 0 .. n : k \notin G} # {} PROVE FALSE
  OBVIOUS
<1> DEFINE T == {k \in 0 .. n : k \notin G}
<1>1. PICK k \in T : \A y \in T : k <= y
  <2>1. T \subseteq Nat /\ T # {}
    OBVIOUS
  <2> HIDE DEF T
  <2> QED BY <2>1, LeastNatural
<1>2. k \in 1 .. n /\ k \notin G /\ k - 1 \in 0 .. n
  OBVIOUS
<1>3. k - 1 \in G
  BY <1>1, <1>2
<1> QED BY <1>2, <1>3

\* A bounded set of numbers has a greatest one.
LEMMA GreatestNatural ==
  ASSUME NEW n \in Nat, NEW s, s \subseteq 0 .. n, s # {}
  PROVE  \E x \in s : \A y \in s : y <= x
<1> DEFINE T == {n - x : x \in s}
<1>1. PICK z \in T : \A y \in T : z <= y
  <2>1. \A x \in s : n - x \in Nat
    OBVIOUS
  <2>2. T \subseteq Nat /\ T # {}
    BY <2>1
  <2> HIDE DEF T
  <2> QED BY <2>2, LeastNatural
<1>2. PICK x \in s : z = n - x
  BY <1>1
<1>3. \A y \in s : y <= x
  <2> TAKE y \in s
  <2>1. n - y \in T /\ x \in Nat /\ y \in Nat
    OBVIOUS
  <2> QED BY <2>1, <1>1, <1>2
<1> QED BY <1>2, <1>3

--------------------------------------------------------------------------------
(* Atoms.                                                                  *)

\* Their kinds, and what each has.
LEMMA AtomsAre ==
  ASSUME NEW x \in Atoms
  PROVE  /\ x.k \in {"nl", "sp", "stmt", "dir"}
         /\ x.k = "stmt" => /\ x.issues \subseteq Rules /\ x.id \in Nat
                            /\ x \in [k : {"stmt"}, id : Nat, issues : SUBSET Rules]
         /\ x.k = "dir" /\ x.verb = "on" => x.scope \in {"all", "unnamed"}
BY DEF Atoms, DirectivesOf, Scopes

\* A text, atom by atom.
LEMMA TextsAre ==
  ASSUME NEW t, WellFormed(t)
  PROVE  /\ t \in Seq(Atoms) /\ Len(t) \in Nat /\ DOMAIN t = 1 .. Len(t)
         /\ \A i \in 1 .. Len(t) : t[i] \in Atoms /\ t[i].k \in {"nl", "sp", "stmt", "dir"}
         /\ Statements(t) = {i \in 1 .. Len(t) : t[i].k = "stmt"}
         /\ Directives(t) = {i \in 1 .. Len(t) : t[i].k = "dir"}
<1>1. t \in Seq(Atoms) /\ Len(t) \in Nat /\ DOMAIN t = 1 .. Len(t)
  BY DEF WellFormed
<1>2. \A i \in 1 .. Len(t) : t[i] \in Atoms
  BY <1>1
<1> QED BY <1>1, <1>2, AtomsAre DEF Statements, Directives, Of

\* What the fix of a rewriting rule makes of a statement.
LEMMA RewrittenIs ==
  ASSUME NEW s \in Atoms, s.k = "stmt", NEW r \in DOMAIN Rewrites
  PROVE  /\ Rewritten(s, r) \in Atoms /\ Rewritten(s, r).k = "stmt" /\ Rewritten(s, r).id = s.id
         /\ Rewritten(s, r).issues = (s.issues \ {r}) \union Rewrites[r]
<1>1. s \in [k : {"stmt"}, id : Nat, issues : SUBSET Rules]
  BY AtomsAre
<1>2. Rewrites[r] \subseteq Rules
  BY FixAssumption
<1>3. Rewritten(s, r) = [s EXCEPT !.issues = (s.issues \ {r}) \union Rewrites[r]]
  BY DEF Rewritten
<1>4. Rewritten(s, r) \in [k : {"stmt"}, id : Nat, issues : SUBSET Rules]
  BY <1>1, <1>2, <1>3
<1>5. Rewritten(s, r).id = s.id /\ Rewritten(s, r).issues = (s.issues \ {r}) \union Rewrites[r]
  BY <1>1, <1>3
<1> QED BY <1>4, <1>5 DEF Atoms

--------------------------------------------------------------------------------
(* Blanks around an offset.                                                *)

\* Before an offset: what lies between is blank, and what is before it is not.
LEMMA BackIs ==
  ASSUME NEW t, WellFormed(t), NEW kinds, NEW o \in 0 .. Len(t)
  PROVE  /\ Back(t, kinds, o) \in 0 .. o
         /\ \A j \in Back(t, kinds, o) + 1 .. o : t[j].k \in kinds
         /\ Back(t, kinds, o) > 0 => t[Back(t, kinds, o)].k \notin kinds
<1> DEFINE Is(p) == Blanks(t, kinds, p + 1 .. o) /\ (p > 0 => t[p].k \notin kinds)
           S == {p \in 0 .. o : \A j \in p + 1 .. o : t[j].k \in kinds}
<1>0. Len(t) \in Nat /\ o \in Nat
  BY TextsAre
<1>1. S \subseteq Nat /\ o \in S
  BY <1>0
<1>2. PICK p \in S : \A q \in S : p <= q
  <2> HIDE DEF S
  <2> QED BY <1>1, LeastNatural
<1>3. p > 0 => t[p].k \notin kinds
  <2> SUFFICES ASSUME p > 0, t[p].k \in kinds PROVE FALSE
    OBVIOUS
  <2>1. p - 1 \in 0 .. o
    BY <1>0
  <2>2. \A j \in (p - 1) + 1 .. o : t[j].k \in kinds
    BY <1>0
  <2>3. p - 1 \in S
    BY <2>1, <2>2
  <2> QED BY <2>3, <1>2, <1>0
<1>4. \E q \in 0 .. o : Is(q)
  BY <1>2, <1>3 DEF Blanks
<1>5. Back(t, kinds, o) = CHOOSE q \in 0 .. o : Is(q)
  BY DEF Back
<1>6. Back(t, kinds, o) \in 0 .. o /\ Is(Back(t, kinds, o))
  <2> HIDE DEF Is
  <2> QED BY <1>4, <1>5
<1> QED BY <1>6 DEF Blanks

\* After an offset: what lies between is blank.
LEMMA AheadIs ==
  ASSUME NEW t, WellFormed(t), NEW kinds, NEW o \in 0 .. Len(t)
  PROVE  /\ Ahead(t, kinds, o) \in o .. Len(t)
         /\ \A j \in o + 1 .. Ahead(t, kinds, o) : t[j].k \in kinds
<1> DEFINE Is(p) == Blanks(t, kinds, o + 1 .. p) /\ (p < Len(t) => t[p + 1].k \notin kinds)
           S == {p \in o .. Len(t) : p < Len(t) => t[p + 1].k \notin kinds}
<1>0. Len(t) \in Nat /\ o \in Nat
  BY TextsAre
<1>1. S \subseteq Nat /\ Len(t) \in S
  BY <1>0
<1>2. PICK p \in S : \A q \in S : p <= q
  <2> HIDE DEF S
  <2> QED BY <1>1, LeastNatural
<1>3. \A j \in o + 1 .. p : t[j].k \in kinds
  <2> SUFFICES ASSUME NEW j \in o + 1 .. p, t[j].k \notin kinds PROVE FALSE
    OBVIOUS
  <2>1. j - 1 \in o .. Len(t) /\ (j - 1) + 1 = j /\ j - 1 < p
    BY <1>0
  <2>2. j - 1 \in S
    BY <2>1
  <2>3. p <= j - 1 /\ p \in Nat
    <3> HIDE DEF S
    <3> QED BY <2>2, <1>1, <1>2
  <2> QED BY <2>1, <2>3, <1>0
<1>4. \E q \in o .. Len(t) : Is(q)
  BY <1>2, <1>3 DEF Blanks
<1>5. Ahead(t, kinds, o) = CHOOSE q \in o .. Len(t) : Is(q)
  BY DEF Ahead
<1>6. Ahead(t, kinds, o) \in o .. Len(t) /\ Is(Ahead(t, kinds, o))
  <2> HIDE DEF Is
  <2> QED BY <1>4, <1>5
<1> QED BY <1>6 DEF Blanks

\* Blank lines that go with a deletion.
LEMMA AbsorbIs ==
  ASSUME NEW t, WellFormed(t), NEW o \in 0 .. Len(t)
  PROVE  /\ AbsorbBlankLines(t, o) \in o .. Len(t)
         /\ \A j \in o + 1 .. AbsorbBlankLines(t, o) : t[j].k \in {"sp", "nl"}
<1> DEFINE p == Ahead(t, {"sp", "nl"}, o)
           S == {q \in o .. p : q = o \/ t[q].k = "nl"}
<1>0. Len(t) \in Nat /\ o \in Nat
  BY TextsAre
<1>1. p \in o .. Len(t) /\ \A j \in o + 1 .. p : t[j].k \in {"sp", "nl"}
  BY AheadIs
<1> HIDE DEF p
<1>2. S \subseteq 0 .. Len(t) /\ o \in S
  BY <1>0, <1>1
<1>3. \E q \in S : \A r \in S : r <= q
  <2> HIDE DEF S
  <2> QED BY <1>0, <1>2, GreatestNatural
<1>4. AbsorbBlankLines(t, o) = CHOOSE q \in S : \A r \in S : r <= q
  BY DEF AbsorbBlankLines, p
<1>5. AbsorbBlankLines(t, o) \in S
  <2> HIDE DEF S
  <2> QED BY <1>3, <1>4
<1> QED BY <1>0, <1>1, <1>5

\* The line feed that goes with it, if one is there.
LEMMA ConsumeIs ==
  ASSUME NEW t, WellFormed(t), NEW o \in 0 .. Len(t)
  PROVE  \/ ConsumeNewline(t, o) = o
         \/ ConsumeNewline(t, o) = o + 1 /\ o + 1 \in 1 .. Len(t) /\ t[o + 1].k = "nl"
BY TextsAre DEF ConsumeNewline

--------------------------------------------------------------------------------
(* What a fix does to the text.                                            *)

\* The span from a to b holds the atom at i and blanks, and what follows it may
\* stand behind what is before it.
IsCut(t, i, a, b) ==
  /\ a \in 0 .. i - 1 /\ b \in i .. Len(t)
  /\ \A j \in a + 1 .. b : j # i => t[j].k \in {"sp", "nl"}
  /\ a = 0 \/ t[a].k = "nl" \/ b = Len(t) \/ (b = i /\ t[i].k = "dir")

\* What a deleted statement takes with it: blanks, and never the line feed alone
\* that keeps two other atoms apart.
LEMMA DeletionSpanIs ==
  ASSUME NEW t, WellFormed(t), NEW i \in Statements(t)
  PROVE  IsCut(t, i, DeletionSpan(t, i)[1], DeletionSpan(t, i)[2])
<1> DEFINE from == Back(t, {"sp"}, i - 1)
           near == Ahead(t, {"sp"}, i)
           next == ConsumeNewline(t, near)
           to == AbsorbBlankLines(t, next)
           prev == Back(t, {"sp", "nl"}, from)
           kept == ConsumeNewline(t, prev)
<1>0. Len(t) \in Nat /\ i \in 1 .. Len(t) /\ t[i].k = "stmt" /\ i - 1 \in 0 .. Len(t) /\ i \in 0 .. Len(t)
  BY TextsAre
<1>1. /\ from \in 0 .. i - 1 /\ \A j \in from + 1 .. i - 1 : t[j].k = "sp"
      /\ from > 0 => t[from].k # "sp"
  <2>1. /\ from \in 0 .. i - 1 /\ \A j \in from + 1 .. i - 1 : t[j].k \in {"sp"}
        /\ from > 0 => t[from].k \notin {"sp"}
    BY <1>0, BackIs
  <2> HIDE DEF from
  <2> QED BY <2>1
<1>2. near \in i .. Len(t) /\ \A j \in i + 1 .. near : t[j].k \in {"sp", "nl"}
  <2>1. near \in i .. Len(t) /\ \A j \in i + 1 .. near : t[j].k \in {"sp"}
    BY <1>0, AheadIs
  <2> HIDE DEF near
  <2> QED BY <2>1
<1>3. next \in i .. Len(t) /\ \A j \in i + 1 .. next : t[j].k \in {"sp", "nl"}
  <2>1. \/ next = near
        \/ next = near + 1 /\ near + 1 \in 1 .. Len(t) /\ t[near + 1].k = "nl"
    <3>1. near \in 0 .. Len(t)
      BY <1>0, <1>2
    <3> HIDE DEF near
    <3> QED BY <3>1, ConsumeIs
  <2> HIDE DEF next, near
  <2> QED BY <1>0, <1>2, <2>1
<1>4. to \in i .. Len(t) /\ \A j \in i + 1 .. to : t[j].k \in {"sp", "nl"}
  <2>1. to \in next .. Len(t) /\ \A j \in next + 1 .. to : t[j].k \in {"sp", "nl"}
    <3>1. next \in 0 .. Len(t)
      BY <1>0, <1>3
    <3> HIDE DEF next
    <3> QED BY <3>1, AbsorbIs
  <2> HIDE DEF next, to
  <2> QED BY <1>0, <1>3, <2>1
<1>5. /\ prev \in 0 .. from /\ \A j \in prev + 1 .. from : t[j].k \in {"sp", "nl"}
  <2>1. from \in 0 .. Len(t)
    BY <1>0, <1>1
  <2> HIDE DEF from
  <2> QED BY <2>1, BackIs
<1>6. \/ kept = prev
      \/ kept = prev + 1 /\ prev + 1 \in 1 .. Len(t) /\ t[prev + 1].k = "nl"
  <2>1. prev \in 0 .. Len(t)
    BY <1>0, <1>1, <1>5
  <2> HIDE DEF prev
  <2> QED BY <2>1, ConsumeIs
<1>7. DeletionSpan(t, i) = IF to < Len(t) THEN <<from, to>> ELSE <<IF prev > 0 THEN kept ELSE 0, to>>
  BY DEF DeletionSpan
<1> HIDE DEF from, near, next, to, prev, kept
<1>8. from > 0 => t[from].k = "nl"
  <2> SUFFICES ASSUME from > 0 PROVE t[from].k = "nl"
    OBVIOUS
  <2>1. from \in 1 .. Len(t) - 1 /\ from + 1 \in from + 1 .. i /\ from < i
    BY <1>0, <1>1
  <2>2. t[from].k \in {"nl", "sp", "stmt", "dir"} /\ t[from].k # "sp"
    BY <1>1, <2>1, TextsAre
  <2>3. LinesApart(t)
    BY DEF WellFormed
  <2>4. t[from].k # "stmt"
    <3>1. t[from].k = "stmt" => \E n \in from + 1 .. i - 1 : t[n].k = "nl"
      BY <1>0, <2>1, <2>3 DEF LinesApart
    <3> QED BY <1>1, <3>1
  <2>5. t[from].k # "dir"
    <3>1. t[from].k = "dir" => t[from + 1].k = "nl"
      BY <2>1, <2>3 DEF LinesApart
    <3>2. from + 1 = i \/ from + 1 \in from + 1 .. i - 1
      BY <1>0, <2>1
    <3> QED BY <1>0, <1>1, <3>1, <3>2
  <2> QED BY <2>2, <2>4, <2>5
<1>9. \A j \in prev + 1 .. i - 1 : t[j].k \in {"sp", "nl"}
  BY <1>0, <1>1, <1>5
<1>10. CASE to < Len(t)
  <2>1. DeletionSpan(t, i)[1] = from /\ DeletionSpan(t, i)[2] = to
    BY <1>7, <1>10
  <2>2. \A j \in from + 1 .. to : j # i => t[j].k \in {"sp", "nl"}
    BY <1>0, <1>1, <1>4
  <2>3. from = 0 \/ t[from].k = "nl"
    BY <1>1, <1>8, <1>0
  <2> QED BY <2>1, <2>2, <2>3, <1>1, <1>4, <1>0 DEF IsCut
<1>11. CASE ~ (to < Len(t))
  <2> DEFINE a == IF prev > 0 THEN kept ELSE 0
  <2>1. DeletionSpan(t, i)[1] = a /\ DeletionSpan(t, i)[2] = to /\ to = Len(t)
    BY <1>7, <1>11, <1>4, <1>0
  <2>2. a \in prev .. i - 1
    <3>1. prev + 1 = i => t[prev + 1].k # "nl"
      BY <1>0
    <3>2. prev \in 0 .. i - 1
      BY <1>0, <1>1, <1>5
    <3> QED BY <1>0, <3>1, <3>2, <1>6
  <2>3. \A j \in a + 1 .. to : j # i => t[j].k \in {"sp", "nl"}
    <3> HIDE DEF a
    <3>1. prev \in Nat
      BY <1>0, <1>1, <1>5
    <3> QED BY <3>1, <2>2, <1>0, <1>9, <1>4
  <2>4. a \in 0 .. i - 1
    <3> HIDE DEF a
    <3> QED BY <2>2, <1>0, <1>1, <1>5
  <2> HIDE DEF a
  <2> QED BY <2>1, <2>3, <2>4, <1>4, <1>0 DEF IsCut
<1> QED BY <1>10, <1>11

\* What a deleted directive takes with it.
LEMMA CommentDeletionSpanIs ==
  ASSUME NEW t, WellFormed(t), NEW i \in Directives(t)
  PROVE  IsCut(t, i, CommentDeletionSpan(t, i)[1], CommentDeletionSpan(t, i)[2])
<1> DEFINE from == Back(t, {"sp"}, i - 1)
           next == ConsumeNewline(t, i)
           ownLine == from = 0 \/ t[from].k = "nl"
<1>0. Len(t) \in Nat /\ i \in 1 .. Len(t) /\ t[i].k = "dir" /\ i - 1 \in 0 .. Len(t) /\ i \in 0 .. Len(t)
  BY TextsAre
<1>1. from \in 0 .. i - 1 /\ \A j \in from + 1 .. i - 1 : t[j].k \in {"sp"}
  BY <1>0, BackIs
<1>2. next = i \/ (next = i + 1 /\ i + 1 \in 1 .. Len(t) /\ t[i + 1].k = "nl")
  BY <1>0, ConsumeIs
<1>3. CommentDeletionSpan(t, i) = <<from, IF ownLine THEN next ELSE i>>
  BY DEF CommentDeletionSpan
<1> HIDE DEF from, next
<1>4. CASE ownLine
  <2>1. CommentDeletionSpan(t, i)[1] = from /\ CommentDeletionSpan(t, i)[2] = next
    BY <1>3, <1>4
  <2>2. next \in i .. Len(t) /\ \A j \in from + 1 .. next : j # i => t[j].k \in {"sp", "nl"}
    BY <1>0, <1>1, <1>2
  <2> QED BY <2>1, <2>2, <1>0, <1>1, <1>4 DEF IsCut
<1>5. CASE ~ ownLine
  <2>1. CommentDeletionSpan(t, i)[1] = from /\ CommentDeletionSpan(t, i)[2] = i
    BY <1>3, <1>5
  <2>2. \A j \in from + 1 .. i : j # i => t[j].k \in {"sp", "nl"}
    BY <1>0, <1>1
  <2> HIDE DEF ownLine
  <2> QED BY <2>1, <2>2, <1>0, <1>1 DEF IsCut
<1> QED BY <1>4, <1>5

\* The fix f cuts the atom at i out, or puts another statement in its place.
Removes(t, f, i) ==
  /\ t[i].k \in {"stmt", "dir"} /\ f.content = <<>> /\ IsCut(t, i, f.from, f.to)

Revises(t, f, i) ==
  /\ t[i].k = "stmt" /\ f.rule \in DOMAIN Rewrites
  /\ f.from = i - 1 /\ f.to = i /\ f.content = <<Rewritten(t[i], f.rule)>>

\* f is the fix of a finding at i.
Repairs(t, enabled, f, i) ==
  /\ i \in 1 .. Len(t)
  /\ Finding(f.rule, i) \in RunRules(t, enabled) /\ f \in FixOf(t, Finding(f.rule, i))
  /\ f.rule \in Rules \union {"outdated"}
  /\ \/ Removes(t, f, i) /\ f.rule \in Deletes \union {"outdated"}
     \/ Revises(t, f, i)

\* What is found, and where.
LEMMA FindingsAre ==
  ASSUME NEW t, WellFormed(t), NEW enabled, NEW g \in RunRules(t, enabled)
  PROVE  /\ g = Finding(g.rule, g.at) /\ g.at \in 1 .. Len(t)
         /\ \/ g.rule \in Rules /\ g.at \in Statements(t)
            \/ g.rule \in Meta /\ g.at \in Directives(t)
         /\ g.rule = "outdated" =>
              /\ "outdated" \in enabled
              /\ g.at \in Outdated(t, enabled, Used(t, RawFindings(t, enabled)))
<1> DEFINE raw == RawFindings(t, enabled)
           late == Outdated(t, enabled, Used(t, raw))
<1>1. \A r, i : Finding(r, i).rule = r /\ Finding(r, i).at = i
  BY DEF Finding
<1>2. Rules \intersect Meta = {}
  BY FixAssumption
<1>3. Misplaced(t) \subseteq Directives(t) /\ Blanket(t) \subseteq Directives(t) /\ late \subseteq Directives(t)
  BY DEF Misplaced, Blanket, Outdated
<1>4. g \in raw \/ ("outdated" \in enabled /\ g \in {Finding("outdated", i) : i \in late})
  BY DEF RunRules, Kept
<1>5. CASE g \in raw
  <2>1. /\ g \in [rule : enabled, at : 1 .. Len(t)]
        /\ \/ g.at \in Statements(t) /\ g.rule \in t[g.at].issues
           \/ g.rule = "misplaced" /\ g.at \in Directives(t)
           \/ g.rule = "blanket" /\ g.at \in Directives(t)
    BY <1>3, <1>5, TextsAre DEF RawFindings
  <2>2. g = Finding(g.rule, g.at) /\ g.at \in 1 .. Len(t)
    BY <2>1, TextsAre DEF Finding
  <2>3. g.at \in Statements(t) => t[g.at].issues \subseteq Rules
    BY TextsAre, AtomsAre
  <2>4. "outdated" \in Meta /\ "misplaced" \in Meta /\ "blanket" \in Meta
    BY DEF Meta
  <2> QED BY <1>2, <2>1, <2>2, <2>3, <2>4
<1>6. CASE "outdated" \in enabled /\ g \in {Finding("outdated", i) : i \in late}
  <2>1. PICK i \in late : g = Finding("outdated", i)
    BY <1>6
  <2>2. g.rule = "outdated" /\ g.at = i /\ i \in Directives(t)
    BY <2>1, <1>1, <1>3
  <2> HIDE DEF late
  <2>3. late = Outdated(t, enabled, Used(t, RawFindings(t, enabled)))
    BY DEF late
  <2> QED BY <2>1, <2>2, <2>3, <1>6, TextsAre DEF Meta
<1> QED BY <1>4, <1>5, <1>6

\* A finding has at most one fix.
LEMMA OneFix ==
  ASSUME NEW t, NEW g, NEW f \in FixOf(t, g), NEW h \in FixOf(t, g)
  PROVE  f = h
<1>1. CASE g.rule = "outdated"
  BY <1>1 DEF FixOf
<1>2. CASE g.rule # "outdated" /\ g.rule \in Deletes
  BY <1>2 DEF FixOf
<1>3. CASE g.rule # "outdated" /\ g.rule \notin Deletes /\ g.rule \in DOMAIN Rewrites
  BY <1>3 DEF FixOf
<1> QED BY <1>1, <1>2, <1>3 DEF FixOf

\* Every fix is one of these.
LEMMA FixesAre ==
  ASSUME NEW t, WellFormed(t), NEW enabled, NEW f \in Fixes(t, enabled)
  PROVE  \E i : Repairs(t, enabled, f, i)
<1>1. PICK g \in RunRules(t, enabled) : f \in FixOf(t, g)
  BY DEF Fixes
<1> DEFINE i == g.at
<1>2. /\ g = Finding(g.rule, i) /\ i \in 1 .. Len(t)
      /\ \/ g.rule \in Rules /\ i \in Statements(t)
         \/ g.rule \in Meta /\ i \in Directives(t)
      /\ g.rule = "outdated" => i \in Outdated(t, enabled, Used(t, RawFindings(t, enabled)))
  BY FindingsAre
<1>3. Rules \intersect Meta = {} /\ Deletes \subseteq Rules /\ DOMAIN Rewrites \subseteq Rules
  BY FixAssumption
<1>4. "outdated" \in Meta
  BY DEF Meta
<1>5. \A span, c : /\ Fix(span, c, g).from = span[1] /\ Fix(span, c, g).to = span[2]
                   /\ Fix(span, c, g).content = c /\ Fix(span, c, g).rule = g.rule
  BY DEF Fix
<1>6. CASE g.rule = "outdated"
  <2>1. i \in Directives(t) /\ t[i].k = "dir"
    BY <1>2, <1>3, <1>4, <1>6, TextsAre
  <2>2. f = Fix(CommentDeletionSpan(t, i), <<>>, g)
    <3>1. FixOf(t, g) = {Fix(CommentDeletionSpan(t, i), <<>>, g)}
      BY <1>6 DEF FixOf
    <3> QED BY <1>1, <3>1
  <2>3. IsCut(t, i, f.from, f.to) /\ f.content = <<>> /\ f.rule = "outdated"
    BY <2>1, <2>2, <1>5, <1>6, CommentDeletionSpanIs
  <2>4. Removes(t, f, i)
    BY <2>1, <2>3 DEF Removes
  <2> QED BY <1>1, <1>2, <1>6, <2>3, <2>4 DEF Repairs
<1>7. CASE g.rule # "outdated" /\ g.rule \in Deletes
  <2>1. i \in Statements(t) /\ t[i].k = "stmt"
    BY <1>2, <1>3, <1>7, TextsAre
  <2>2. f = Fix(DeletionSpan(t, i), <<>>, g)
    <3>1. FixOf(t, g) = {Fix(DeletionSpan(t, i), <<>>, g)}
      BY <1>7 DEF FixOf
    <3> QED BY <1>1, <3>1
  <2>3. IsCut(t, i, f.from, f.to) /\ f.content = <<>> /\ f.rule = g.rule
    BY <2>1, <2>2, <1>5, DeletionSpanIs
  <2>4. Removes(t, f, i)
    BY <2>1, <2>3 DEF Removes
  <2> QED BY <1>1, <1>2, <1>3, <1>7, <2>3, <2>4 DEF Repairs
<1>8. CASE g.rule # "outdated" /\ g.rule \notin Deletes /\ g.rule \in DOMAIN Rewrites
  <2>1. i \in Statements(t) /\ t[i].k = "stmt"
    BY <1>2, <1>3, <1>8, TextsAre
  <2>2. f = Fix(<<i - 1, i>>, <<Rewritten(t[i], g.rule)>>, g)
    BY <1>1, <1>8 DEF FixOf
  <2>3. f.from = i - 1 /\ f.to = i /\ f.content = <<Rewritten(t[i], g.rule)>> /\ f.rule = g.rule
    BY <2>2, <1>5
  <2>4. Revises(t, f, i)
    BY <2>1, <2>3, <1>8 DEF Revises
  <2> QED BY <1>1, <1>2, <1>3, <1>8, <2>3, <2>4 DEF Repairs
<1>9. g.rule = "outdated" \/ g.rule \in Deletes \/ g.rule \in DOMAIN Rewrites
  BY <1>1 DEF FixOf
<1> QED BY <1>6, <1>7, <1>8, <1>9

--------------------------------------------------------------------------------
(* Folds.  A fold over a sequence is a recursive function on the sets of   *)
(* its positions; what follows turns it into a trace, one value after      *)
(* each element.                                                           *)

\* The last position is the Max of the sets that hold it.
LEMMA GreatestIs ==
  ASSUME NEW n \in Nat, NEW s, s \subseteq 1 .. n, n \in s
  PROVE  Max(s) = n
<1>1. \A y \in s : n >= y
  OBVIOUS
<1>2. Max(s) \in s /\ \A y \in s : Max(s) >= y
  <2> DEFINE Is(x) == \A y \in s : x >= y
  <2>1. \E x \in s : Is(x)
    BY <1>1
  <2>2. Max(s) = CHOOSE x \in s : Is(x)
    BY DEF Max
  <2> HIDE DEF Is
  <2>3. Max(s) \in s /\ Is(Max(s))
    BY <2>1, <2>2
  <2> QED BY <2>3 DEF Is
<1>3. Max(s) \in 1 .. n /\ Max(s) >= n
  BY <1>2
<1> QED BY <1>3

\* Its first positions, one more at a time.
LEMMA FirstPositions ==
  ASSUME NEW n \in Nat, NEW k \in 1 .. n
  PROVE  /\ 1 .. k \in SUBSET (1 .. n) /\ 1 .. k # {}
         /\ Max(1 .. k) = k /\ (1 .. k) \ {k} = 1 .. k - 1
<1>1. Max(1 .. k) = k
  BY GreatestIs
<1> QED BY <1>1

\* The sweep, fix by fix.
LEMMA SweepTrace ==
  ASSUME NEW E, NEW seq \in Seq(E)
  PROVE  \E tr : /\ tr[0] = <<>>
                 /\ \A k \in 1 .. Len(seq) : tr[k] = Sweep(tr[k - 1], seq[k])
                 /\ tr[Len(seq)] = FoldLeft(Sweep, <<>>, seq)
<1> DEFINE Solves(n, it) ==
             it = [s \in SUBSET (1 .. n) |->
                     IF s = {} THEN <<>> ELSE Sweep(it[s \ {Max(s)}], seq[Max(s)])]
           G == {n \in Nat : \E it : Solves(n, it)}
<1>0. Len(seq) \in Nat /\ DOMAIN seq = 1 .. Len(seq)
  OBVIOUS
<1>1. 0 \in G
  <2>1. Solves(0, [s \in SUBSET (1 .. 0) |-> <<>>])
    <3>1. \A s \in SUBSET (1 .. 0) : s = {}
      OBVIOUS
    <3> QED BY <3>1
  <2> QED BY <2>1
<1>2. ASSUME NEW n \in 1 .. Len(seq), n - 1 \in G PROVE n \in G
  <2>1. PICK it0 : Solves(n - 1, it0)
    BY <1>2
  <2> DEFINE it == [s \in SUBSET (1 .. n) |->
                      IF n \in s THEN Sweep(it0[s \ {n}], seq[n]) ELSE it0[s]]
  <2>2. \A s \in SUBSET (1 .. n) : n \notin s => s \in SUBSET (1 .. n - 1)
    OBVIOUS
  <2>3. \A s \in SUBSET (1 .. n) : s \ {n} \in SUBSET (1 .. n)
    OBVIOUS
  <2>4. n \in Nat
    OBVIOUS
  <2>5. it[{}] = <<>>
    <3>1. {} \in SUBSET (1 .. n) /\ {} \in SUBSET (1 .. n - 1) /\ n \notin {}
      OBVIOUS
    <3>2. it[{}] = it0[{}]
      BY <3>1
    <3> HIDE DEF it
    <3> QED BY <3>1, <3>2, <2>1
  <2>6. ASSUME NEW s \in SUBSET (1 .. n), s # {}
        PROVE  it[s] = Sweep(it[s \ {Max(s)}], seq[Max(s)])
    <3>1. CASE n \in s
      <4>1. Max(s) = n
        BY <3>1, <2>4, GreatestIs
      <4>2. it[s \ {n}] = it0[s \ {n}] /\ it[s] = Sweep(it0[s \ {n}], seq[n])
        BY <3>1, <2>3
      <4> HIDE DEF it
      <4> QED BY <4>1, <4>2
    <3>2. CASE n \notin s
      <4>1. it[s] = it0[s] /\ it[s \ {Max(s)}] = it0[s \ {Max(s)}]
        BY <3>2
      <4>2. it0[s] = Sweep(it0[s \ {Max(s)}], seq[Max(s)])
        BY <3>2, <2>1, <2>2, <2>6
      <4> HIDE DEF it
      <4> QED BY <4>1, <4>2
    <3> QED BY <3>1, <3>2
  <2>7. \A s \in SUBSET (1 .. n) :
          it[s] = IF s = {} THEN <<>> ELSE Sweep(it[s \ {Max(s)}], seq[Max(s)])
    <3> HIDE DEF it
    <3> QED BY <2>5, <2>6
  <2>8. Solves(n, it)
    <3>1. it = [s \in SUBSET (1 .. n) |-> it[s]]
      OBVIOUS
    <3> HIDE DEF it
    <3> QED BY <3>1, <2>7
  <2> HIDE DEF it, Solves
  <2> QED BY <2>8, <2>4
<1>3. Len(seq) \in G
  <2> HIDE DEF G
  <2>1. Len(seq) \in 0 .. Len(seq)
    BY <1>0
  <2> QED BY <1>0, <1>1, <1>2, <2>1, CountUp
<1>4. \E it : it = [s \in SUBSET DOMAIN seq |->
                      IF s = {} THEN <<>> ELSE Sweep(it[s \ {Max(s)}], seq[Max(s)])]
  BY <1>0, <1>3
<1>5. PICK it : /\ it = [s \in SUBSET DOMAIN seq |->
                          IF s = {} THEN <<>> ELSE Sweep(it[s \ {Max(s)}], seq[Max(s)])]
                /\ FoldLeft(Sweep, <<>>, seq) = it[DOMAIN seq]
  BY <1>4 DEF FoldLeft, MapThenFoldSet
<1> DEFINE tr == [k \in 0 .. Len(seq) |-> it[1 .. k]]
<1>6. tr[0] = <<>>
  <2>1. {} \in SUBSET DOMAIN seq /\ 1 .. 0 = {}
    OBVIOUS
  <2>2. it[{}] = <<>>
    BY <1>5, <2>1
  <2> QED BY <2>1, <2>2, <1>0
<1>7. ASSUME NEW k \in 1 .. Len(seq) PROVE tr[k] = Sweep(tr[k - 1], seq[k])
  <2>1. /\ 1 .. k \in SUBSET DOMAIN seq /\ 1 .. k # {}
        /\ Max(1 .. k) = k /\ (1 .. k) \ {k} = 1 .. k - 1
    BY <1>0, FirstPositions
  <2>2. it[1 .. k] = Sweep(it[1 .. k - 1], seq[k])
    BY <2>1, <1>5
  <2>3. tr[k] = it[1 .. k] /\ tr[k - 1] = it[1 .. k - 1]
    BY <1>0
  <2> HIDE DEF tr
  <2> QED BY <2>2, <2>3
<1>8. tr[Len(seq)] = FoldLeft(Sweep, <<>>, seq)
  <2>1. Len(seq) \in 0 .. Len(seq) /\ 1 .. Len(seq) = DOMAIN seq
    BY <1>0
  <2>2. tr[Len(seq)] = it[DOMAIN seq]
    BY <2>1
  <2> HIDE DEF tr
  <2> QED BY <2>2, <1>5
<1> HIDE DEF tr
<1> QED BY <1>6, <1>7, <1>8

\* The splices, fix by fix.
LEMMA SpliceTrace ==
  ASSUME NEW E, NEW seq \in Seq(E), NEW base
  PROVE  \E tr : /\ tr[0] = base
                 /\ \A k \in 1 .. Len(seq) : tr[k] = SpliceFix(tr[k - 1], seq[k])
                 /\ tr[Len(seq)] = FoldLeft(SpliceFix, base, seq)
<1> DEFINE Solves(n, it) ==
             it = [s \in SUBSET (1 .. n) |->
                     IF s = {} THEN base ELSE SpliceFix(it[s \ {Max(s)}], seq[Max(s)])]
           G == {n \in Nat : \E it : Solves(n, it)}
<1>0. Len(seq) \in Nat /\ DOMAIN seq = 1 .. Len(seq)
  OBVIOUS
<1>1. 0 \in G
  <2>1. Solves(0, [s \in SUBSET (1 .. 0) |-> base])
    <3>1. \A s \in SUBSET (1 .. 0) : s = {}
      OBVIOUS
    <3> QED BY <3>1
  <2> QED BY <2>1
<1>2. ASSUME NEW n \in 1 .. Len(seq), n - 1 \in G PROVE n \in G
  <2>1. PICK it0 : Solves(n - 1, it0)
    BY <1>2
  <2> DEFINE it == [s \in SUBSET (1 .. n) |->
                      IF n \in s THEN SpliceFix(it0[s \ {n}], seq[n]) ELSE it0[s]]
  <2>2. \A s \in SUBSET (1 .. n) : n \notin s => s \in SUBSET (1 .. n - 1)
    OBVIOUS
  <2>3. \A s \in SUBSET (1 .. n) : s \ {n} \in SUBSET (1 .. n)
    OBVIOUS
  <2>4. n \in Nat
    OBVIOUS
  <2>5. it[{}] = base
    <3>1. {} \in SUBSET (1 .. n) /\ {} \in SUBSET (1 .. n - 1) /\ n \notin {}
      OBVIOUS
    <3>2. it[{}] = it0[{}]
      BY <3>1
    <3> HIDE DEF it
    <3> QED BY <3>1, <3>2, <2>1
  <2>6. ASSUME NEW s \in SUBSET (1 .. n), s # {}
        PROVE  it[s] = SpliceFix(it[s \ {Max(s)}], seq[Max(s)])
    <3>1. CASE n \in s
      <4>1. Max(s) = n
        BY <3>1, <2>4, GreatestIs
      <4>2. it[s \ {n}] = it0[s \ {n}] /\ it[s] = SpliceFix(it0[s \ {n}], seq[n])
        BY <3>1, <2>3
      <4> HIDE DEF it
      <4> QED BY <4>1, <4>2
    <3>2. CASE n \notin s
      <4>1. it[s] = it0[s] /\ it[s \ {Max(s)}] = it0[s \ {Max(s)}]
        BY <3>2
      <4>2. it0[s] = SpliceFix(it0[s \ {Max(s)}], seq[Max(s)])
        BY <3>2, <2>1, <2>2, <2>6
      <4> HIDE DEF it
      <4> QED BY <4>1, <4>2
    <3> QED BY <3>1, <3>2
  <2>7. \A s \in SUBSET (1 .. n) :
          it[s] = IF s = {} THEN base ELSE SpliceFix(it[s \ {Max(s)}], seq[Max(s)])
    <3> HIDE DEF it
    <3> QED BY <2>5, <2>6
  <2>8. Solves(n, it)
    <3>1. it = [s \in SUBSET (1 .. n) |-> it[s]]
      OBVIOUS
    <3> HIDE DEF it
    <3> QED BY <3>1, <2>7
  <2> HIDE DEF it, Solves
  <2> QED BY <2>8, <2>4
<1>3. Len(seq) \in G
  <2> HIDE DEF G
  <2>1. Len(seq) \in 0 .. Len(seq)
    BY <1>0
  <2> QED BY <1>0, <1>1, <1>2, <2>1, CountUp
<1>4. \E it : it = [s \in SUBSET DOMAIN seq |->
                      IF s = {} THEN base ELSE SpliceFix(it[s \ {Max(s)}], seq[Max(s)])]
  BY <1>0, <1>3
<1>5. PICK it : /\ it = [s \in SUBSET DOMAIN seq |->
                          IF s = {} THEN base ELSE SpliceFix(it[s \ {Max(s)}], seq[Max(s)])]
                /\ FoldLeft(SpliceFix, base, seq) = it[DOMAIN seq]
  BY <1>4 DEF FoldLeft, MapThenFoldSet
<1> DEFINE tr == [k \in 0 .. Len(seq) |-> it[1 .. k]]
<1>6. tr[0] = base
  <2>1. {} \in SUBSET DOMAIN seq /\ 1 .. 0 = {}
    OBVIOUS
  <2>2. it[{}] = base
    BY <1>5, <2>1
  <2> QED BY <2>1, <2>2, <1>0
<1>7. ASSUME NEW k \in 1 .. Len(seq) PROVE tr[k] = SpliceFix(tr[k - 1], seq[k])
  <2>1. /\ 1 .. k \in SUBSET DOMAIN seq /\ 1 .. k # {}
        /\ Max(1 .. k) = k /\ (1 .. k) \ {k} = 1 .. k - 1
    BY <1>0, FirstPositions
  <2>2. it[1 .. k] = SpliceFix(it[1 .. k - 1], seq[k])
    BY <2>1, <1>5
  <2>3. tr[k] = it[1 .. k] /\ tr[k - 1] = it[1 .. k - 1]
    BY <1>0
  <2> HIDE DEF tr
  <2> QED BY <2>2, <2>3
<1>8. tr[Len(seq)] = FoldLeft(SpliceFix, base, seq)
  <2>1. Len(seq) \in 0 .. Len(seq) /\ 1 .. Len(seq) = DOMAIN seq
    BY <1>0
  <2>2. tr[Len(seq)] = it[DOMAIN seq]
    BY <2>1
  <2> HIDE DEF tr
  <2> QED BY <2>2, <1>5
<1> HIDE DEF tr
<1> QED BY <1>6, <1>7, <1>8

--------------------------------------------------------------------------------
(* The sweep.                                                              *)

\* Rules have ranks of their own, so that the order of fixes is total.
LEMMA RankIs ==
  ASSUME NEW r \in Rules \union {"outdated"}, NEW q \in Rules \union {"outdated"}
  PROVE  /\ Rank(r) \in 0 .. Len(RuleOrder)
         /\ Rank(r) = Rank(q) => r = q
<1>1. Len(RuleOrder) \in Nat /\ DOMAIN RuleOrder = 1 .. Len(RuleOrder)
  BY FixAssumption
<1>2. ASSUME NEW x \in Rules PROVE Rank(x) \in 1 .. Len(RuleOrder) /\ RuleOrder[Rank(x)] = x
  <2>1. \E n \in DOMAIN RuleOrder : RuleOrder[n] = x
    BY DEF Rules, Range
  <2>2. Rank(x) = CHOOSE n \in DOMAIN RuleOrder : RuleOrder[n] = x
    BY DEF Rank
  <2>3. Rank(x) \in DOMAIN RuleOrder /\ RuleOrder[Rank(x)] = x
    BY <2>1, <2>2
  <2> QED BY <1>1, <2>3
<1>3. "outdated" \notin Rules
  BY FixAssumption DEF Meta
<1>4. Rank("outdated") = 0
  BY <1>3 DEF Rank
<1>5. ASSUME NEW x \in Rules \union {"outdated"}
      PROVE  Rank(x) \in 0 .. Len(RuleOrder) /\ (Rank(x) = 0 <=> x = "outdated")
  BY <1>1, <1>2, <1>3, <1>4
<1> QED BY <1>2, <1>5

\* Where a fix begins and ends, and where in between it is from.
LEMMA SpansAre ==
  ASSUME NEW t, WellFormed(t), NEW enabled, NEW f, NEW i, Repairs(t, enabled, f, i)
  PROVE  /\ i \in 1 .. Len(t) /\ f.from \in 0 .. i - 1 /\ f.to \in i .. Len(t)
         /\ t[i].k \in {"stmt", "dir"}
         /\ \A j \in f.from + 1 .. f.to : j # i => t[j].k \in {"sp", "nl"}
<1>1. i \in 1 .. Len(t) /\ Len(t) \in Nat
  BY TextsAre DEF Repairs
<1>2. CASE Removes(t, f, i)
  BY <1>1, <1>2 DEF Removes, IsCut
<1>3. CASE Revises(t, f, i)
  BY <1>1, <1>3 DEF Revises
<1> QED BY <1>2, <1>3 DEF Repairs

\* The span of a fix and its rule tell it from the others.
LEMMA KeyIsUnique ==
  ASSUME NEW t, WellFormed(t), NEW enabled,
         NEW f \in Fixes(t, enabled), NEW g \in Fixes(t, enabled),
         f.from = g.from, f.to = g.to, Rank(f.rule) = Rank(g.rule)
  PROVE  f = g
<1>1. PICK i : Repairs(t, enabled, f, i)
  BY FixesAre
<1>2. PICK j : Repairs(t, enabled, g, j)
  BY FixesAre
<1>3. i = j
  <2>1. /\ i \in 1 .. Len(t) /\ f.from \in 0 .. i - 1 /\ f.to \in i .. Len(t)
        /\ t[i].k \in {"stmt", "dir"}
        /\ \A k \in f.from + 1 .. f.to : k # i => t[k].k \in {"sp", "nl"}
    BY <1>1, SpansAre
  <2>2. /\ j \in 1 .. Len(t) /\ g.from \in 0 .. j - 1 /\ g.to \in j .. Len(t)
        /\ t[j].k \in {"stmt", "dir"}
    BY <1>2, SpansAre
  <2>3. j \in f.from + 1 .. f.to
    BY <2>1, <2>2
  <2> QED BY <2>1, <2>2, <2>3
<1>4. f.rule = g.rule
  BY <1>1, <1>2, RankIs DEF Repairs
<1> QED BY <1>1, <1>2, <1>3, <1>4, OneFix DEF Repairs

\* There are finitely many.
LEMMA FixesAreFinite ==
  ASSUME NEW t, WellFormed(t), NEW enabled
  PROVE  IsFiniteSet(Fixes(t, enabled))
<1> DEFINE T == (0 .. Len(t)) \X ((0 .. Len(t)) \X (0 .. Len(RuleOrder)))
           key == [f \in Fixes(t, enabled) |-> <<f.from, <<f.to, Rank(f.rule)>>>>]
<1>1. Len(t) \in Nat /\ Len(RuleOrder) \in Nat
  BY TextsAre, FixAssumption
<1>2. IsFiniteSet(T)
  <2>1. IsFiniteSet(0 .. Len(t)) /\ IsFiniteSet(0 .. Len(RuleOrder))
    BY <1>1, FS_Interval
  <2>2. IsFiniteSet((0 .. Len(t)) \X (0 .. Len(RuleOrder)))
    BY <2>1, FS_Product
  <2> QED BY <2>1, <2>2, FS_Product
<1>3. ASSUME NEW f \in Fixes(t, enabled)
      PROVE  f.from \in 0 .. Len(t) /\ f.to \in 0 .. Len(t) /\ Rank(f.rule) \in 0 .. Len(RuleOrder)
  <2>1. PICK i : Repairs(t, enabled, f, i)
    BY FixesAre
  <2>2. i \in 1 .. Len(t) /\ f.from \in 0 .. i - 1 /\ f.to \in i .. Len(t)
    BY <2>1, SpansAre
  <2>3. Rank(f.rule) \in 0 .. Len(RuleOrder)
    BY <2>1, RankIs DEF Repairs
  <2> QED BY <1>1, <2>2, <2>3
<1>4. key \in Injection(Fixes(t, enabled), T)
  <2>1. key \in [Fixes(t, enabled) -> T]
    BY <1>3
  <2>2. \A f, g \in Fixes(t, enabled) : key[f] = key[g] => f = g
    <3> SUFFICES ASSUME NEW f \in Fixes(t, enabled), NEW g \in Fixes(t, enabled), key[f] = key[g]
                 PROVE  f = g
      OBVIOUS
    <3>1. f.from = g.from /\ f.to = g.to /\ Rank(f.rule) = Rank(g.rule)
      OBVIOUS
    <3> QED BY <3>1, KeyIsUnique
  <2> HIDE DEF key, T
  <2> QED BY <2>1, <2>2 DEF Injection, IsInjective
<1> HIDE DEF key, T
<1> QED BY <1>2, <1>4, FS_Injection

\* The order of the fixes is strict and total.
LEMMA InOrderIs ==
  ASSUME NEW t, WellFormed(t), NEW enabled
  PROVE  /\ \A f \in Fixes(t, enabled) : ~ InOrder(f, f)
         /\ \A f, g, h \in Fixes(t, enabled) : InOrder(f, g) /\ InOrder(g, h) => InOrder(f, h)
         /\ \A f, g \in Fixes(t, enabled) : f # g => InOrder(f, g) \/ InOrder(g, f)
<1>1. ASSUME NEW f \in Fixes(t, enabled)
      PROVE  f.from \in Int /\ f.to \in Int /\ Rank(f.rule) \in Int
  <2>1. PICK i : Repairs(t, enabled, f, i)
    BY FixesAre
  <2>2. i \in 1 .. Len(t) /\ f.from \in 0 .. i - 1 /\ f.to \in i .. Len(t) /\ Len(t) \in Nat
    BY <2>1, SpansAre, TextsAre
  <2>3. Rank(f.rule) \in 0 .. Len(RuleOrder) /\ Len(RuleOrder) \in Nat
    BY <2>1, RankIs, FixAssumption DEF Repairs
  <2> QED BY <2>2, <2>3
<1>2. \A f \in Fixes(t, enabled) : ~ InOrder(f, f)
  BY <1>1 DEF InOrder
<1>3. \A f, g, h \in Fixes(t, enabled) : InOrder(f, g) /\ InOrder(g, h) => InOrder(f, h)
  BY <1>1 DEF InOrder
<1>4. \A f, g \in Fixes(t, enabled) : f # g => InOrder(f, g) \/ InOrder(g, f)
  <2> SUFFICES ASSUME NEW f \in Fixes(t, enabled), NEW g \in Fixes(t, enabled), f # g,
                      ~ InOrder(f, g), ~ InOrder(g, f)
               PROVE  FALSE
    OBVIOUS
  <2>1. f.from = g.from /\ f.to = g.to /\ Rank(f.rule) = Rank(g.rule)
    BY <1>1 DEF InOrder
  <2> QED BY <2>1, KeyIsUnique
<1> QED BY <1>2, <1>3, <1>4

\* So they can be sorted.
LEMMA SortedIs ==
  ASSUME NEW t, WellFormed(t), NEW enabled, NEW S, S \subseteq Fixes(t, enabled)
  PROVE  Sorted(S) \in Seq(S)
<1> DEFINE N == Cardinality(S)
           Ahd(f) == {g \in S : InOrder(g, f)}
           rk == [f \in S |-> Cardinality(Ahd(f))]
<1>1. IsFiniteSet(S)
  BY FixesAreFinite, FS_Subset
<1>2. N \in Nat
  BY <1>1, FS_CardinalityType
<1>3. /\ \A f \in S : ~ InOrder(f, f)
      /\ \A f, g, h \in S : InOrder(f, g) /\ InOrder(g, h) => InOrder(f, h)
      /\ \A f, g \in S : f # g => InOrder(f, g) \/ InOrder(g, f)
  <2>1. /\ \A f \in Fixes(t, enabled) : ~ InOrder(f, f)
        /\ \A f, g, h \in Fixes(t, enabled) : InOrder(f, g) /\ InOrder(g, h) => InOrder(f, h)
        /\ \A f, g \in Fixes(t, enabled) : f # g => InOrder(f, g) \/ InOrder(g, f)
    BY InOrderIs
  <2> QED BY <2>1
<1>4. ASSUME NEW f \in S PROVE Cardinality(Ahd(f)) \in 0 .. N - 1 /\ IsFiniteSet(Ahd(f))
  <2>1. Ahd(f) \in SUBSET (S \ {f})
    BY <1>3
  <2>2. IsFiniteSet(S \ {f}) /\ Cardinality(S \ {f}) = N - 1
    BY <1>1, FS_RemoveElement
  <2> HIDE DEF Ahd, N
  <2>3. IsFiniteSet(Ahd(f)) /\ Cardinality(Ahd(f)) <= N - 1
    BY <2>1, <2>2, FS_Subset
  <2>4. Cardinality(Ahd(f)) \in Nat
    BY <2>3, FS_CardinalityType
  <2> QED BY <2>3, <2>4, <1>2
<1>5. ASSUME NEW f \in S, NEW g \in S, InOrder(f, g)
      PROVE  Cardinality(Ahd(f)) < Cardinality(Ahd(g))
  <2>1. Ahd(f) \in SUBSET (Ahd(g) \ {f}) /\ f \in Ahd(g)
    BY <1>3, <1>5
  <2>2. IsFiniteSet(Ahd(g)) /\ Cardinality(Ahd(g)) \in Nat /\ Cardinality(Ahd(f)) \in Nat
    BY <1>4, <1>2
  <2> HIDE DEF Ahd
  <2>3. IsFiniteSet(Ahd(g) \ {f}) /\ Cardinality(Ahd(g) \ {f}) = Cardinality(Ahd(g)) - 1
    BY <2>1, <2>2, FS_RemoveElement
  <2>4. Cardinality(Ahd(f)) <= Cardinality(Ahd(g) \ {f})
    BY <2>1, <2>3, FS_Subset
  <2> QED BY <2>2, <2>3, <2>4
<1>6. rk \in Injection(S, 0 .. N - 1)
  <2>1. rk \in [S -> 0 .. N - 1]
    BY <1>4
  <2>2. \A f, g \in S : rk[f] = rk[g] => f = g
    <3> SUFFICES ASSUME NEW f \in S, NEW g \in S, f # g PROVE rk[f] # rk[g]
      OBVIOUS
    <3>1. rk[f] = Cardinality(Ahd(f)) /\ rk[g] = Cardinality(Ahd(g))
      OBVIOUS
    <3>2. rk[f] \in Int /\ rk[g] \in Int
      BY <2>1, <1>2
    <3>3. InOrder(f, g) \/ InOrder(g, f)
      BY <1>3
    <3>4. Cardinality(Ahd(f)) < Cardinality(Ahd(g)) \/ Cardinality(Ahd(g)) < Cardinality(Ahd(f))
      BY <1>5, <3>3
    <3> HIDE DEF rk, Ahd
    <3> QED BY <3>1, <3>2, <3>4
  <2> HIDE DEF rk
  <2> QED BY <2>1, <2>2 DEF Injection, IsInjective
<1>7. rk \in Surjection(S, 0 .. N - 1)
  <2>1. IsFiniteSet(0 .. N - 1) /\ Cardinality(0 .. N - 1) = N
    <3> HIDE DEF N
    <3>1. 0 \in Int /\ N - 1 \in Int
      BY <1>2
    <3>2. IsFiniteSet(0 .. N - 1) /\ Cardinality(0 .. N - 1) = IF 0 > N - 1 THEN 0 ELSE (N - 1) - 0 + 1
      BY <3>1, FS_Interval
    <3> QED BY <3>2, <1>2
  <2> HIDE DEF rk
  <2> QED BY <1>6, <2>1, FS_Injection
<1>8. ASSUME NEW n \in 1 .. N PROVE \E f \in S : Cardinality(Ahd(f)) = n - 1
  <2>1. n - 1 \in 0 .. N - 1
    BY <1>2
  <2>2. \E f \in S : rk[f] = n - 1
    <3> HIDE DEF rk
    <3> QED BY <1>7, <2>1 DEF Surjection
  <2> HIDE DEF Ahd
  <2> QED BY <2>2
<1>9. ASSUME NEW n \in 1 .. N PROVE (CHOOSE f \in S : Cardinality(Ahd(f)) = n - 1) \in S
  <2> HIDE DEF Ahd
  <2> QED BY <1>8
<1>10. Sorted(S) = [n \in 1 .. N |-> CHOOSE f \in S : Cardinality(Ahd(f)) = n - 1]
  BY DEF Sorted
<1>11. Sorted(S) \in [1 .. N -> S]
  <2> HIDE DEF Ahd, N
  <2> QED BY <1>9, <1>10
<1> HIDE DEF N
<1> QED BY <1>2, <1>11

\* The fixes of acc lie apart, from the left to the right.
Apart(acc) ==
  \A a, b \in DOMAIN acc : a < b => acc[a].to <= acc[b].from

\* The sweep keeps fixes that lie apart.
LEMMA AcceptedIs ==
  ASSUME NEW t, WellFormed(t), NEW enabled, NEW S, S \subseteq Fixes(t, enabled)
  PROVE  Accepted(S) \in Seq(S) /\ Apart(Accepted(S))
<1> DEFINE q == Sorted(S)
<1>1. q \in Seq(S) /\ Len(q) \in Nat
  <2>1. q \in Seq(S)
    BY SortedIs
  <2> HIDE DEF q
  <2> QED BY <2>1
<1> HIDE DEF q
<1>2. PICK tr : /\ tr[0] = <<>>
                /\ \A k \in 1 .. Len(q) : tr[k] = Sweep(tr[k - 1], q[k])
                /\ tr[Len(q)] = FoldLeft(Sweep, <<>>, q)
  BY <1>1, SweepTrace
<1>3. \A f \in S : f.from \in Int /\ f.to \in Int /\ f.from < f.to
  <2> TAKE f \in S
  <2>1. PICK i : Repairs(t, enabled, f, i)
    BY FixesAre
  <2>2. i \in 1 .. Len(t) /\ f.from \in 0 .. i - 1 /\ f.to \in i .. Len(t) /\ Len(t) \in Nat
    BY <2>1, SpansAre, TextsAre
  <2> QED BY <2>2
<1> DEFINE G == {k \in 0 .. Len(q) : tr[k] \in Seq(S) /\ Apart(tr[k])}
<1>4. 0 \in G
  <2>1. <<>> \in Seq(S) /\ Apart(<<>>)
    BY DEF Apart
  <2>2. tr[0] \in Seq(S) /\ Apart(tr[0]) /\ 0 \in 0 .. Len(q)
    BY <1>1, <1>2, <2>1
  <2> QED BY <2>2
<1>5. ASSUME NEW k \in 1 .. Len(q), k - 1 \in G PROVE k \in G
  <2> DEFINE acc == tr[k - 1]
             f == q[k]
  <2>1. acc \in Seq(S) /\ Apart(acc) /\ f \in S /\ tr[k] = Sweep(acc, f) /\ k \in 0 .. Len(q)
    BY <1>1, <1>2, <1>5
  <2> HIDE DEF acc, f, G
  <2>2. Len(acc) \in Nat /\ DOMAIN acc = 1 .. Len(acc) /\ \A a \in 1 .. Len(acc) : acc[a] \in S
    BY <2>1
  <2>3. CASE tr[k] = acc
    BY <2>1, <2>3 DEF G
  <2>4. CASE tr[k] = Append(acc, f) /\ (acc = <<>> \/ ~ (f.from < acc[Len(acc)].to))
    <3>1. \A a \in 1 .. Len(acc) : acc[a].to <= f.from
      <4> SUFFICES ASSUME NEW a \in 1 .. Len(acc) PROVE acc[a].to <= f.from
        OBVIOUS
      <4>1. Len(acc) # 0 /\ acc # <<>> /\ Len(acc) \in 1 .. Len(acc)
        BY <2>1, <2>2
      <4>2. acc[Len(acc)].to <= f.from /\ acc[Len(acc)].from < acc[Len(acc)].to
        BY <1>3, <2>1, <2>2, <2>4, <4>1
      <4>3. a # Len(acc) => acc[a].to <= acc[Len(acc)].from
        <5>1. \A x, y \in 1 .. Len(acc) : x < y => acc[x].to <= acc[y].from
          BY <2>1, <2>2 DEF Apart
        <5>2. Len(acc) \in Nat
          BY <2>2
        <5>3. a # Len(acc) => a < Len(acc)
          BY <5>2
        <5> QED BY <4>1, <5>1, <5>3
      <4>4. /\ acc[a].to \in Int /\ acc[Len(acc)].from \in Int
            /\ acc[Len(acc)].to \in Int /\ f.from \in Int
        BY <1>3, <2>1, <2>2, <4>1
      <4> QED BY <4>2, <4>3, <4>4
    <3>2. /\ tr[k] \in Seq(S) /\ Len(tr[k]) = Len(acc) + 1 /\ DOMAIN tr[k] = 1 .. Len(acc) + 1
          /\ \A a \in 1 .. Len(acc) : tr[k][a] = acc[a]
          /\ tr[k][Len(acc) + 1] = f
      BY <2>1, <2>2, <2>4
    <3>3. Apart(tr[k])
      <4> SUFFICES ASSUME NEW a \in 1 .. Len(acc) + 1, NEW b \in 1 .. Len(acc) + 1, a < b
                   PROVE  tr[k][a].to <= tr[k][b].from
        BY <3>2 DEF Apart
      <4>1. CASE b = Len(acc) + 1
        BY <4>1, <2>2, <3>1, <3>2
      <4>2. CASE b # Len(acc) + 1
        <5>1. a \in 1 .. Len(acc) /\ b \in 1 .. Len(acc)
          BY <4>2, <2>2
        <5> QED BY <5>1, <2>1, <2>2, <3>2 DEF Apart
      <4> QED BY <4>1, <4>2
    <3> QED BY <2>1, <3>2, <3>3 DEF G
  <2>5. tr[k] = acc \/ (tr[k] = Append(acc, f) /\ (acc = <<>> \/ ~ (f.from < acc[Len(acc)].to)))
    BY <2>1 DEF Sweep, Last
  <2> QED BY <2>3, <2>4, <2>5
<1>6. Len(q) \in G
  <2> HIDE DEF G
  <2>1. Len(q) \in 0 .. Len(q)
    BY <1>1
  <2> QED BY <1>1, <1>4, <1>5, <2>1, CountUp
<1>7. Accepted(S) = tr[Len(q)]
  BY <1>2 DEF Accepted, q
<1> QED BY <1>6, <1>7

--------------------------------------------------------------------------------
(* The splices.                                                            *)

\* Two sequences, one after the other.
LEMMA Joined ==
  ASSUME NEW A, NEW u \in Seq(A), NEW v \in Seq(A)
  PROVE  /\ u \o v \in Seq(A) /\ Len(u \o v) = Len(u) + Len(v)
         /\ \A p \in 1 .. Len(u) : (u \o v)[p] = u[p]
         /\ \A p \in 1 .. Len(v) : (u \o v)[Len(u) + p] = v[p]
<1>1. Len(u) \in Nat /\ Len(v) \in Nat
  OBVIOUS
<1>2. /\ u \o v \in Seq(A) /\ Len(u \o v) = Len(u) + Len(v)
      /\ \A p \in 1 .. Len(u) + Len(v) :
           (u \o v)[p] = IF p <= Len(u) THEN u[p] ELSE v[p - Len(u)]
  BY ConcatProperties
<1>3. \A m, n \in Nat : \A p \in 1 .. m : p \in 1 .. m + n /\ p <= m
  OBVIOUS
<1>4. \A m, n \in Nat : \A p \in 1 .. n :
        m + p \in 1 .. m + n /\ ~ (m + p <= m) /\ (m + p) - m = p
  OBVIOUS
<1>5. \A p \in 1 .. Len(u) : (u \o v)[p] = u[p]
  BY <1>1, <1>2, <1>3, Zenon
<1>6. \A p \in 1 .. Len(v) : (u \o v)[Len(u) + p] = v[p]
  BY <1>1, <1>2, <1>4, Zenon
<1> QED BY <1>2, <1>5, <1>6

\* A part of a sequence cut out.
LEMMA CutOut ==
  ASSUME NEW A, NEW s \in Seq(A), NEW f, f.content = <<>>, f.from \in 0 .. Len(s), f.to \in f.from .. Len(s)
  PROVE  /\ SpliceFix(s, f) \in Seq(A) /\ Len(SpliceFix(s, f)) = Len(s) - (f.to - f.from)
         /\ \A p \in 1 .. f.from : SpliceFix(s, f)[p] = s[p]
         /\ \A p \in f.from + 1 .. Len(s) - (f.to - f.from) :
              SpliceFix(s, f)[p] = s[p + (f.to - f.from)]
<1>a. PICK n, a, b, r : n = Len(s) /\ a = f.from /\ b = f.to /\ r = SpliceFix(s, f)
  OBVIOUS
<1> n \in Nat /\ a \in 0 .. n /\ b \in a .. n /\ n = Len(s)
  BY <1>a
<1>0. r = SubSeq(s, 1, a) \o <<>> \o SubSeq(s, b + 1, Len(s))
  BY <1>a DEF SpliceFix
<1> DEFINE u == SubSeq(s, 1, a)
           v == SubSeq(s, b + 1, Len(s))
<1>1. u \in Seq(A) /\ Len(u) = a /\ \A p \in 1 .. a : u[p] = s[p]
  OBVIOUS
<1>2. v \in Seq(A) /\ Len(v) = n - b /\ \A p \in 1 .. n - b : v[p] = s[b + p]
  OBVIOUS
<1> HIDE DEF u, v
<1>3. r = u \o v
  <2>1. u \o <<>> = u
    BY <1>1, ConcatEmptySeq
  <2> QED BY <1>0, <2>1 DEF u, v
<1>4. /\ r \in Seq(A) /\ Len(r) = a + (n - b)
      /\ \A p \in 1 .. a : r[p] = u[p]
      /\ \A p \in 1 .. n - b : r[a + p] = v[p]
  <2>1. u \in Seq(A) /\ v \in Seq(A)
    BY <1>1, <1>2
  <2>2. /\ r \in Seq(A) /\ Len(r) = Len(u) + Len(v)
        /\ \A p \in 1 .. Len(u) : r[p] = u[p]
        /\ \A p \in 1 .. Len(v) : r[Len(u) + p] = v[p]
    <3>1. /\ (u \o v) \in Seq(A) /\ Len((u \o v)) = Len(u) + Len(v)
          /\ \A p \in 1 .. Len(u) : (u \o v)[p] = u[p]
          /\ \A p \in 1 .. Len(v) : (u \o v)[Len(u) + p] = v[p]
      BY <2>1, Joined
    <3>2. r = u \o v
      BY <1>3
    <3> QED BY <3>1, <3>2, Zenon
  <2> QED BY <1>1, <1>2, <2>2, Zenon
<1>5. \A p \in 1 .. n - b : r[a + p] = s[b + p]
  BY <1>2, <1>4
<1>6. ASSUME NEW p \in a + 1 .. n - (b - a) PROVE r[p] = s[p + (b - a)]
  <2>1. p - a \in 1 .. n - b /\ a + (p - a) = p /\ b + (p - a) = p + (b - a)
    OBVIOUS
  <2>2. r[a + (p - a)] = s[b + (p - a)]
    BY <1>5, <2>1
  <2> QED BY <2>1, <2>2
<1>7. a + (n - b) = n - (b - a)
  OBVIOUS
<1>8. /\ r \in Seq(A) /\ Len(r) = n - (b - a)
      /\ \A p \in 1 .. a : r[p] = s[p]
      /\ \A p \in a + 1 .. n - (b - a) : r[p] = s[p + (b - a)]
  BY <1>1, <1>4, <1>6, <1>7
<1> QED BY <1>8, <1>a, Zenon

\* One element put in the place of another.
LEMMA PutIn ==
  ASSUME NEW A, NEW s \in Seq(A), NEW i \in 1 .. Len(s), NEW x \in A,
         NEW f, f.content = <<x>>, f.from = i - 1, f.to = i
  PROVE  /\ SpliceFix(s, f) \in Seq(A) /\ Len(SpliceFix(s, f)) = Len(s)
         /\ \A p \in 1 .. Len(s) : SpliceFix(s, f)[p] = IF p = i THEN x ELSE s[p]
<1> SUFFICES ASSUME NEW n \in Nat, n = Len(s), NEW r, r = SpliceFix(s, f)
             PROVE  /\ r \in Seq(A) /\ Len(r) = n
                    /\ \A p \in 1 .. n : r[p] = IF p = i THEN x ELSE s[p]
  OBVIOUS
<1>0. r = SubSeq(s, 1, i - 1) \o <<x>> \o SubSeq(s, i + 1, Len(s))
  BY DEF SpliceFix
<1> DEFINE u == SubSeq(s, 1, i - 1)
           v == SubSeq(s, i + 1, Len(s))
           w == u \o <<x>>
<1>1. u \in Seq(A) /\ Len(u) = i - 1 /\ \A p \in 1 .. i - 1 : u[p] = s[p]
  OBVIOUS
<1>2. v \in Seq(A) /\ Len(v) = n - i /\ \A p \in 1 .. n - i : v[p] = s[i + p]
  OBVIOUS
<1>3. <<x>> \in Seq(A) /\ Len(<<x>>) = 1 /\ <<x>>[1] = x
  OBVIOUS
<1> HIDE DEF u, v
<1>4. /\ w \in Seq(A) /\ Len(w) = (i - 1) + 1
      /\ \A p \in 1 .. i - 1 : w[p] = u[p]
      /\ \A p \in 1 .. 1 : w[(i - 1) + p] = <<x>>[p]
  <2>1. u \in Seq(A) /\ <<x>> \in Seq(A)
    BY <1>1, <1>3
  <2>2. /\ w \in Seq(A) /\ Len(w) = Len(u) + Len(<<x>>)
        /\ \A p \in 1 .. Len(u) : w[p] = u[p]
        /\ \A p \in 1 .. Len(<<x>>) : w[Len(u) + p] = <<x>>[p]
    <3>1. /\ (u \o <<x>>) \in Seq(A) /\ Len((u \o <<x>>)) = Len(u) + Len(<<x>>)
          /\ \A p \in 1 .. Len(u) : (u \o <<x>>)[p] = u[p]
          /\ \A p \in 1 .. Len(<<x>>) : (u \o <<x>>)[Len(u) + p] = <<x>>[p]
      BY <2>1, Joined
    <3>2. w = u \o <<x>>
      BY DEF w
    <3> QED BY <3>1, <3>2, Zenon
  <2> QED BY <1>1, <1>3, <2>2, Zenon
<1>5. r = w \o v
  BY <1>0 DEF u, v
<1> HIDE DEF w
<1>6. Len(w) = i /\ w[i] = x /\ \A p \in 1 .. i - 1 : w[p] = s[p]
  <2>1. (i - 1) + 1 = i /\ 1 \in 1 .. 1
    OBVIOUS
  <2> QED BY <1>1, <1>3, <1>4, <2>1
<1>7. /\ r \in Seq(A) /\ Len(r) = i + (n - i)
      /\ \A p \in 1 .. i : r[p] = w[p]
      /\ \A p \in 1 .. n - i : r[i + p] = v[p]
  <2>1. w \in Seq(A) /\ v \in Seq(A)
    BY <1>2, <1>4
  <2>2. /\ r \in Seq(A) /\ Len(r) = Len(w) + Len(v)
        /\ \A p \in 1 .. Len(w) : r[p] = w[p]
        /\ \A p \in 1 .. Len(v) : r[Len(w) + p] = v[p]
    <3>1. /\ (w \o v) \in Seq(A) /\ Len((w \o v)) = Len(w) + Len(v)
          /\ \A p \in 1 .. Len(w) : (w \o v)[p] = w[p]
          /\ \A p \in 1 .. Len(v) : (w \o v)[Len(w) + p] = v[p]
      BY <2>1, Joined
    <3>2. r = w \o v
      BY <1>5
    <3> QED BY <3>1, <3>2, Zenon
  <2> QED BY <1>2, <1>6, <2>2, Zenon
<1>8. ASSUME NEW p \in 1 .. n PROVE r[p] = IF p = i THEN x ELSE s[p]
  <2>1. CASE p < i
    <3>1. p \in 1 .. i - 1 /\ p \in 1 .. i
      BY <2>1
    <3> QED BY <1>6, <1>7, <2>1, <3>1
  <2>2. CASE p = i
    <3>1. i \in 1 .. i
      OBVIOUS
    <3> QED BY <1>6, <1>7, <2>2, <3>1
  <2>3. CASE p > i
    <3>1. p - i \in 1 .. n - i /\ i + (p - i) = p /\ p # i
      BY <2>3
    <3>2. r[i + (p - i)] = s[i + (p - i)]
      BY <1>2, <1>7, <3>1
    <3> QED BY <3>1, <3>2
  <2> QED BY <2>1, <2>2, <2>3
<1>9. i + (n - i) = n
  OBVIOUS
<1> QED BY <1>7, <1>8, <1>9

\* Each of the fixes of acc is of t, and they lie apart.
AreAccepted(t, enabled, acc) ==
  /\ DOMAIN acc = 1 .. Len(acc) /\ Len(acc) \in Nat /\ Apart(acc)
  /\ \A n \in 1 .. Len(acc) : \E i : Repairs(t, enabled, acc[n], i)

Cuts(f, q) == f.content = <<>> /\ f.from < q /\ q <= f.to

\* Where the fixes after the first n begin.
Edge(t, acc, n) == IF n = Len(acc) THEN Len(t) ELSE acc[n + 1].from

\* s is what t becomes by the fixes after the first n: its atom p comes from the
\* atom g[p] of t, and every atom no fix cuts out is there.
Lineage(t, acc, n, s, g) ==
  /\ s \in Seq(Atoms) /\ LinesApart(s)
  /\ g \in [1 .. Len(s) -> 1 .. Len(t)]
  /\ \A p, q \in 1 .. Len(s) : p < q => g[p] < g[q]
  /\ \A p \in 1 .. Len(s) :
       s[p] = t[g[p]] \/ \E k \in n + 1 .. Len(acc) : acc[k].content = <<s[p]>> /\ acc[k].to = g[p]
  /\ \A q \in 1 .. Len(t) :
       (\E p \in 1 .. Len(s) : g[p] = q) <=> ~ \E k \in n + 1 .. Len(acc) : Cuts(acc[k], q)

\* What the other fixes are about is as it was.
IsUntouched(t, acc, n, s, g) ==
  /\ Edge(t, acc, n) <= Len(s)
  /\ \A p \in 1 .. Edge(t, acc, n) : g[p] = p /\ s[p] = t[p]
  /\ Edge(t, acc, n) = Len(t) => Len(s) = Len(t)

\* The next fix, from the right, is within what is untouched.
LEMMA EdgeIs ==
  ASSUME NEW t, WellFormed(t), NEW enabled, NEW acc, AreAccepted(t, enabled, acc),
         NEW n \in 1 .. Len(acc)
  PROVE  /\ acc[n].from \in Nat /\ acc[n].to \in Nat /\ acc[n].from < acc[n].to
         /\ acc[n].to <= Edge(t, acc, n) /\ Edge(t, acc, n) \in 0 .. Len(t)
         /\ Edge(t, acc, n - 1) = acc[n].from
<1>0. Len(acc) \in Nat /\ Len(t) \in Nat /\ n \in Nat
  BY TextsAre DEF AreAccepted
<1>1. ASSUME NEW k \in 1 .. Len(acc)
      PROVE  acc[k].from \in 0 .. Len(t) /\ acc[k].to \in 0 .. Len(t) /\ acc[k].from < acc[k].to
  <2>1. PICK i : Repairs(t, enabled, acc[k], i)
    BY DEF AreAccepted
  <2>2. i \in 1 .. Len(t) /\ acc[k].from \in 0 .. i - 1 /\ acc[k].to \in i .. Len(t)
    BY <2>1, SpansAre
  <2> QED BY <1>0, <2>2
<1>2. Edge(t, acc, n - 1) = acc[n].from
  BY <1>0 DEF Edge
<1>3. CASE n = Len(acc)
  BY <1>0, <1>1, <1>2, <1>3 DEF Edge
<1>4. CASE n # Len(acc)
  <2>1. n + 1 \in 1 .. Len(acc) /\ n < n + 1
    BY <1>0, <1>4
  <2>2. acc[n].to <= acc[n + 1].from
    BY <2>1 DEF AreAccepted, Apart
  <2>3. Edge(t, acc, n) = acc[n + 1].from
    BY <1>4 DEF Edge
  <2> QED BY <1>0, <1>1, <1>2, <2>1, <2>2, <2>3
<1> QED BY <1>3, <1>4

\* The fix of acc that goes in after those to the right of it.
LEMMA ReviseNext ==
  ASSUME NEW t, WellFormed(t), NEW enabled, NEW acc, AreAccepted(t, enabled, acc),
         NEW n \in 1 .. Len(acc), NEW i \in 1 .. Len(t), Revises(t, acc[n], i),
         NEW s, NEW g, Lineage(t, acc, n, s, g), IsUntouched(t, acc, n, s, g),
         NEW r, r = SpliceFix(s, acc[n])
  PROVE  Lineage(t, acc, n - 1, r, g) /\ IsUntouched(t, acc, n - 1, r, g)
<1> DEFINE f == acc[n]
           x == Rewritten(t[i], f.rule)
           e == Edge(t, acc, n)
<1>1. /\ f.from = i - 1 /\ f.to = i /\ f.content = <<x>> /\ t[i] \in Atoms /\ t[i].k = "stmt"
      /\ x \in Atoms /\ x.k = "stmt" /\ Len(t) \in Nat /\ Len(acc) \in Nat
  BY TextsAre, RewrittenIs DEF Revises, AreAccepted
<1>2. i <= e /\ e \in 0 .. Len(t) /\ Edge(t, acc, n - 1) = i - 1
  BY <1>1, EdgeIs
<1>3. /\ s \in Seq(Atoms) /\ Len(s) \in Nat /\ e <= Len(s) /\ i \in 1 .. Len(s)
      /\ \A p \in 1 .. e : g[p] = p /\ s[p] = t[p]
  BY <1>1, <1>2 DEF Lineage, IsUntouched
<1>4. /\ r \in Seq(Atoms) /\ Len(r) = Len(s)
      /\ \A p \in 1 .. Len(s) : r[p] = IF p = i THEN x ELSE s[p]
  <2>1. x \in Atoms /\ i \in 1 .. Len(s) /\ s \in Seq(Atoms)
    BY <1>1, <1>3
  <2>2. f.content = <<x>> /\ f.from = i - 1 /\ f.to = i
    BY <1>1
  <2> HIDE DEF x, f, e
  <2>3. /\ SpliceFix(s, f) \in Seq(Atoms) /\ Len(SpliceFix(s, f)) = Len(s)
        /\ \A p \in 1 .. Len(s) : SpliceFix(s, f)[p] = IF p = i THEN x ELSE s[p]
    BY <2>1, <2>2, PutIn
  <2> QED BY <2>3 DEF f
<1> HIDE DEF x, e
<1>5. i \in 1 .. e /\ s[i] = t[i] /\ g[i] = i
  BY <1>2, <1>3
<1>6. \A p \in 1 .. Len(s) : r[p].k = s[p].k
  BY <1>1, <1>4, <1>5
<1>7. LinesApart(r)
  <2>1. LinesApart(s)
    BY DEF Lineage
  <2>2. \A p \in 1 .. Len(s) - 1 : r[p].k = s[p].k /\ r[p + 1].k = s[p + 1].k
    BY <1>3, <1>6
  <2>3. \A p \in 1 .. Len(r) - 1 : r[p].k = "dir" => r[p + 1].k = "nl"
    BY <1>4, <2>1, <2>2 DEF LinesApart
  <2>4. ASSUME NEW p \in 1 .. Len(r), NEW q \in 1 .. Len(r), p < q, r[p].k = "stmt", r[q].k = "stmt"
        PROVE  \E m \in p + 1 .. q - 1 : r[m].k = "nl"
    <3>1. PICK m \in p + 1 .. q - 1 : s[m].k = "nl"
      BY <1>4, <1>6, <2>1, <2>4 DEF LinesApart
    <3>2. m \in 1 .. Len(s)
      BY <1>3, <1>4
    <3> QED BY <1>6, <3>1, <3>2
  <2> QED BY <2>3, <2>4 DEF LinesApart
<1>8. n \in (n - 1) + 1 .. Len(acc) /\ \A k \in n + 1 .. Len(acc) : k \in (n - 1) + 1 .. Len(acc)
  BY <1>1
<1>9. \A k \in (n - 1) + 1 .. Len(acc) : k = n \/ k \in n + 1 .. Len(acc)
  BY <1>1
<1>10. ASSUME NEW p \in 1 .. Len(r)
       PROVE  \/ r[p] = t[g[p]]
              \/ \E k \in (n - 1) + 1 .. Len(acc) : acc[k].content = <<r[p]>> /\ acc[k].to = g[p]
  <2>1. CASE p = i
    BY <1>1, <1>3, <1>4, <1>5, <1>8, <2>1
  <2>2. CASE p # i
    <3>1. r[p] = s[p] /\ p \in 1 .. Len(s)
      BY <1>4, <2>2
    <3>2. s[p] = t[g[p]] \/ \E k \in n + 1 .. Len(acc) : acc[k].content = <<s[p]>> /\ acc[k].to = g[p]
      BY <3>1 DEF Lineage
    <3> QED BY <1>8, <3>1, <3>2
  <2> QED BY <2>1, <2>2
<1>11. \A q \in 1 .. Len(t) :
         (\E k \in (n - 1) + 1 .. Len(acc) : Cuts(acc[k], q)) <=> \E k \in n + 1 .. Len(acc) : Cuts(acc[k], q)
  <2>1. \A q : ~ Cuts(acc[n], q)
    BY <1>1 DEF Cuts
  <2> QED BY <1>8, <1>9, <2>1
<1>12. Lineage(t, acc, n - 1, r, g)
  BY <1>4, <1>7, <1>10, <1>11 DEF Lineage
<1>13. IsUntouched(t, acc, n - 1, r, g)
  <2>1. i - 1 <= Len(r) /\ i - 1 # Len(t)
    BY <1>1, <1>3, <1>4
  <2>2. \A p \in 1 .. i - 1 : g[p] = p /\ r[p] = t[p]
    BY <1>2, <1>3, <1>4, <1>1
  <2> QED BY <1>2, <2>1, <2>2 DEF IsUntouched
<1> QED BY <1>12, <1>13

\* The same with a fix that cuts.
LEMMA RemoveNext ==
  ASSUME NEW t, WellFormed(t), NEW enabled, NEW acc, AreAccepted(t, enabled, acc),
         NEW n \in 1 .. Len(acc), NEW i \in 1 .. Len(t), Removes(t, acc[n], i),
         NEW s, NEW g, Lineage(t, acc, n, s, g), IsUntouched(t, acc, n, s, g),
         NEW r, r = SpliceFix(s, acc[n])
  PROVE  \E h : Lineage(t, acc, n - 1, r, h) /\ IsUntouched(t, acc, n - 1, r, h)
<1> DEFINE f == acc[n]
           a == f.from
           b == f.to
           e == Edge(t, acc, n)
           h == [p \in 1 .. Len(r) |-> IF p <= a THEN p ELSE g[p + (b - a)]]
<1>1. /\ f.content = <<>> /\ IsCut(t, i, a, b) /\ Len(t) \in Nat /\ Len(acc) \in Nat /\ n \in Nat
  BY TextsAre DEF Removes, AreAccepted
<1>2. /\ a \in Nat /\ b \in Nat /\ a < b /\ b <= e /\ e \in 0 .. Len(t) /\ Edge(t, acc, n - 1) = a
  BY EdgeIs
<1>3. /\ s \in Seq(Atoms) /\ Len(s) \in Nat /\ e <= Len(s) /\ LinesApart(s)
      /\ \A p \in 1 .. e : g[p] = p /\ s[p] = t[p]
      /\ e = Len(t) => Len(s) = Len(t)
  BY DEF Lineage, IsUntouched
<1>4. /\ r \in Seq(Atoms) /\ Len(r) = Len(s) - (b - a)
      /\ \A p \in 1 .. a : r[p] = s[p]
      /\ \A p \in a + 1 .. Len(s) - (b - a) : r[p] = s[p + (b - a)]
  <2>1. s \in Seq(Atoms) /\ f.content = <<>> /\ f.from \in 0 .. Len(s) /\ f.to \in f.from .. Len(s)
    BY <1>1, <1>2, <1>3
  <2> HIDE DEF f
  <2>2. /\ SpliceFix(s, f) \in Seq(Atoms) /\ Len(SpliceFix(s, f)) = Len(s) - (f.to - f.from)
        /\ \A p \in 1 .. f.from : SpliceFix(s, f)[p] = s[p]
        /\ \A p \in f.from + 1 .. Len(s) - (f.to - f.from) :
             SpliceFix(s, f)[p] = s[p + (f.to - f.from)]
    BY <2>1, CutOut
  <2> QED BY <2>2 DEF f
<1>5. f.from = a /\ f.to = b
  OBVIOUS
<1>16. Len(s) \in Nat /\ e <= Len(s) /\ Len(r) = Len(s) - (b - a)
  BY <1>3, <1>4
<1> HIDE DEF a, b, e
<1>6. /\ g \in [1 .. Len(s) -> 1 .. Len(t)]
      /\ \A p, q \in 1 .. Len(s) : p < q => g[p] < g[q]
  BY DEF Lineage
<1>7. ASSUME NEW p \in 1 .. Len(r)
      PROVE  /\ p \in 1 .. Len(s)
             /\ p <= a => h[p] = p /\ p \in 1 .. e /\ r[p] = s[p] /\ g[p] = p /\ s[p] = t[p]
             /\ ~ (p <= a) => /\ h[p] = g[p + (b - a)] /\ r[p] = s[p + (b - a)]
                              /\ p + (b - a) \in b + 1 .. Len(s)
                              /\ h[p] > b /\ h[p] \in 1 .. Len(t)
  <2>1. p \in 1 .. Len(s)
    BY <1>2, <1>3, <1>4
  <2>2. CASE p <= a
    <3>1. p \in 1 .. e /\ p \in 1 .. a
      BY <1>2, <2>2
    <3> QED BY <1>3, <1>4, <2>1, <2>2, <3>1
  <2>3. CASE ~ (p <= a)
    <3>1. /\ p \in a + 1 .. Len(s) - (b - a) /\ p + (b - a) \in b + 1 .. Len(s)
          /\ b \in 1 .. Len(s) /\ b \in 1 .. e /\ p + (b - a) \in 1 .. Len(s) /\ b < p + (b - a)
      <4>1. p \in Int /\ 1 <= p /\ p <= Len(s) - (b - a) /\ a < p
        BY <1>2, <1>16, <2>3
      <4> QED BY <1>2, <1>16, <4>1
    <3>2. g[b] = b
      BY <1>3, <3>1
    <3>3. g[p + (b - a)] > b /\ g[p + (b - a)] \in 1 .. Len(t)
      <4>1. g[b] < g[p + (b - a)]
        BY <1>6, <3>1
      <4>2. g[p + (b - a)] \in 1 .. Len(t)
        BY <1>6, <3>1
      <4> QED BY <1>2, <3>2, <4>1, <4>2
    <3>4. h[p] = g[p + (b - a)] /\ r[p] = s[p + (b - a)]
      BY <1>4, <2>3, <3>1
    <3> HIDE DEF h
    <3> QED BY <2>1, <2>3, <3>1, <3>3, <3>4
  <2> QED BY <2>2, <2>3
<1>8. h \in [1 .. Len(r) -> 1 .. Len(t)]
  <2>1. ASSUME NEW p \in 1 .. Len(r) PROVE h[p] \in 1 .. Len(t)
    <3> HIDE DEF h
    <3>1. CASE p <= a
      BY <1>1, <1>2, <1>7, <3>1
    <3> QED BY <1>7, <3>1
  <2>2. h = [p \in 1 .. Len(r) |-> h[p]]
    OBVIOUS
  <2> HIDE DEF h
  <2> QED BY <2>1, <2>2
<1> HIDE DEF h
<1>9. ASSUME NEW p \in 1 .. Len(r), NEW q \in 1 .. Len(r), p < q PROVE h[p] < h[q]
  <2>1. CASE q <= a
    BY <1>2, <1>7, <1>9, <2>1
  <2>2. CASE p <= a /\ ~ (q <= a)
    <3>1. h[p] = p /\ h[q] > b /\ h[q] \in 1 .. Len(t)
      BY <1>7, <2>2
    <3> QED BY <1>1, <1>2, <2>2, <3>1
  <2>3. CASE ~ (p <= a)
    <3>1. ~ (q <= a) /\ p + (b - a) < q + (b - a)
      BY <1>2, <1>9, <2>3
    <3>2. /\ h[p] = g[p + (b - a)] /\ p + (b - a) \in b + 1 .. Len(s)
          /\ h[q] = g[q + (b - a)] /\ q + (b - a) \in b + 1 .. Len(s)
      BY <1>7, <2>3, <3>1
    <3>3. p + (b - a) \in 1 .. Len(s) /\ q + (b - a) \in 1 .. Len(s)
      <4>1. \A x \in b + 1 .. Len(s) : x \in 1 .. Len(s)
        BY <1>2, <1>16
      <4> QED BY <3>2, <4>1
    <3> QED BY <1>6, <3>1, <3>2, <3>3
  <2> QED BY <1>2, <1>9, <2>1, <2>2, <2>3
<1>10. LinesApart(r)
  <2>1. /\ \A p \in 1 .. Len(s) - 1 : s[p].k = "dir" => s[p + 1].k = "nl"
        /\ \A p, q \in 1 .. Len(s) :
             p < q /\ s[p].k = "stmt" /\ s[q].k = "stmt" => \E m \in p + 1 .. q - 1 : s[m].k = "nl"
    BY <1>3 DEF LinesApart
  \* A line feed is left of the cut, or comes to stand right of it.
  <2>2. ASSUME a + 1 \in 1 .. Len(r), a # 0 PROVE t[a].k = "nl" \/ r[a + 1].k = "nl"
    <3>1. r[a + 1] = s[b + 1] /\ b + 1 \in b + 1 .. Len(s) /\ b \in 1 .. Len(s) - 1
      <4>1. ~ (a + 1 <= a) /\ (a + 1) + (b - a) = b + 1
        BY <1>2
      <4>2. r[a + 1] = s[(a + 1) + (b - a)] /\ (a + 1) + (b - a) \in b + 1 .. Len(s)
        BY <1>7, <2>2, <4>1
      <4>3. b + 1 \in b + 1 .. Len(s)
        BY <4>1, <4>2
      <4>4. b \in Int /\ b >= 1
        BY <1>2
      <4> QED BY <1>16, <4>1, <4>2, <4>3, <4>4
    <3>2. b # Len(t)
      BY <1>1, <1>2, <1>3, <3>1
    <3>3. t[a].k = "nl" \/ (b = i /\ t[i].k = "dir")
      <4>1. a = 0 \/ t[a].k = "nl" \/ b = Len(t) \/ (b = i /\ t[i].k = "dir")
        BY <1>1 DEF IsCut
      <4> QED BY <2>2, <3>2, <4>1
    <3>4. CASE b = i /\ t[i].k = "dir"
      <4>1. s[b] = t[b]
        BY <1>2, <1>3, <3>1
      <4>2. s[b + 1].k = "nl"
        BY <2>1, <3>1, <3>4, <4>1
      <4> QED BY <3>1, <4>2
    <3> QED BY <3>3, <3>4
  <2>3. ASSUME NEW p \in 1 .. Len(r), ~ (p <= a)
        PROVE  r[p] = s[p + (b - a)] /\ p + (b - a) \in 1 .. Len(s)
    <3>1. p + (b - a) \in b + 1 .. Len(s)
      BY <1>7, <2>3
    <3> QED BY <1>2, <1>7, <1>16, <2>3, <3>1
  <2>4. ASSUME NEW p \in 1 .. Len(r) - 1, r[p].k = "dir" PROVE r[p + 1].k = "nl"
    <3>1. p \in 1 .. Len(r) /\ p + 1 \in 1 .. Len(r) /\ p \in Int
      BY <1>2, <1>16
    <3>2. CASE p + 1 <= a
      <4>1. p <= a /\ r[p] = s[p] /\ r[p + 1] = s[p + 1] /\ p \in 1 .. Len(s) - 1
        BY <1>2, <1>7, <1>16, <3>1, <3>2
      <4> QED BY <2>1, <2>4, <4>1
    <3>3. CASE p = a
      <4>1. r[p] = t[a]
        BY <1>2, <1>7, <3>1, <3>3
      <4> QED BY <2>2, <2>4, <3>1, <3>3, <4>1
    <3>4. CASE p > a
      <4>1. /\ ~ (p <= a) /\ ~ (p + 1 <= a)
            /\ (p + 1) + (b - a) = (p + (b - a)) + 1
        BY <1>2, <3>1, <3>4
      <4>2. r[p] = s[p + (b - a)] /\ p + (b - a) \in 1 .. Len(s)
        BY <2>3, <3>1, <4>1
      <4>3. r[p + 1] = s[(p + (b - a)) + 1] /\ (p + (b - a)) + 1 \in 1 .. Len(s)
        BY <2>3, <3>1, <4>1
      <4>4. p + (b - a) \in 1 .. Len(s) - 1
        BY <1>16, <4>2, <4>3
      <4> QED BY <2>1, <2>4, <4>2, <4>3, <4>4
    <3> QED BY <1>2, <3>1, <3>2, <3>3, <3>4
  <2>5. ASSUME NEW p \in 1 .. Len(r), NEW q \in 1 .. Len(r), p < q, r[p].k = "stmt", r[q].k = "stmt"
        PROVE  \E m \in p + 1 .. q - 1 : r[m].k = "nl"
    <3>1. p \in Int /\ q \in Int /\ a \in Int /\ b \in Int /\ Len(r) \in Int
      BY <1>2, <1>16
    <3>2. CASE q <= a
      <4>1. p <= a /\ r[p] = s[p] /\ r[q] = s[q] /\ p \in 1 .. Len(s) /\ q \in 1 .. Len(s)
        BY <1>7, <2>5, <3>1, <3>2
      <4>2. PICK m \in p + 1 .. q - 1 : s[m].k = "nl"
        BY <2>1, <2>5, <4>1
      <4>3. m \in 1 .. Len(r) /\ m <= a
        BY <3>1, <3>2
      <4> QED BY <1>7, <4>2, <4>3
    <3>3. CASE ~ (p <= a)
      <4> DEFINE P == p + (b - a)
                 Q == q + (b - a)
      <4>1. r[p] = s[P] /\ P \in 1 .. Len(s)
        BY <2>3, <3>3
      <4>2. r[q] = s[Q] /\ Q \in 1 .. Len(s) /\ P < Q
        BY <2>3, <2>5, <3>1, <3>3
      <4>3. PICK o \in P + 1 .. Q - 1 : s[o].k = "nl"
        BY <2>1, <2>5, <4>1, <4>2
      <4>4. /\ o - (b - a) \in p + 1 .. q - 1 /\ o - (b - a) \in 1 .. Len(r)
            /\ ~ (o - (b - a) <= a) /\ (o - (b - a)) + (b - a) = o
        BY <3>1, <3>3
      <4> HIDE DEF P, Q
      <4>5. r[o - (b - a)] = s[o]
        BY <2>3, <4>4
      <4> QED BY <4>3, <4>4, <4>5
    <3>4. CASE p <= a /\ ~ (q <= a)
      <4>1. /\ a # 0 /\ a \in 1 .. Len(r) /\ a + 1 \in 1 .. Len(r)
            /\ p <= a /\ a + 1 <= q
        BY <1>2, <3>1, <3>4
      <4>2. r[a] = t[a]
        BY <1>2, <1>7, <4>1
      <4>3. CASE t[a].k = "nl"
        <5>1. a \in p + 1 .. q - 1
          <6>1. a # p
            BY <2>5, <4>2, <4>3
          <6> QED BY <3>1, <4>1, <6>1
        <5> QED BY <4>2, <4>3, <5>1
      <4>4. CASE r[a + 1].k = "nl"
        <5>1. a + 1 \in p + 1 .. q - 1
          <6>1. a + 1 # q
            BY <2>5, <4>4
          <6> QED BY <3>1, <4>1, <6>1
        <5> QED BY <4>4, <5>1
      <4> QED BY <2>2, <4>1, <4>3, <4>4
    <3> QED BY <3>2, <3>3, <3>4
  <2> QED BY <2>4, <2>5 DEF LinesApart
<1>11. /\ n \in (n - 1) + 1 .. Len(acc) /\ \A k \in n + 1 .. Len(acc) : k \in (n - 1) + 1 .. Len(acc)
       /\ \A k \in (n - 1) + 1 .. Len(acc) : k = n \/ k \in n + 1 .. Len(acc)
  BY <1>1
<1>12. ASSUME NEW p \in 1 .. Len(r)
       PROVE  \/ r[p] = t[h[p]]
              \/ \E k \in (n - 1) + 1 .. Len(acc) : acc[k].content = <<r[p]>> /\ acc[k].to = h[p]
  <2>1. CASE p <= a
    BY <1>7, <2>1
  <2>2. CASE ~ (p <= a)
    <3> DEFINE o == p + (b - a)
    <3>1. h[p] = g[o] /\ r[p] = s[o] /\ o \in 1 .. Len(s)
      BY <1>2, <1>3, <1>7, <2>2
    <3> HIDE DEF o
    <3>2. s[o] = t[g[o]] \/ \E k \in n + 1 .. Len(acc) : acc[k].content = <<s[o]>> /\ acc[k].to = g[o]
      BY <3>1 DEF Lineage
    <3> QED BY <1>11, <3>1, <3>2
  <2> QED BY <2>1, <2>2
<1>13. ASSUME NEW q \in 1 .. Len(t)
       PROVE  (\E p \in 1 .. Len(r) : h[p] = q) <=> ~ \E k \in (n - 1) + 1 .. Len(acc) : Cuts(acc[k], q)
  <2>1. (\E p \in 1 .. Len(s) : g[p] = q) <=> ~ \E k \in n + 1 .. Len(acc) : Cuts(acc[k], q)
    BY DEF Lineage
  <2>2. Cuts(acc[n], q) <=> a < q /\ q <= b
    BY <1>1, <1>5 DEF Cuts
  <2>3. ASSUME NEW p \in 1 .. Len(r), h[p] = q PROVE (\E o \in 1 .. Len(s) : g[o] = q) /\ ~ Cuts(acc[n], q)
    <3>1. CASE p <= a
      BY <1>2, <1>7, <2>2, <2>3, <3>1
    <3>2. CASE ~ (p <= a)
      <4>1. h[p] = g[p + (b - a)] /\ p + (b - a) \in 1 .. Len(s) /\ h[p] > b
        BY <1>2, <1>3, <1>7, <3>2
      <4> QED BY <1>2, <2>2, <2>3, <4>1
    <3> QED BY <3>1, <3>2
  <2>4. ASSUME NEW o \in 1 .. Len(s), g[o] = q, ~ Cuts(acc[n], q) PROVE \E p \in 1 .. Len(r) : h[p] = q
    <3>1. CASE o <= a
      <4>1. o \in 1 .. Len(r) /\ o \in 1 .. e
        BY <1>2, <1>3, <1>4, <3>1
      <4>2. h[o] = o /\ g[o] = o
        BY <1>3, <1>7, <3>1, <4>1
      <4> QED BY <2>4, <4>1, <4>2
    <3>2. CASE a < o /\ o <= b
      <4>1. o \in 1 .. e
        BY <1>2, <3>2
      <4>2. q = o
        BY <1>3, <2>4, <4>1
      <4> QED BY <2>2, <2>4, <3>2, <4>2
    <3>3. CASE b < o
      <4>1. o - (b - a) \in 1 .. Len(r) /\ ~ (o - (b - a) <= a) /\ (o - (b - a)) + (b - a) = o
        BY <1>2, <1>3, <1>4, <3>3
      <4>2. h[o - (b - a)] = g[o]
        BY <1>7, <4>1
      <4> QED BY <2>4, <4>1, <4>2
    <3> QED BY <1>2, <3>1, <3>2, <3>3
  <2> QED BY <1>11, <2>1, <2>3, <2>4
<1>14. Lineage(t, acc, n - 1, r, h)
  BY <1>4, <1>8, <1>9, <1>10, <1>12, <1>13 DEF Lineage
<1>15. IsUntouched(t, acc, n - 1, r, h)
  <2>1. a <= Len(r) /\ a # Len(t)
    BY <1>1, <1>2, <1>3, <1>4
  <2>2. \A p \in 1 .. a : h[p] = p /\ r[p] = t[p]
    <3> TAKE p \in 1 .. a
    <3>1. p \in 1 .. Len(r) /\ p <= a
      BY <1>2, <1>3, <1>4, <2>1
    <3> QED BY <1>7, <3>1
  <2> QED BY <1>2, <2>1, <2>2 DEF IsUntouched
<1> QED BY <1>14, <1>15

\* All of the fixes, one after the other.
LEMMA ApplyIs ==
  ASSUME NEW t, WellFormed(t), NEW enabled, NEW S, S \subseteq Fixes(t, enabled),
         NEW acc, acc = Accepted(S)
  PROVE  /\ AreAccepted(t, enabled, acc)
         /\ \E g : Lineage(t, acc, 0, ApplyFixes(t, acc), g)
<1> DEFINE q == Reverse(acc)
           m == Len(acc)
<1>1. acc \in Seq(S) /\ Apart(acc) /\ m \in Nat /\ DOMAIN acc = 1 .. m
  <2>1. acc \in Seq(S) /\ Apart(acc)
    BY AcceptedIs
  <2> QED BY <2>1
<1>2. AreAccepted(t, enabled, acc)
  <2>1. \A n \in 1 .. m : acc[n] \in S
    BY <1>1
  <2>2. \A n \in 1 .. m : \E i : Repairs(t, enabled, acc[n], i)
    BY <2>1, FixesAre
  <2> QED BY <1>1, <2>2 DEF AreAccepted
<1>3. q \in Seq(S) /\ Len(q) = m /\ \A k \in 1 .. m : q[k] = acc[(m - k) + 1]
  <2>1. q = [k \in 1 .. m |-> acc[(m - k) + 1]]
    BY DEF Reverse
  <2>2. \A k \in 1 .. m : acc[(m - k) + 1] \in S
    BY <1>1
  <2>3. q \in [1 .. m -> S]
    <3> HIDE DEF q, m
    <3> QED BY <2>1, <2>2
  <2> HIDE DEF q, m
  <2> QED BY <1>1, <2>1, <2>3
<1> HIDE DEF q, m
<1>4. PICK tr : /\ tr[0] = t
                /\ \A k \in 1 .. m : tr[k] = SpliceFix(tr[k - 1], q[k])
                /\ tr[m] = FoldLeft(SpliceFix, t, q)
  BY <1>3, SpliceTrace
<1> DEFINE G == {k \in 0 .. m : \E g : Lineage(t, acc, m - k, tr[k], g) /\ IsUntouched(t, acc, m - k, tr[k], g)}
<1>5. 0 \in G
  <2> DEFINE g == [p \in 1 .. Len(t) |-> p]
  <2>1. t \in Seq(Atoms) /\ LinesApart(t) /\ Len(t) \in Nat
    BY TextsAre DEF WellFormed
  <2>2. g \in [1 .. Len(t) -> 1 .. Len(t)] /\ \A p \in 1 .. Len(t) : g[p] = p
    OBVIOUS
  <2> HIDE DEF g
  <2>3. \A k : k \notin m + 1 .. Len(acc)
    BY <1>1 DEF m
  <2>4. Lineage(t, acc, m, t, g)
    BY <2>1, <2>2, <2>3 DEF Lineage
  <2>5. Edge(t, acc, m) = Len(t)
    BY DEF Edge, m
  <2>6. IsUntouched(t, acc, m, t, g)
    BY <2>1, <2>2, <2>5 DEF IsUntouched
  <2>7. m - 0 = m /\ 0 \in 0 .. m
    BY <1>1
  <2>8. \E h : Lineage(t, acc, m - 0, tr[0], h) /\ IsUntouched(t, acc, m - 0, tr[0], h)
    BY <1>4, <2>4, <2>6, <2>7
  <2> QED BY <2>7, <2>8
<1>6. ASSUME NEW k \in 1 .. m, k - 1 \in G PROVE k \in G
  <2> DEFINE n == m - (k - 1)
  <2>1. PICK g : Lineage(t, acc, n, tr[k - 1], g) /\ IsUntouched(t, acc, n, tr[k - 1], g)
    BY <1>6
  <2>2. n \in 1 .. Len(acc) /\ n - 1 = m - k /\ (m - k) + 1 = n /\ k \in 0 .. m
    BY <1>1 DEF m
  <2> HIDE DEF n, G
  <2>3. tr[k] = SpliceFix(tr[k - 1], acc[n])
    BY <1>3, <1>4, <2>2
  <2>4. PICK i : Repairs(t, enabled, acc[n], i)
    BY <1>2, <2>2 DEF AreAccepted
  <2>5. i \in 1 .. Len(t) /\ (Removes(t, acc[n], i) \/ Revises(t, acc[n], i))
    BY <2>4 DEF Repairs
  <2>6. \E h : Lineage(t, acc, n - 1, tr[k], h) /\ IsUntouched(t, acc, n - 1, tr[k], h)
    <3>1. CASE Removes(t, acc[n], i)
      BY <1>2, <2>1, <2>2, <2>3, <2>5, <3>1, RemoveNext
    <3>2. CASE Revises(t, acc[n], i)
      BY <1>2, <2>1, <2>2, <2>3, <2>5, <3>2, ReviseNext
    <3> QED BY <2>5, <3>1, <3>2
  <2>7. \E h : Lineage(t, acc, m - k, tr[k], h) /\ IsUntouched(t, acc, m - k, tr[k], h)
    BY <2>2, <2>6
  <2> QED BY <2>2, <2>7 DEF G
<1>7. m \in G
  <2> HIDE DEF G
  <2>1. m \in 0 .. m
    BY <1>1
  <2> QED BY <1>1, <1>5, <1>6, <2>1, CountUp
<1>8. \E g : Lineage(t, acc, 0, tr[m], g)
  <2>1. m - m = 0
    BY <1>1
  <2>2. \E g : Lineage(t, acc, m - m, tr[m], g)
    BY <1>7
  <2> QED BY <2>1, <2>2
<1>9. ApplyFixes(t, acc) = tr[m]
  BY <1>4 DEF ApplyFixes, q
<1> QED BY <1>2, <1>8, <1>9

\* s is what t becomes by the fixes of acc.
Becomes(t, enabled, acc, s, g) ==
  WellFormed(t) /\ AreAccepted(t, enabled, acc) /\ Lineage(t, acc, 0, s, g)

\* An atom of the new text is the one it comes from, or a fix of a finding there.
LEMMA ComesFrom ==
  ASSUME NEW t, NEW enabled, NEW acc, NEW s, NEW g, Becomes(t, enabled, acc, s, g),
         NEW p \in 1 .. Len(s)
  PROVE  /\ g[p] \in 1 .. Len(t) /\ s[p] \in Atoms /\ s[p].k = t[g[p]].k
         /\ s[p].k \in {"stmt", "dir"} => s[p].id = t[g[p]].id
         /\ \/ s[p] = t[g[p]]
            \/ \E k \in 1 .. Len(acc) :
                 /\ Repairs(t, enabled, acc[k], g[p]) /\ Revises(t, acc[k], g[p])
                 /\ s[p] = Rewritten(t[g[p]], acc[k].rule)
<1>1. WellFormed(t) /\ AreAccepted(t, enabled, acc) /\ Lineage(t, acc, 0, s, g)
  BY DEF Becomes
<1>2. g[p] \in 1 .. Len(t) /\ s[p] \in Atoms /\ t[g[p]] \in Atoms
  <2>1. s \in Seq(Atoms) /\ g \in [1 .. Len(s) -> 1 .. Len(t)]
    BY <1>1 DEF Lineage
  <2>2. g[p] \in 1 .. Len(t) /\ s[p] \in Atoms
    BY <2>1
  <2> QED BY <1>1, <2>2, TextsAre
<1>3. CASE s[p] = t[g[p]]
  BY <1>2, <1>3
<1>4. CASE s[p] # t[g[p]]
  <2>1. PICK k \in 0 + 1 .. Len(acc) : acc[k].content = <<s[p]>> /\ acc[k].to = g[p]
    BY <1>1, <1>4 DEF Lineage
  <2>2. k \in 1 .. Len(acc)
    BY <2>1
  <2>3. PICK i : Repairs(t, enabled, acc[k], i)
    BY <1>1, <2>2 DEF AreAccepted
  <2>4. acc[k].content # <<>>
    BY <2>1
  <2>5. Revises(t, acc[k], i)
    BY <2>3, <2>4 DEF Repairs, Removes
  <2>6. i = g[p] /\ <<s[p]>> = <<Rewritten(t[i], acc[k].rule)>> /\ acc[k].rule \in DOMAIN Rewrites
        /\ t[i].k = "stmt"
    BY <2>1, <2>5 DEF Revises
  <2>7. s[p] = Rewritten(t[g[p]], acc[k].rule)
    BY <2>6
  <2>8. s[p].k = "stmt" /\ s[p].id = t[g[p]].id
    BY <1>2, <2>6, <2>7, RewrittenIs
  <2> QED BY <1>2, <2>2, <2>3, <2>5, <2>6, <2>7, <2>8
<1> QED BY <1>3, <1>4

\* Atoms keep their order, so that each comes from one of its own.
LEMMA ComesFromOne ==
  ASSUME NEW t, NEW enabled, NEW acc, NEW s, NEW g, Becomes(t, enabled, acc, s, g),
         NEW p \in 1 .. Len(s), NEW q \in 1 .. Len(s)
  PROVE  (p < q <=> g[p] < g[q]) /\ (p = q <=> g[p] = g[q])
<1>1. /\ g \in [1 .. Len(s) -> 1 .. Len(t)]
      /\ \A x, y \in 1 .. Len(s) : x < y => g[x] < g[y]
  BY DEF Becomes, Lineage
<1>2. g[p] \in Int /\ g[q] \in Int
  <2>1. g[p] \in 1 .. Len(t) /\ g[q] \in 1 .. Len(t)
    BY <1>1
  <2> QED BY <2>1
<1>3. p < q => g[p] < g[q]
  BY <1>1
<1>4. q < p => g[q] < g[p]
  BY <1>1
<1>5. p \in Int /\ q \in Int
  OBVIOUS
<1> QED BY <1>2, <1>3, <1>4, <1>5

\* The new text is a file again.
LEMMA StaysWellFormed ==
  ASSUME NEW t, NEW enabled, NEW acc, NEW s, NEW g, Becomes(t, enabled, acc, s, g)
  PROVE  WellFormed(s)
<1>1. s \in Seq(Atoms) /\ LinesApart(s) /\ WellFormed(t) /\ DOMAIN s = 1 .. Len(s)
  BY DEF Becomes, Lineage
<1>2. ASSUME NEW p \in 1 .. Len(s), NEW q \in 1 .. Len(s),
             s[p].k \in {"stmt", "dir"}, s[q].k = s[p].k, s[q].id = s[p].id
      PROVE  p = q
  <2>1. /\ g[p] \in DOMAIN t /\ t[g[p]].k = s[p].k /\ t[g[p]].id = s[p].id
        /\ g[q] \in DOMAIN t /\ t[g[q]].k = s[q].k /\ t[g[q]].id = s[q].id
    BY <1>1, <1>2, ComesFrom, TextsAre
  <2>2. g[p] = g[q]
    BY <1>1, <1>2, <2>1 DEF WellFormed, EachIsItself
  <2> QED BY <2>2, ComesFromOne
<1> QED BY <1>1, <1>2 DEF WellFormed, EachIsItself

\* The atoms of s that stand for atom i of t.
Heirs(t, s, i) == {x \in Range(s) : x.k = t[i].k /\ x.id = t[i].id}

\* One or none, by whether a fix cut it out, which takes a finding about it.
LEMMA HeirsAre ==
  ASSUME NEW t, NEW enabled, NEW acc, NEW s, NEW g, Becomes(t, enabled, acc, s, g),
         NEW i \in Statements(t) \union Directives(t)
  PROVE  \/ \E p \in 1 .. Len(s) : g[p] = i /\ Heirs(t, s, i) = {s[p]}
         \/ /\ Heirs(t, s, i) = {} /\ ~ \E p \in 1 .. Len(s) : g[p] = i
            /\ \E k \in 1 .. Len(acc) : Repairs(t, enabled, acc[k], i) /\ Removes(t, acc[k], i)
<1>1. /\ WellFormed(t) /\ Lineage(t, acc, 0, s, g) /\ AreAccepted(t, enabled, acc)
      /\ DOMAIN s = 1 .. Len(s)
  <2>1. WellFormed(t) /\ Lineage(t, acc, 0, s, g) /\ AreAccepted(t, enabled, acc)
    BY DEF Becomes
  <2>2. s \in Seq(Atoms)
    BY <2>1 DEF Lineage
  <2>3. DOMAIN s = 1 .. Len(s)
    BY <2>2
  <2> QED BY <2>1, <2>3
<1>2. i \in 1 .. Len(t) /\ i \in DOMAIN t /\ t[i].k \in {"stmt", "dir"}
  BY <1>1, TextsAre
<1>3. ASSUME NEW x \in Heirs(t, s, i) PROVE \E p \in 1 .. Len(s) : g[p] = i /\ x = s[p]
  <2>1. PICK p \in 1 .. Len(s) : x = s[p]
    BY <1>1 DEF Heirs, Range
  <2>2. s[p].k = t[i].k /\ s[p].id = t[i].id
    BY <2>1 DEF Heirs
  <2>3. g[p] \in DOMAIN t /\ t[g[p]].k = t[i].k /\ t[g[p]].id = t[i].id
    BY <1>1, <1>2, <2>2, ComesFrom, TextsAre
  <2>4. g[p] = i
    BY <1>1, <1>2, <2>3 DEF WellFormed, EachIsItself
  <2> QED BY <2>1, <2>4
<1>4. CASE \E p \in 1 .. Len(s) : g[p] = i
  <2>1. PICK p \in 1 .. Len(s) : g[p] = i
    BY <1>4
  <2>2. s[p] \in Heirs(t, s, i)
    <3>1. s[p].k = t[i].k /\ s[p].id = t[i].id
      BY <1>2, <2>1, ComesFrom
    <3> QED BY <1>1, <3>1 DEF Heirs, Range
  <2>3. \A x \in Heirs(t, s, i) : x = s[p]
    BY <1>3, <2>1, ComesFromOne
  <2> QED BY <2>1, <2>2, <2>3
<1>5. CASE ~ \E p \in 1 .. Len(s) : g[p] = i
  <2>1. PICK k \in 0 + 1 .. Len(acc) : Cuts(acc[k], i)
    BY <1>1, <1>2, <1>5 DEF Lineage
  <2>2. k \in 1 .. Len(acc) /\ acc[k].content = <<>> /\ acc[k].from < i /\ i <= acc[k].to
    BY <2>1 DEF Cuts
  <2>3. PICK j : Repairs(t, enabled, acc[k], j)
    BY <1>1, <2>2 DEF AreAccepted
  <2>4. /\ j \in 1 .. Len(t) /\ acc[k].from \in 0 .. j - 1 /\ acc[k].to \in j .. Len(t)
        /\ \A n \in acc[k].from + 1 .. acc[k].to : n # j => t[n].k \in {"sp", "nl"}
    BY <1>1, <2>3, SpansAre
  <2>5. i \in acc[k].from + 1 .. acc[k].to
    BY <1>2, <2>2, <2>4
  <2>6. i = j
    BY <1>2, <2>4, <2>5
  <2>7. Removes(t, acc[k], i)
    <3>1. acc[k].content = <<Rewritten(t[j], acc[k].rule)>> => acc[k].content # <<>>
      OBVIOUS
    <3> QED BY <2>2, <2>3, <2>6, <3>1 DEF Repairs, Revises
  <2> QED BY <1>3, <1>5, <2>2, <2>3, <2>6, <2>7
<1> QED BY <1>4, <1>5


--------------------------------------------------------------------------------
(* Steps.                                                                  *)

\* A turn of the loop applies fixes that lie apart.
LEMMA RoundIs ==
  ASSUME WellFormed(file), Round
  PROVE  \E acc, g : Becomes(file, job.enabled, acc, file', g)
<1> DEFINE S == Eligible(file, job)
           acc == Accepted(S)
<1>1. S \subseteq Fixes(file, job.enabled)
  BY DEF Eligible
<1>2. file' = ApplyFixes(file, acc)
  BY DEF Round
<1> HIDE DEF S
<1>3. /\ AreAccepted(file, job.enabled, acc)
      /\ \E g : Lineage(file, acc, 0, ApplyFixes(file, acc), g)
  BY <1>1, ApplyIs
<1> HIDE DEF acc
<1> QED BY <1>2, <1>3 DEF Becomes

\* All other steps leave the file as it is.
LEMMA StepIs ==
  ASSUME WellFormed(file), [FixNext]_fixVars
  PROVE  file' = file \/ \E acc, g : Becomes(file, job.enabled, acc, file', g)
<1>1. CASE Invoke
  BY <1>1 DEF Invoke
<1>2. CASE Round
  BY <1>2, RoundIs
<1>3. CASE Finish
  BY <1>3 DEF Finish
<1>4. CASE UNCHANGED fixVars
  BY <1>4 DEF fixVars
<1> QED BY <1>1, <1>2, <1>3, <1>4 DEF FixNext

\* The inductive invariant: what stands in the file stands on lines of its own.
LEMMA StaysAFile == FixSpec => []WellFormed(file)
<1>1. FixInit => WellFormed(file)
  BY FixAssumption DEF FixInit
<1>2. WellFormed(file) /\ [FixNext]_fixVars => WellFormed(file)'
  <2> SUFFICES ASSUME WellFormed(file), [FixNext]_fixVars PROVE WellFormed(file')
    OBVIOUS
  <2>1. CASE file' = file
    BY <2>1
  <2>2. CASE \E acc, g : Becomes(file, job.enabled, acc, file', g)
    BY <2>2, StaysWellFormed
  <2> QED BY <2>1, <2>2, StepIs
<1> QED BY <1>1, <1>2, PTL DEF FixSpec

\* While the file is as it was, each of its atoms stands for itself alone.
LEMMA SameSuccessor ==
  ASSUME WellFormed(file), file' = file, NEW i \in Statements(file) \union Directives(file)
  PROVE  Successor(i) = {file[i]}
<1>1. i \in DOMAIN file /\ file[i].k \in {"stmt", "dir"}
  BY TextsAre
<1>2. file[i] \in Successor(i)
  BY <1>1 DEF Successor, Range
<1>3. ASSUME NEW x \in Successor(i) PROVE x = file[i]
  <2>1. PICK j \in DOMAIN file : x = file[j]
    BY DEF Successor, Range
  <2>2. file[j].k = file[i].k /\ file[j].id = file[i].id
    BY <2>1 DEF Successor
  <2> QED BY <1>1, <2>1, <2>2 DEF WellFormed, EachIsItself
<1> QED BY <1>2, <1>3

\* After a turn of the loop each is what a finding reported about it makes of it.
LEMMA AccountedFor ==
  ASSUME NEW acc, NEW g, Becomes(file, job.enabled, acc, file', g),
         NEW i \in Statements(file) \union Directives(file)
  PROVE  Accounted(i)
<1>1. Successor(i) = Heirs(file, file', i)
  BY DEF Successor, Heirs
<1>2. CASE \E p \in 1 .. Len(file') : g[p] = i /\ Heirs(file, file', i) = {file'[p]}
  <2>1. PICK p \in 1 .. Len(file') : g[p] = i /\ Heirs(file, file', i) = {file'[p]}
    BY <1>2
  <2>2. CASE file'[p] = file[i]
    BY <1>1, <2>1, <2>2 DEF Accounted
  <2>3. CASE file'[p] # file[i]
    <3>1. PICK k \in 1 .. Len(acc) :
             /\ Repairs(file, job.enabled, acc[k], i) /\ Revises(file, acc[k], i)
             /\ file'[p] = Rewritten(file[i], acc[k].rule)
      BY <2>1, <2>3, ComesFrom
    <3>2. acc[k].rule \in DOMAIN Rewrites
      BY <3>1 DEF Revises
    <3>3. Reported(i, {acc[k].rule})
      BY <3>1 DEF Repairs, Reported, Finding
    <3> QED BY <1>1, <2>1, <3>1, <3>2, <3>3 DEF Accounted
  <2> QED BY <2>2, <2>3
<1>3. CASE /\ Heirs(file, file', i) = {}
           /\ \E k \in 1 .. Len(acc) : Repairs(file, job.enabled, acc[k], i) /\ Removes(file, acc[k], i)
  <2>1. PICK k \in 1 .. Len(acc) : Repairs(file, job.enabled, acc[k], i) /\ Removes(file, acc[k], i)
    BY <1>3
  <2>2. ~ Revises(file, acc[k], i)
    BY <2>1 DEF Removes, Revises
  <2>3. Reported(i, Deletes \union {"outdated"})
    BY <2>1, <2>2 DEF Repairs, Reported, Finding
  <2> QED BY <1>1, <1>3, <2>3 DEF Accounted
<1> QED BY <1>2, <1>3, HeirsAre

\* `arity lint --fix` changes what it reported and nothing else (fix.rs, main.rs):
\* each statement and directive is afterwards what it was, or is gone by a fix that
\* deletes what was reported there, or is what a rewriting fix makes of it; and no
\* fix puts code behind a comment, however the fixes of one turn touch or overlap.
THEOREM FixesChangeOnlyTheReported == FixSpec => OnlyReportedIsChanged
<1>1. ASSUME WellFormed(file), WellFormed(file)', [FixNext]_fixVars
      PROVE  /\ \A i \in Statements(file) \union Directives(file) : Accounted(i)
             /\ LinesApart(file')
  <2>1. LinesApart(file')
    BY <1>1 DEF WellFormed
  <2>2. ASSUME NEW i \in Statements(file) \union Directives(file) PROVE Accounted(i)
    <3>1. CASE file' = file
      BY <1>1, <3>1, SameSuccessor DEF Accounted
    <3>2. CASE \E acc, g : Becomes(file, job.enabled, acc, file', g)
      BY <3>2, AccountedFor
    <3> QED BY <1>1, <3>1, <3>2, StepIs
  <2> QED BY <2>1, <2>2
<1>2. WellFormed(file) /\ WellFormed(file)' /\ [FixNext]_fixVars
      => [/\ \A i \in Statements(file) \union Directives(file) : Accounted(i)
          /\ LinesApart(file')]_fixVars
  BY <1>1
<1> QED BY <1>2, StaysAFile, PTL DEF FixSpec, OnlyReportedIsChanged

--------------------------------------------------------------------------------
(* Directives, before and after.                                           *)

\* A directive of the new text is one of the old.
LEMMA DirectivesStay ==
  ASSUME NEW t, NEW enabled, NEW acc, NEW s, NEW g, Becomes(t, enabled, acc, s, g),
         NEW p \in 1 .. Len(s)
  PROVE  /\ p \in Directives(s) <=> g[p] \in Directives(t)
         /\ p \in Statements(s) <=> g[p] \in Statements(t)
         /\ p \in Directives(s) => s[p] = t[g[p]]
<1>1. /\ g[p] \in 1 .. Len(t) /\ s[p].k = t[g[p]].k
      /\ \/ s[p] = t[g[p]]
         \/ \E k \in 1 .. Len(acc) : Revises(t, acc[k], g[p])
  BY ComesFrom
<1>2. WellFormed(t) /\ WellFormed(s)
  BY StaysWellFormed DEF Becomes
<1>3. /\ p \in Directives(s) <=> g[p] \in Directives(t)
      /\ p \in Statements(s) <=> g[p] \in Statements(t)
  BY <1>1, <1>2, TextsAre
<1>4. p \in Directives(s) => t[g[p]].k # "stmt"
  BY <1>1, <1>2, TextsAre
<1>5. p \in Directives(s) => s[p] = t[g[p]]
  BY <1>1, <1>4 DEF Revises
<1> QED BY <1>3, <1>5

\* What a directive suppresses when it is not about a directive.
LEMMA SuppressesIs ==
  ASSUME NEW t, WellFormed(t), NEW d \in Directives(t), NEW rule, NEW i \in Statements(t)
  PROVE  Suppresses(t, d, rule, i) <=>
           t[d].verb # "on" /\ t[d].scope \in {"all", rule} /\ i \in Coverage(t, d)
<1>1. i \notin Directives(t)
  BY TextsAre
<1> QED BY <1>1 DEF Suppresses, Covers

\* Only a directive that suppresses nothing is cut out, and none that closes.
LEMMA CutIsOutdated ==
  ASSUME NEW t, NEW enabled, NEW acc, NEW s, NEW g, Becomes(t, enabled, acc, s, g),
         NEW d \in Directives(t), ~ \E p \in 1 .. Len(s) : g[p] = d
  PROVE  /\ d \in Outdated(t, enabled, Used(t, RawFindings(t, enabled)))
         /\ t[d].verb # "on" /\ t[d].scope # "all"
<1>1. WellFormed(t)
  BY DEF Becomes
<1>2. PICK k \in 1 .. Len(acc) : Repairs(t, enabled, acc[k], d) /\ Removes(t, acc[k], d)
  BY HeirsAre
<1> DEFINE f == Finding(acc[k].rule, d)
<1>3. f \in RunRules(t, enabled) /\ f.rule = acc[k].rule /\ f.at = d
  BY <1>2 DEF Repairs, Finding
<1>4. d \notin Statements(t)
  BY <1>1, TextsAre
<1>5. acc[k].rule = "outdated"
  <2>1. acc[k].rule \in Meta
    BY <1>1, <1>3, <1>4, FindingsAre
  <2>2. acc[k].rule \in Rules \union {"outdated"}
    BY <1>2 DEF Repairs
  <2> QED BY <2>1, <2>2, FixAssumption
<1>6. d \in Outdated(t, enabled, Used(t, RawFindings(t, enabled)))
  BY <1>1, <1>3, <1>5, FindingsAre
<1>7. t[d].scope \in Rules \union Meta
  BY <1>6 DEF Outdated
<1>8. t[d].scope \notin {"all", "unnamed"}
  BY <1>7, FixAssumption DEF Meta
<1>9. t[d].verb # "on"
  <2>1. t[d] \in Atoms /\ t[d].k = "dir"
    BY <1>1, TextsAre
  <2> QED BY <1>8, <2>1, AtomsAre
<1> QED BY <1>6, <1>8, <1>9

\* A directive that closes stays.
LEMMA ClosersStay ==
  ASSUME NEW t, NEW enabled, NEW acc, NEW s, NEW g, Becomes(t, enabled, acc, s, g),
         NEW d \in Directives(t), t[d].verb = "on"
  PROVE  \E p \in 1 .. Len(s) : g[p] = d
BY CutIsOutdated

\* A directive that suppresses an issue that is there stays.
LEMMA UsedStay ==
  ASSUME NEW t, NEW enabled, NEW acc, NEW s, NEW g, Becomes(t, enabled, acc, s, g),
         NEW d \in Directives(t), NEW i \in Statements(t), NEW rule \in t[i].issues,
         Suppresses(t, d, rule, i)
  PROVE  \E p \in 1 .. Len(s) : g[p] = d
<1> SUFFICES ASSUME ~ \E p \in 1 .. Len(s) : g[p] = d PROVE FALSE
  OBVIOUS
<1> DEFINE raw == RawFindings(t, enabled)
<1>1. /\ d \in Outdated(t, enabled, Used(t, raw))
      /\ t[d].verb # "on" /\ t[d].scope # "all"
  BY CutIsOutdated
<1>2. WellFormed(t)
  BY DEF Becomes
<1>3. t[d].scope = rule /\ i \in Coverage(t, d)
  BY <1>1, <1>2, SuppressesIs
<1>4. ~ IsDangling(t, d)
  BY <1>3 DEF IsDangling, Coverage
<1>5. rule \in enabled /\ d \notin Used(t, raw)
  BY <1>1, <1>3, <1>4 DEF Outdated
<1>6. Finding(rule, i) \in raw
  <2>1. Finding(rule, i) \in [rule : enabled, at : Statements(t)]
    BY <1>5 DEF Finding
  <2>2. Finding(rule, i).rule \in t[Finding(rule, i).at].issues
    BY DEF Finding
  <2> QED BY <2>1, <2>2 DEF RawFindings
<1>7. Suppresses(t, d, Finding(rule, i).rule, Finding(rule, i).at)
  BY DEF Finding
<1>8. d \in Used(t, raw)
  <2> HIDE DEF raw
  <2> QED BY <1>6, <1>7 DEF Used
<1> QED BY <1>5, <1>8

\* The first of a set of positions is one of them, when there is any.
LEMMA FirstIs ==
  ASSUME NEW S, S \subseteq Nat
  PROVE  /\ S # {} => \E x \in S : First(S) = {x}
         /\ \A x : x \in First(S) <=> x \in S /\ \A y \in S : x <= y
<1>1. \A x : x \in First(S) <=> x \in S /\ \A y \in S : x <= y
  BY DEF First
<1>2. ASSUME S # {} PROVE \E x \in S : First(S) = {x}
  <2>1. PICK x \in S : \A y \in S : x <= y
    BY <1>2, LeastNatural
  <2>2. ASSUME NEW z \in First(S) PROVE z = x
    <3>1. z \in S /\ z <= x /\ x <= z
      BY <1>1, <2>1
    <3>2. z \in Int /\ x \in Int
      BY <3>1
    <3> QED BY <3>1, <3>2
  <2>3. x \in First(S)
    BY <1>1, <2>1
  <2> QED BY <2>2, <2>3
<1> QED BY <1>1, <1>2

\* A region reaches a statement unless it is closed before.
LEMMA RegionIs ==
  ASSUME NEW t, WellFormed(t), NEW d \in Directives(t), NEW i \in Statements(t)
  PROVE  i \in d + 1 .. RegionEnd(t, d) <=>
           /\ d < i
           /\ \A c \in Directives(t) : c > d /\ t[c].verb = "on" /\ t[c].tool = t[d].tool => i < c
<1> DEFINE C == {c \in Directives(t) : c > d /\ t[c].verb = "on" /\ t[c].tool = t[d].tool}
<1>1. /\ d \in 1 .. Len(t) /\ i \in 1 .. Len(t) /\ Len(t) \in Nat
      /\ C \subseteq Nat /\ i \notin C /\ i # d
  BY TextsAre
<1>2. Closer(t, d) = First(C)
  BY DEF Closer
<1>3. i \in d + 1 .. RegionEnd(t, d) <=> d < i /\ \A c \in C : i < c
  <2> HIDE DEF C
  <2>1. CASE C = {}
    <3>1. Closer(t, d) = {}
      BY <1>2, <2>1 DEF First
    <3>2. RegionEnd(t, d) = Len(t)
      BY <3>1 DEF RegionEnd
    <3> QED BY <1>1, <2>1, <3>2
  <2>2. CASE C # {}
    <3>1. PICK x \in C : Closer(t, d) = {x}
      BY <1>1, <1>2, <2>2, FirstIs
    <3>2. RegionEnd(t, d) = x - 1
      BY <3>1 DEF RegionEnd
    <3>3. \A c \in C : x <= c
      BY <1>1, <1>2, <3>1, FirstIs
    <3>4. x \in Int /\ \A c \in C : c \in Int
      BY <1>1
    <3>5. i \in d + 1 .. RegionEnd(t, d) <=> d < i /\ i < x
      BY <1>1, <3>2, <3>4
    <3>6. i < x <=> \A c \in C : i < c
      BY <1>1, <3>3, <3>4
    <3> QED BY <3>5, <3>6
  <2> QED BY <2>1, <2>2
<1> QED BY <1>3

\* No `skip` of t that is left in s loses its statement.
SkipsKeep(t, s) ==
  \A d \in Directives(t) : t[d].verb = "skip" =>
    \A n \in NextSibling(t, d) : Heirs(t, s, d) = {} \/ Heirs(t, s, n) # {}

\* A `skip` that is left attaches to what it was attached to.
LEMMA SkipCovers ==
  ASSUME NEW t, NEW enabled, NEW acc, NEW s, NEW g, Becomes(t, enabled, acc, s, g),
         SkipsKeep(t, s), NEW p \in Directives(s), s[p].verb = "skip", NEW j \in Statements(s)
  PROVE  g[j] \in NextSibling(t, g[p]) <=> j \in NextSibling(s, p)
<1> DEFINE T == {n \in Statements(t) : n > g[p]}
           S == {n \in Statements(s) : n > p}
<1>1. WellFormed(t) /\ WellFormed(s)
  BY StaysWellFormed DEF Becomes
<1>2. /\ p \in 1 .. Len(s) /\ j \in 1 .. Len(s) /\ Len(s) \in Nat /\ Len(t) \in Nat
      /\ \A n \in Statements(s) : n \in 1 .. Len(s)
      /\ \A n \in Statements(t) : n \in 1 .. Len(t)
  BY <1>1, TextsAre
<1>3. /\ g[p] \in Directives(t) /\ s[p] = t[g[p]] /\ g[j] \in Statements(t)
      /\ \A n \in Statements(s) : g[n] \in Statements(t)
  BY <1>2, DirectivesStay
<1>4. g[p] \in 1 .. Len(t) /\ g[j] \in 1 .. Len(t)
  BY <1>1, <1>3, TextsAre
<1>5. T \subseteq Nat /\ S \subseteq Nat
  <2>1. \A n \in Statements(s) \union Statements(t) : n \in Nat
    BY <1>2
  <2> QED BY <2>1
<1>6. NextSibling(t, g[p]) = First(T) /\ NextSibling(s, p) = First(S)
  BY DEF NextSibling
<1>7. \A n \in Statements(s) : (p < n <=> g[p] < g[n]) /\ (j <= n <=> g[j] <= g[n])
  <2> SUFFICES ASSUME NEW n \in Statements(s)
               PROVE  (p < n <=> g[p] < g[n]) /\ (j <= n <=> g[j] <= g[n])
    OBVIOUS
  <2>1. g[n] \in Int /\ g[j] \in Int /\ n \in Int /\ j \in Int
    <3>1. g[n] \in 1 .. Len(t) /\ n \in 1 .. Len(s)
      BY <1>2, <1>3
    <3> QED BY <1>2, <1>4, <3>1
  <2>2. p < n <=> g[p] < g[n]
    BY <1>2, ComesFromOne
  <2>3. (j < n <=> g[j] < g[n]) /\ (j = n <=> g[j] = g[n])
    BY <1>2, ComesFromOne
  <2> QED BY <2>1, <2>2, <2>3
<1>8. ASSUME g[j] \in First(T) PROVE j \in First(S)
  <2>1. g[j] \in T /\ \A n \in T : g[j] <= n
    BY <1>5, <1>8, FirstIs
  <2>2. j \in S
    BY <1>2, <1>7, <2>1
  <2>3. ASSUME NEW n \in S PROVE j <= n
    <3>1. g[n] \in T
      BY <1>2, <1>3, <1>7, <2>3
    <3> QED BY <1>7, <2>1, <3>1
  <2> HIDE DEF S
  <2>4. j \in First(S) <=> j \in S /\ \A n \in S : j <= n
    BY <1>5, FirstIs
  <2> QED BY <2>2, <2>3, <2>4
<1>9. ASSUME j \in First(S) PROVE g[j] \in First(T)
  <2>1. j \in S /\ \A n \in S : j <= n
    BY <1>5, <1>9, FirstIs
  <2>2. g[j] \in T
    BY <1>2, <1>3, <1>4, <1>7, <2>1
  <2>3. PICK n \in T : First(T) = {n}
    <3> HIDE DEF T
    <3>1. T # {} => \E x \in T : First(T) = {x}
      BY <1>5, FirstIs
    <3> QED BY <2>2, <3>1
  <2>4. Heirs(t, s, g[p]) # {}
    <3>1. s[p] \in Range(s)
      BY <1>1, <1>2, TextsAre DEF Range
    <3>2. s[p] \in Heirs(t, s, g[p])
      BY <1>3, <3>1 DEF Heirs
    <3> QED BY <3>2
  <2>5. Heirs(t, s, n) # {}
    BY <1>3, <1>6, <2>3, <2>4 DEF SkipsKeep
  <2>6. PICK q \in 1 .. Len(s) : g[q] = n
    BY <2>3, <2>5, HeirsAre
  <2>7. q \in Statements(s)
    BY <2>3, <2>6, DirectivesStay
  <2>8. q \in S
    BY <1>2, <1>7, <2>3, <2>6, <2>7
  <2>9. g[j] <= n
    BY <1>7, <2>1, <2>6, <2>7, <2>8
  <2>10. n <= g[j]
    <3> HIDE DEF T
    <3> QED BY <1>5, <2>2, <2>3, FirstIs
  <2>11. n = g[j]
    BY <1>2, <1>4, <2>3, <2>9, <2>10
  <2> QED BY <2>3, <2>11
<1> QED BY <1>6, <1>8, <1>9

\* A region that is left reaches the statements it reached.
LEMMA OffCovers ==
  ASSUME NEW t, NEW enabled, NEW acc, NEW s, NEW g, Becomes(t, enabled, acc, s, g),
         NEW p \in Directives(s), NEW j \in Statements(s)
  PROVE  g[j] \in g[p] + 1 .. RegionEnd(t, g[p]) <=> j \in p + 1 .. RegionEnd(s, p)
<1>1. WellFormed(t) /\ WellFormed(s)
  BY StaysWellFormed DEF Becomes
<1>2. /\ p \in 1 .. Len(s) /\ j \in 1 .. Len(s)
      /\ \A c \in Directives(s) : c \in 1 .. Len(s)
  BY <1>1, TextsAre
<1>3. /\ g[p] \in Directives(t) /\ s[p] = t[g[p]] /\ g[j] \in Statements(t)
      /\ \A c \in Directives(s) : g[c] \in Directives(t) /\ s[c] = t[g[c]]
  BY <1>2, DirectivesStay
<1> DEFINE Closes(u, d, c) == c > d /\ u[c].verb = "on" /\ u[c].tool = u[d].tool
<1>4. g[j] \in g[p] + 1 .. RegionEnd(t, g[p]) <=>
        g[p] < g[j] /\ \A c \in Directives(t) : Closes(t, g[p], c) => g[j] < c
  BY <1>1, <1>3, RegionIs
<1>5. j \in p + 1 .. RegionEnd(s, p) <=>
        p < j /\ \A c \in Directives(s) : Closes(s, p, c) => j < c
  BY <1>1, RegionIs
<1>6. ASSUME NEW c \in Directives(s)
      PROVE  (Closes(s, p, c) <=> Closes(t, g[p], g[c])) /\ (j < c <=> g[j] < g[c])
  BY <1>2, <1>3, <1>6, ComesFromOne
<1>7. p < j <=> g[p] < g[j]
  BY <1>2, ComesFromOne
<1>8. ASSUME NEW c \in Directives(t), Closes(t, g[p], c)
      PROVE  \E q \in Directives(s) : g[q] = c
  <2>1. PICK q \in 1 .. Len(s) : g[q] = c
    BY <1>8, ClosersStay
  <2>2. q \in Directives(s)
    BY <2>1, DirectivesStay
  <2> QED BY <2>1, <2>2
<1> HIDE DEF Closes
<1>9. (\A c \in Directives(t) : Closes(t, g[p], c) => g[j] < c)
      <=> (\A c \in Directives(s) : Closes(s, p, c) => j < c)
  <2>1. ASSUME \A c \in Directives(t) : Closes(t, g[p], c) => g[j] < c,
               NEW c \in Directives(s), Closes(s, p, c)
        PROVE  j < c
    BY <1>3, <1>6, <2>1
  <2>2. ASSUME \A c \in Directives(s) : Closes(s, p, c) => j < c,
               NEW c \in Directives(t), Closes(t, g[p], c)
        PROVE  g[j] < c
    BY <1>6, <1>8, <2>2
  <2> QED BY <2>1, <2>2
<1> QED BY <1>4, <1>5, <1>7, <1>9

\* A directive that is left suppresses what it suppressed.
LEMMA StillSuppresses ==
  ASSUME NEW t, NEW enabled, NEW acc, NEW s, NEW g, Becomes(t, enabled, acc, s, g),
         SkipsKeep(t, s), NEW p \in Directives(s), NEW j \in Statements(s), NEW rule
  PROVE  Suppresses(t, g[p], rule, g[j]) <=> Suppresses(s, p, rule, j)
<1>1. WellFormed(t) /\ WellFormed(s)
  BY StaysWellFormed DEF Becomes
<1>2. p \in 1 .. Len(s) /\ j \in 1 .. Len(s)
  BY <1>1, TextsAre
<1>3. g[p] \in Directives(t) /\ s[p] = t[g[p]] /\ g[j] \in Statements(t)
  BY <1>2, DirectivesStay
<1>4. g[j] \in 1 .. Len(t)
  BY <1>1, <1>3, TextsAre
<1>5. g[j] \in Coverage(t, g[p]) <=> j \in Coverage(s, p)
  <2>1. s[p].verb = "skip" => (g[j] \in NextSibling(t, g[p]) <=> j \in NextSibling(s, p))
    BY SkipCovers
  <2>2. g[j] \in g[p] + 1 .. RegionEnd(t, g[p]) <=> j \in p + 1 .. RegionEnd(s, p)
    BY OffCovers
  <2> QED BY <1>2, <1>3, <1>4, <2>1, <2>2 DEF Coverage
<1>6. Suppresses(t, g[p], rule, g[j]) <=>
        t[g[p]].verb # "on" /\ t[g[p]].scope \in {"all", rule} /\ g[j] \in Coverage(t, g[p])
  BY <1>1, <1>3, SuppressesIs
<1>7. Suppresses(s, p, rule, j) <=>
        s[p].verb # "on" /\ s[p].scope \in {"all", rule} /\ j \in Coverage(s, p)
  BY <1>1, SuppressesIs
<1> QED BY <1>3, <1>5, <1>6, <1>7

\* So an issue that was there is suppressed as it was.
LEMMA StillSuppressed ==
  ASSUME NEW t, NEW enabled, NEW acc, NEW s, NEW g, Becomes(t, enabled, acc, s, g),
         SkipsKeep(t, s), NEW j \in Statements(s), NEW rule \in t[g[j]].issues
  PROVE  IsSuppressed(t, rule, g[j]) <=> IsSuppressed(s, rule, j)
<1>1. WellFormed(t) /\ WellFormed(s)
  BY StaysWellFormed DEF Becomes
<1>2. j \in 1 .. Len(s) /\ \A p \in Directives(s) : p \in 1 .. Len(s)
  BY <1>1, TextsAre
<1>3. g[j] \in Statements(t) /\ \A p \in Directives(s) : g[p] \in Directives(t)
  BY <1>2, DirectivesStay
<1>4. ASSUME NEW d \in Directives(t), Suppresses(t, d, rule, g[j])
      PROVE  \E p \in Directives(s) : Suppresses(s, p, rule, j)
  <2>1. PICK p \in 1 .. Len(s) : g[p] = d
    BY <1>3, <1>4, UsedStay
  <2>2. p \in Directives(s)
    BY <2>1, DirectivesStay
  <2> QED BY <1>4, <2>1, <2>2, StillSuppresses
<1>5. ASSUME NEW p \in Directives(s), Suppresses(s, p, rule, j)
      PROVE  \E d \in Directives(t) : Suppresses(t, d, rule, g[j])
  BY <1>3, <1>5, StillSuppresses
<1> QED BY <1>4, <1>5 DEF IsSuppressed

\* A fix never changes what the directives of a file suppress (suppression.rs,
\* rules/meta/outdated_suppression.rs): an issue that is still there after a step of
\* `arity lint --fix` is suppressed exactly if it was before, with whichever rules
\* the run was started, provided that no `skip` lost the statement it stands above.
THEOREM FixesKeepSuppressions == FixSpec => SuppressionIsStable
<1>1. ASSUME WellFormed(file), [FixNext]_fixVars, SkipsKeepTheirStatements PROVE Stable
  <2> SUFFICES ASSUME NEW i \in Statements(file), NEW j \in Statements(file'),
                      file[i].id = file'[j].id,
                      NEW rule \in file[i].issues \intersect file'[j].issues
               PROVE  IsSuppressed(file, rule, i) <=> IsSuppressed(file', rule, j)
    BY DEF Stable
  <2>1. i \in DOMAIN file /\ file[i].k = "stmt"
    BY <1>1, TextsAre
  <2>2. CASE file' = file
    <3>1. j \in DOMAIN file /\ file[j].k = "stmt"
      BY <1>1, <2>2, TextsAre
    <3>2. j = i
      BY <1>1, <2>1, <2>2, <3>1 DEF WellFormed, EachIsItself
    <3> QED BY <2>2, <3>2
  <2>3. CASE \E acc, g : Becomes(file, job.enabled, acc, file', g)
    <3>1. PICK acc, g : Becomes(file, job.enabled, acc, file', g)
      BY <2>3
    <3>2. SkipsKeep(file, file')
      BY <1>1 DEF SkipsKeepTheirStatements, SkipsKeep, Successor, Heirs
    <3>3. j \in 1 .. Len(file') /\ file'[j].k = "stmt"
      BY <3>1, StaysWellFormed, TextsAre
    <3>4. /\ g[j] \in DOMAIN file /\ file[g[j]].k = "stmt" /\ file[g[j]].id = file'[j].id
      BY <1>1, <3>1, <3>3, ComesFrom, TextsAre
    <3>5. g[j] = i
      BY <1>1, <2>1, <3>4 DEF WellFormed, EachIsItself
    <3>6. IsSuppressed(file, rule, g[j]) <=> IsSuppressed(file', rule, j)
      BY <3>1, <3>2, <3>5, StillSuppressed
    <3> QED BY <3>5, <3>6
  <2> QED BY <1>1, <2>2, <2>3, StepIs
<1>2. WellFormed(file) /\ [FixNext]_fixVars => [SkipsKeepTheirStatements => Stable]_fixVars
  BY <1>1
<1> QED BY <1>2, StaysAFile, PTL DEF FixSpec, SuppressionIsStable

================================================================================
