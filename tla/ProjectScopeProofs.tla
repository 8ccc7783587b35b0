-------------------------- MODULE ProjectScopeProofs --------------------------
(***************************************************************************)
(* The layered sets of ProjectScope hold what the relation between single  *)
(* files says, and views count no file twice, for any files, packages,     *)
(* names and source() graph.  The replay of LoadOrder says what R does,    *)
(* and a rename reaches the reads of a script that meet the renamed        *)
(* definition, for any scripts of any statements.                          *)
(*                                                                         *)
(* ProjectScope: in every state the closure of a file is analysed and      *)
(* leaves the file out, its package mates and what it sees beyond them are *)
(* disjoint, and both relations are finite, so that "one reader" and "this *)
(* reader only" are the same.                                              *)
(*                                                                         *)
(* LoadOrder: what a script loads is the least set of files closed under   *)
(* source().  So a run that ends leaves the definition of a file the       *)
(* script loads, if one of them defines the name, and what was live if     *)
(* none does: by induction on the depth of the run, and along the text.    *)
(* That is all the replay knows of a source() call, and enough to keep it  *)
(* in agreement with the run, statement by statement (Agree).  A file that *)
(* is run again inside its own run never ends, so each of its reads is met *)
(* once.                                                                   *)
(***************************************************************************)
EXTENDS ProjectScope, LoadOrder, FiniteSetTheorems, WellFoundedInduction, TLAPS

--------------------------------------------------------------------------------
(* ProjectScope.                                                           *)

\* The facts stay well formed: only allowed ones join.
THEOREM ScopeTypes == Spec => []TypeOK
<1>1. Init => TypeOK
  BY DEF Init, TypeOK
<1>2. TypeOK /\ [Next]_vars => TypeOK'
  <2> SUFFICES ASSUME TypeOK, [Next]_vars PROVE TypeOK'
    OBVIOUS
  <2>1. ASSUME NEW f \in Files, Leave(f) PROVE TypeOK'
    BY <2>1 DEF Leave, TypeOK
  <2>2. ASSUME NEW f \in Files, NEW new \in Allowed \intersect Facts, Join(f, new)
        PROVE TypeOK'
    BY <2>2 DEF Join, TypeOK
  <2>3. ASSUME NEW r \in Roots, NEW names \in SUBSET Names, Namespace(r, names)
        PROVE TypeOK'
    BY <2>3 DEF Namespace, TypeOK
  <2>4. CASE UNCHANGED vars
    BY <2>4 DEF vars, TypeOK
  <2> QED
    BY <2>1, <2>2, <2>3, <2>4 DEF Next
<1> QED
  BY <1>1, <1>2, PTL DEF Spec

\* The closure of a file is analysed and leaves the file out.
LEMMA SourcedIsElsewhere ==
  ASSUME NEW f \in Analysed PROVE Sourced(f) \subseteq Analysed \ {f}
BY DEF Sourced

\* Every set of files below is finite: it lies within Analysed.
LEMMA AnalysedIsFinite ==
  ASSUME TypeOK, NEW S, S \subseteq Analysed PROVE IsFiniteSet(S)
<1>1. IsFiniteSet(Files) /\ S \subseteq Files
  BY ScopeAssumption DEF TypeOK, Analysed
<1> QED
  BY <1>1, FS_Subset

\* Counting one reader, when the file is a reader, leaves no other.
LEMMA OneReader ==
  ASSUME TypeOK, NEW f \in Analysed, NEW name, f \in Readers(f, name)
  PROVE  Cardinality(Readers(f, name)) = 1 <=> \A g \in Readers(f, name) : g = f
<1>1. IsFiniteSet(Readers(f, name))
  <2>1. Readers(f, name) \subseteq Analysed
    BY DEF Readers, MembersOf, Members
  <2> QED
    BY <2>1, AnalysedIsFinite
<1>2. Cardinality(Readers(f, name)) = 1 <=> \E x : Readers(f, name) = {x}
  BY <1>1, FS_Singleton
<1>3. ASSUME NEW x, Readers(f, name) = {x}
      PROVE  \A g \in Readers(f, name) : g = f
  BY <1>3
<1>4. ASSUME \A g \in Readers(f, name) : g = f
      PROVE  Readers(f, name) = {f}
  BY <1>4
<1> QED
  BY <1>2, <1>3, <1>4

\* Visible names, layered and pairwise.
LEMMA VisibleIsPairwise ==
  ASSUME NEW f \in Analysed
  PROVE  Visible(f) = ((UNION {Exports(g) : g \in Sees(f)}) \ Exports(f)) \union Exempt(f)
<1>1. CASE Root(f) = NoRoot
  <2>1. Sees(f) = Sourced(f)
    BY <1>1, SourcedIsElsewhere DEF Sees, View, MembersOf, SeesExtra
  <2> QED
    BY <1>1, <2>1
       DEF Visible, Layered, SharedExports, OwnNames, MembersOf, Exempt
<1>2. CASE Root(f) # NoRoot
  <2>1. Sees(f) = (MembersOf(f) \union Sourced(f)) \ {f}
    BY <1>2, SourcedIsElsewhere DEF Sees, View, MembersOf, Members, SeesExtra
  <2>2. f \in MembersOf(f)
    BY <1>2 DEF MembersOf, Members
  <2>3. (UNION {Exports(g) : g \in Sees(f)}) \ Exports(f)
          = ((UNION {Exports(g) : g \in MembersOf(f)})
             \union UNION {Exports(g) : g \in Sourced(f)}) \ Exports(f)
    BY <2>1
  <2> QED
    BY <2>3 DEF Visible, Layered, SharedExports, OwnNames
<1> QED
  BY <1>1, <1>2

\* Names read by others, layered and pairwise.
LEMMA ReadByOthersIsPairwise ==
  ASSUME TypeOK, NEW f \in Analysed
  PROVE  ReadByOthers(f) = UNION {Reads(g) : g \in SeenBy(f)}
<1>1. CASE Root(f) = NoRoot
  <2>1. SeenBy(f) = {h \in Analysed : f \in Sourced(h)}
    <3>1. SeenBy(f) = SeenByExtra(f) \ {f}
      BY <1>1 DEF SeenBy, View, MembersOf
    <3>2. \A h \in Analysed : f \in SeesExtra(h) <=> f \in Sourced(h)
      BY <1>1 DEF SeesExtra
    <3>3. f \notin Sourced(f)
      BY SourcedIsElsewhere
    <3> QED
      BY <3>1, <3>2, <3>3 DEF SeenByExtra
  <2> QED
    BY <1>1, <2>1 DEF ReadByOthers, Layered, ReadBySourcing, MembersOf
<1>2. CASE Root(f) # NoRoot
  <2>0. f \in MembersOf(f) /\ MembersOf(f) \subseteq Analysed
    BY <1>2 DEF MembersOf, Members
  <2>1. ReadByOthers(f) = ((UNION {Reads(g) : g \in MembersOf(f)}) \union ReadBySourcing(f))
                            \ OnlyReadHere(f)
    BY <1>2 DEF ReadByOthers, Layered
  <2>2. ASSUME NEW name \in ReadByOthers(f), name \in ReadBySourcing(f)
        PROVE  \E g \in SeenBy(f) : name \in Reads(g)
    <3>1. PICK h \in Analysed : f \in Sourced(h) /\ name \in Reads(h)
      BY <2>2 DEF ReadBySourcing
    <3>2. h # f
      BY <3>1, SourcedIsElsewhere
    <3>3. h \in MembersOf(f) \/ h \in SeenByExtra(f)
      BY <1>2, <3>1 DEF MembersOf, Members, SeenByExtra, SeesExtra
    <3> QED
      BY <3>1, <3>2, <3>3 DEF SeenBy, View
  <2>3. ASSUME NEW name \in ReadByOthers(f), name \notin ReadBySourcing(f)
        PROVE  \E g \in SeenBy(f) : name \in Reads(g)
    <3>1. PICK g \in MembersOf(f) : name \in Reads(g)
      BY <2>1, <2>3
    <3>2. CASE g # f
      BY <3>1, <3>2 DEF SeenBy, View
    <3>3. CASE g = f
      <4>1. Cardinality(Readers(f, name)) # 1
        BY <2>1, <2>3, <3>1, <3>3 DEF OnlyReadHere
      <4>2. f \in Readers(f, name)
        BY <2>0, <3>1, <3>3 DEF Readers
      <4>3. PICK h \in Readers(f, name) : h # f
        BY <4>1, <4>2, OneReader
      <4> QED
        BY <4>3 DEF Readers, SeenBy, View
    <3> QED
      BY <3>2, <3>3
  <2>4. ASSUME NEW g \in SeenBy(f), NEW name \in Reads(g)
        PROVE  name \in ReadByOthers(f)
    <3>1. g # f /\ (g \in MembersOf(f) \/ g \in SeenByExtra(f))
      BY DEF SeenBy, View
    <3>2. CASE g \in SeenByExtra(f)
      <4>1. name \in ReadBySourcing(f)
        BY <3>2 DEF SeenByExtra, SeesExtra, ReadBySourcing
      <4> QED
        BY <2>1, <4>1 DEF OnlyReadHere
    <3>3. CASE g \in MembersOf(f)
      <4>1. ASSUME name \in OnlyReadHere(f) PROVE FALSE
        <5>1. name \in Reads(f) /\ Cardinality(Readers(f, name)) = 1
          BY <4>1 DEF OnlyReadHere
        <5>2. f \in Readers(f, name) /\ g \in Readers(f, name)
          BY <2>0, <3>3, <5>1 DEF Readers
        <5> QED
          BY <3>1, <5>1, <5>2, OneReader
      <4> QED
        BY <2>1, <3>3, <4>1
    <3> QED
      BY <3>1, <3>2, <3>3
  <2> QED
    BY <2>2, <2>3, <2>4
<1> QED
  BY <1>1, <1>2

\* The collapse of a package's clique into shared layers loses and adds nothing:
\* whatever files join, leave or change their imports, a file's visible names and
\* the names of it others read are those of the relation between single files.
THEOREM LayersHoldTheClique == Spec => []LayersArePairwise
<1>1. TypeOK => LayersArePairwise
  BY VisibleIsPairwise, ReadByOthersIsPairwise DEF LayersArePairwise
<1> QED
  BY <1>1, ScopeTypes, PTL

\* The length of a view, for an extra set that is finite and disjoint from the
\* members and the file.
LEMMA ViewLength ==
  ASSUME TypeOK, NEW f \in Analysed, NEW extra, extra \subseteq Analysed \ {f},
         extra \intersect MembersOf(f) = {}
  PROVE  ViewLen(f, extra) = Cardinality(View(f, extra))
<1> DEFINE M == MembersOf(f)
           R == M \ {f}
<1>1. M \subseteq Analysed
  BY DEF MembersOf, Members
<1>2. IsFiniteSet(M) /\ IsFiniteSet(extra)
  BY <1>1, AnalysedIsFinite
<1>3. /\ IsFiniteSet(R)
      /\ Cardinality(R) = IF f \in M THEN Cardinality(M) - 1 ELSE Cardinality(M)
  BY <1>2, FS_RemoveElement
<1>4. R \intersect extra = {} /\ View(f, extra) = R \union extra
  BY DEF View
<1>5. Cardinality(R \intersect extra) = 0
  BY <1>4, FS_EmptySet
<1>6. Cardinality(R \union extra)
        = Cardinality(R) + Cardinality(extra) - Cardinality(R \intersect extra)
  BY <1>2, <1>3, FS_Union
<1>7. Cardinality(M) \in Nat /\ Cardinality(extra) \in Nat
  BY <1>2, FS_CardinalityType
<1>8. Cardinality(View(f, extra)) = Cardinality(R) + Cardinality(extra)
  <2> HIDE DEF R, M
  <2>1. Cardinality(R) \in Nat
    BY <1>3, FS_CardinalityType
  <2> QED
    BY <1>4, <1>5, <1>6, <1>7, <2>1
<1> QED
  <2>1. ViewLen(f, extra) = Cardinality(M) - (IF f \in M THEN 1 ELSE 0) + Cardinality(extra)
    BY DEF ViewLen
  <2> HIDE DEF M, R
  <2> QED
    BY <1>3, <1>7, <1>8, <2>1

\* Seeing and being seen agree between any two files, and no view counts a file
\* twice.
THEOREM SeeingIsBeingSeen == Spec => []ViewsAgree
<1>1. ASSUME TypeOK, NEW f \in Analysed, NEW g \in Analysed
      PROVE  f \in Sees(g) <=> g \in SeenBy(f)
  <2>1. f \in MembersOf(g) <=> g \in MembersOf(f)
    BY DEF MembersOf, Members
  <2>2. f \in SeesExtra(g) <=> g \in SeenByExtra(f)
    BY DEF SeenByExtra
  <2> QED
    BY <2>1, <2>2 DEF Sees, SeenBy, View
<1>2. ASSUME TypeOK, NEW f \in Analysed
      PROVE  ViewLen(f, SeesExtra(f)) = Cardinality(Sees(f))
  <2>1. SeesExtra(f) \subseteq Analysed \ {f}
    BY SourcedIsElsewhere DEF SeesExtra
  <2>2. SeesExtra(f) \intersect MembersOf(f) = {}
    BY DEF SeesExtra, MembersOf, Members
  <2> QED
    BY <1>2, <2>1, <2>2, ViewLength DEF Sees
<1>3. ASSUME TypeOK, NEW f \in Analysed
      PROVE  ViewLen(f, SeenByExtra(f)) = Cardinality(SeenBy(f))
  <2>1. SeenByExtra(f) \subseteq Analysed \ {f}
    BY SourcedIsElsewhere DEF SeenByExtra, SeesExtra
  <2>2. SeenByExtra(f) \intersect MembersOf(f) = {}
    BY DEF SeenByExtra, SeesExtra, MembersOf, Members
  <2> QED
    BY <1>3, <2>1, <2>2, ViewLength DEF SeenBy
<1>4. TypeOK => ViewsAgree
  BY <1>1, <1>2, <1>3 DEF ViewsAgree
<1> QED
  BY <1>4, ScopeTypes, PTL

--------------------------------------------------------------------------------
(* Recursion over a range of numbers.                                      *)

\* The order of the naturals is well founded.
LEMMA LeastNatural ==
  ASSUME NEW T, T \subseteq Nat, T # {}
  PROVE  \E x \in T : \A y \in T : x <= y
<1>1. PICK x \in T : \A y \in T : <<y, x>> \notin OpToRel(<, Nat)
  BY NatLessThanWellFounded, WFMin
<1>2. \A y \in T : ~ (y < x)
  BY <1>1 DEF OpToRel
<1> QED BY <1>2

\* Induction, for a set of numbers that starts at 0.
LEMMA CountUp ==
  ASSUME NEW L \in Nat, NEW G, 0 \in G, \A k \in 0 .. L : k < L /\ k \in G => k + 1 \in G
  PROVE  \A n \in 0 .. L : n \in G
<1> DEFINE T == {k \in Nat : k \in 0 .. L /\ k \notin G}
<1> SUFFICES ASSUME T # {} PROVE FALSE
  OBVIOUS
<1>1. PICK m \in T : \A y \in T : m <= y
  <2>1. T \subseteq Nat
    OBVIOUS
  <2> HIDE DEF T
  <2> QED BY <2>1, LeastNatural
<1>2. m # 0 /\ m - 1 \in Nat /\ m - 1 \in 0 .. L /\ m - 1 < L
  BY <1>1
<1>3. m - 1 \in G
  BY <1>1, <1>2
<1>4. (m - 1) + 1 \in G
  BY <1>2, <1>3
<1> QED BY <1>1, <1>4

\* h goes from b through S, one step for each number.
Stepping(h, S, b, L, step) ==
  /\ h \in [0 .. L -> S]
  /\ h[0] = b /\ \A i \in 0 .. L : i # 0 => h[i] = step[i][h[i - 1]]

\* A function that each number gives from the one before exists.
LEMMA StepsExist ==
  ASSUME NEW S, NEW b \in S, NEW L \in Nat, NEW step \in [1 .. L -> [S -> S]]
  PROVE  \E h : Stepping(h, S, b, L, step)
<1> DEFINE IsPart(g, k) ==
      /\ g \in [0 .. k -> S] /\ g[0] = b
      /\ \A i \in 0 .. k : i # 0 => g[i] = step[i][g[i - 1]]
<1> DEFINE G == {k \in 0 .. L : \E g : IsPart(g, k)}
<1>1. 0 \in G
  <2>1. PICK g : g = [i \in 0 .. 0 |-> b]
    OBVIOUS
  <2>2. \A i \in 0 .. 0 : i = 0 /\ g[i] = b
    BY <2>1
  <2>3. g \in [0 .. 0 -> S] /\ g[0] = b
    BY <2>1, <2>2
  <2>4. IsPart(g, 0)
    BY <2>2, <2>3
  <2>5. 0 \in 0 .. L
    OBVIOUS
  <2> HIDE DEF IsPart
  <2> QED BY <2>4, <2>5
<1>2. ASSUME NEW k \in 0 .. L, k < L, k \in G PROVE k + 1 \in G
  <2>1. PICK old : IsPart(old, k)
    BY <1>2
  <2>2. k + 1 \in 1 .. L /\ k + 1 \in 0 .. L /\ k \in 0 .. k
    BY <1>2
  <2>3. old[k] \in S
    BY <2>1, <2>2
  <2>4. step[k + 1][old[k]] \in S
    <3>1. step[k + 1] \in [S -> S]
      BY <2>2
    <3> QED BY <2>3, <3>1
  <2>5. PICK g : g = [i \in 0 .. k + 1 |-> IF i = k + 1 THEN step[k + 1][old[k]] ELSE old[i]]
    OBVIOUS
  <2>6. \A i \in 0 .. k + 1 : i # k + 1 => i \in 0 .. k /\ g[i] = old[i] /\ g[i] \in S
    BY <2>1, <2>5
  <2>7. g[k + 1] = step[k + 1][old[k]]
    BY <2>5
  <2>8. g \in [0 .. k + 1 -> S]
    BY <2>4, <2>5, <2>6
  <2>9. ASSUME NEW i \in 0 .. k + 1, i # 0 PROVE g[i] = step[i][g[i - 1]]
    <3>1. i - 1 \in 0 .. k + 1 /\ i - 1 # k + 1
      BY <2>9
    <3>2. g[i - 1] = old[i - 1]
      BY <2>6, <3>1
    <3>3. CASE i = k + 1
      BY <2>7, <3>2, <3>3
    <3>4. CASE i # k + 1
      <4>1. i \in 0 .. k /\ g[i] = old[i]
        BY <2>6, <3>4
      <4>2. old[i] = step[i][old[i - 1]]
        BY <2>1, <2>9, <4>1
      <4> QED BY <3>2, <4>1, <4>2
    <3> QED BY <3>3, <3>4
  <2>10. g[0] = b
    <3>1. 0 \in 0 .. k + 1 /\ 0 # k + 1
      BY <1>2
    <3> QED BY <2>1, <2>6, <3>1
  <2>11. IsPart(g, k + 1)
    BY <2>8, <2>9, <2>10
  <2> HIDE DEF IsPart
  <2> QED BY <2>2, <2>11
<1>3. L \in G
  <2> HIDE DEF G
  <2>1. L \in 0 .. L
    OBVIOUS
  <2> QED BY <1>1, <1>2, <2>1, CountUp
<1> QED BY <1>3 DEF Stepping

--------------------------------------------------------------------------------
(* The closure of a script.                                                *)

\* The text of a file is statements.
LoadTypeOK == text \in [Scripts -> Seq(Statements)]

Most == Cardinality(Scripts)

\* There are so many scripts.
LEMMA MostIsANumber == Most \in Nat
BY LoadAssumption, FS_CardinalityType DEF Most

\* The scripts a script sources itself.
SourcesOf(f) == Targets(f) \intersect Scripts

\* Every script is analysed, outside any package, and its edges are its source() calls.
LEMMA FactsAre ==
  /\ Scope!Analysed = Scripts
  /\ \A f \in Scripts : Scope!Followed(f) = SourcesOf(f) /\ Scope!Root(f) = 0
<1>1. Scope!Analysed = Scripts
  BY DEF Scope!Analysed
<1>2. ASSUME NEW f \in Scripts PROVE Scope!Followed(f) = SourcesOf(f) /\ Scope!Root(f) = 0
  <2>1. Scope!Root(f) = 0
    BY DEF Scope!Root
  <2> DEFINE edges == {[target |-> t, local |-> FALSE] : t \in Targets(f)}
  <2>2. Scope!Followed(f) = {e.target : e \in {d \in edges : ~d.local}} \intersect Scripts
    BY <1>1 DEF Scope!Followed
  <2>3. {d \in edges : ~d.local} = edges
    OBVIOUS
  <2>4. {e.target : e \in edges} = Targets(f)
    <3>1. \A t : [target |-> t, local |-> FALSE].target = t
      OBVIOUS
    <3>2. \A t \in Targets(f) : \E e \in edges : e.target = t
      BY <3>1
    <3>3. \A e \in edges : e.target \in Targets(f)
      BY <3>1
    <3> QED BY <3>2, <3>3
  <2> QED BY <2>1, <2>2, <2>3, <2>4 DEF SourcesOf
<1> QED BY <1>1, <1>2

\* FiniteSets in ProjectScope is FiniteSets here.
LEMMA ScopeMost == Scope!Cardinality(Scripts) = Most
BY DEF Scope!Cardinality, Cardinality, Most, Scope!IsFiniteSet, IsFiniteSet

\* What the recursion of Reached asks of a function.
ReachEq(r) ==
  \A n \in 0 .. Most : \A f \in Scripts :
    r[n][f] = IF n = 0 THEN {f} ELSE {f} \union UNION {r[n - 1][g] : g \in SourcesOf(f)}

\* The recursion has a solution, which Reached then is.
LEMMA ReachedIs == ReachEq(Scope!Reached)
<1> DEFINE S == [Scripts -> SUBSET Scripts]
<1> DEFINE IsReach(r) == r =
      [n \in 0..Scope!Cardinality(Scripts) |->
        [f \in Scope!Analysed |->
          IF n = 0 THEN {f} ELSE {f} \union UNION {r[n - 1][g] : g \in Scope!Followed(f)}]]
<1>0. Most \in Nat
  BY MostIsANumber
<1>1. PICK b \in S : b = [f \in Scripts |-> {f}]
  OBVIOUS
<1>2. PICK step \in [1 .. Most -> [S -> S]] :
        step = [n \in 1 .. Most |-> [r \in S |->
                 [f \in Scripts |-> {f} \union UNION {r[g] : g \in SourcesOf(f)}]]]
  <2>1. \A r \in S, f \in Scripts : {f} \union UNION {r[g] : g \in SourcesOf(f)} \in SUBSET Scripts
    BY DEF SourcesOf
  <2> QED BY <2>1
<1>h. PICK h : Stepping(h, S, b, Most, step)
  <2>1. b \in S /\ step \in [1 .. Most -> [S -> S]] /\ Most \in Nat
    BY <1>0, <1>1, <1>2
  <2> HIDE DEF S
  <2> QED BY ONLY <2>1, StepsExist
<1>3. /\ h \in [0 .. Most -> S]
      /\ h[0] = b /\ \A i \in 0 .. Most : i # 0 => h[i] = step[i][h[i - 1]]
  BY <1>h DEF Stepping
<1>4. ASSUME NEW n \in 0 .. Most, n # 0, NEW f \in Scripts
      PROVE  h[n][f] = {f} \union UNION {h[n - 1][g] : g \in SourcesOf(f)}
  <2>1. n \in 1 .. Most /\ n - 1 \in 0 .. Most
    BY <1>0, <1>4
  <2>2. h[n - 1] \in S
    BY <1>3, <2>1
  <2>3. h[n] = [g \in Scripts |-> {g} \union UNION {h[n - 1][k] : k \in SourcesOf(g)}]
    BY <1>2, <1>3, <1>4, <2>1, <2>2
  <2> QED BY <2>3
<1>5. PICK k : k = [n \in 0..Scope!Cardinality(Scripts) |->
        [f \in Scope!Analysed |->
          IF n = 0 THEN {f} ELSE {f} \union UNION {h[n - 1][g] : g \in Scope!Followed(f)}]]
  OBVIOUS
<1>6. ASSUME NEW n \in 0 .. Most PROVE k[n] = h[n]
  <2>1. k[n] = [f \in Scripts |->
          IF n = 0 THEN {f} ELSE {f} \union UNION {h[n - 1][g] : g \in Scope!Followed(f)}]
    BY <1>5, FactsAre, ScopeMost
  <2>2. h[n] \in S
    BY <1>3
  <2>3. ASSUME NEW f \in Scripts PROVE k[n][f] = h[n][f]
    <3>1. CASE n = 0
      BY <1>1, <1>3, <2>1, <3>1
    <3>2. CASE n # 0
      BY <1>4, <2>1, <3>2, FactsAre
    <3> QED BY <3>1, <3>2
  <2> QED BY <2>1, <2>2, <2>3
<1>7. k = h
  BY <1>3, <1>5, <1>6, ScopeMost
<1>8. IsReach(h)
  BY <1>5, <1>7
<1>9. Scope!Reached = CHOOSE r : IsReach(r)
  BY DEF Scope!Reached
<1>10. IsReach(Scope!Reached)
  <2> HIDE DEF IsReach
  <2> QED BY <1>8, <1>9
<1>11. ASSUME NEW r, IsReach(r) PROVE ReachEq(r)
  <2>1. ASSUME NEW n \in 0 .. Most, NEW f \in Scripts
        PROVE  r[n][f] =
                 IF n = 0 THEN {f} ELSE {f} \union UNION {r[n - 1][g] : g \in SourcesOf(f)}
    <3>1. n \in 0 .. Scope!Cardinality(Scripts) /\ f \in Scope!Analysed
      BY FactsAre, ScopeMost
    <3>2. r[n] = [g \in Scope!Analysed |-> IF n = 0 THEN {g}
                   ELSE {g} \union UNION {r[n - 1][w] : w \in Scope!Followed(g)}]
      BY <1>11, <3>1
    <3>3. r[n][f] = IF n = 0 THEN {f}
                    ELSE {f} \union UNION {r[n - 1][g] : g \in Scope!Followed(f)}
      BY <3>1, <3>2
    <3> QED BY <3>3, FactsAre
  <2> QED BY <2>1 DEF ReachEq
<1> HIDE DEF IsReach
<1> QED BY <1>10, <1>11

\* One step of the closure.
LEMMA ReachedAt ==
  ASSUME NEW r, ReachEq(r), NEW n \in 0 .. Most, n < Most, NEW f \in Scripts
  PROVE  /\ n + 1 \in 0 .. Most
         /\ r[n + 1][f] = {f} \union UNION {r[n][g] : g \in SourcesOf(f)}
<1>1. Most \in Nat
  BY MostIsANumber
<1>2. n + 1 \in 0 .. Most /\ n + 1 # 0 /\ (n + 1) - 1 = n
  BY <1>1
<1>3. \A g \in Scripts :
        r[n + 1][g] = {g} \union UNION {r[(n + 1) - 1][k] : k \in SourcesOf(g)}
  BY <1>2 DEF ReachEq
<1> QED BY <1>2, <1>3

\* Its first step.
LEMMA ReachedStart ==
  ASSUME NEW r, ReachEq(r)
  PROVE  0 \in 0 .. Most /\ \A f \in Scripts : r[0][f] = {f}
<1>1. 0 \in 0 .. Most
  BY MostIsANumber
<1> QED BY <1>1 DEF ReachEq

\* Files are reached by way of files.
LEMMA ReachedType ==
  ASSUME NEW r, ReachEq(r)
  PROVE  \A n \in 0 .. Most : \A f \in Scripts : r[n][f] \subseteq Scripts
<1> DEFINE G == {n \in 0 .. Most : \A f \in Scripts : r[n][f] \subseteq Scripts}
<1>1. 0 \in G
  BY ReachedStart
<1>2. ASSUME NEW n \in 0 .. Most, n < Most, n \in G PROVE n + 1 \in G
  <2>1. \A f \in Scripts : r[n + 1][f] = {f} \union UNION {r[n][g] : g \in SourcesOf(f)}
    BY <1>2, ReachedAt
  <2>2. \A f \in Scripts : r[n + 1][f] \subseteq Scripts
    BY <1>2, <2>1 DEF SourcesOf
  <2>3. n + 1 \in 0 .. Most
    BY <1>2, MostIsANumber
  <2> QED BY <2>2, <2>3
<1>3. \A n \in 0 .. Most : n \in G
  <2> HIDE DEF G
  <2> QED BY <1>1, <1>2, MostIsANumber, CountUp
<1> QED BY <1>3

\* What is reached in some steps is reached in one more.
LEMMA ReachedGrows ==
  ASSUME NEW r, ReachEq(r)
  PROVE  \A n \in 0 .. Most : n < Most => \A f \in Scripts : r[n][f] \subseteq r[n + 1][f]
<1> DEFINE G == {n \in 0 .. Most : n < Most => \A f \in Scripts : r[n][f] \subseteq r[n + 1][f]}
<1>1. 0 \in G
  BY ReachedStart, ReachedAt
<1>2. ASSUME NEW n \in 0 .. Most, n < Most, n \in G PROVE n + 1 \in G
  <2>1. n + 1 \in 0 .. Most
    BY <1>2, MostIsANumber
  <2>2. ASSUME n + 1 < Most, NEW f \in Scripts PROVE r[n + 1][f] \subseteq r[(n + 1) + 1][f]
    <3>1. r[n + 1][f] = {f} \union UNION {r[n][g] : g \in SourcesOf(f)}
      BY <1>2, ReachedAt
    <3>2. r[(n + 1) + 1][f] = {f} \union UNION {r[n + 1][g] : g \in SourcesOf(f)}
      BY <2>1, <2>2, ReachedAt
    <3>3. \A g \in SourcesOf(f) : r[n][g] \subseteq r[n + 1][g]
      BY <1>2 DEF SourcesOf
    <3> QED BY <3>1, <3>2, <3>3
  <2> QED BY <2>1, <2>2
<1>3. \A n \in 0 .. Most : n \in G
  <2> HIDE DEF G
  <2> QED BY <1>1, <1>2, MostIsANumber, CountUp
<1> QED BY <1>3

\* What a reached file sources is reached in one step more.
LEMMA ReachedFollows ==
  ASSUME NEW r, ReachEq(r)
  PROVE  \A n \in 0 .. Most : n < Most =>
           \A f \in Scripts : \A g \in r[n][f] : SourcesOf(g) \subseteq r[n + 1][f]
<1> DEFINE G == {n \in 0 .. Most : n < Most =>
                   \A f \in Scripts : \A g \in r[n][f] : SourcesOf(g) \subseteq r[n + 1][f]}
<1>1. 0 \in G
  <2>1. ASSUME 0 < Most, NEW f \in Scripts, NEW g \in r[0][f] PROVE SourcesOf(g) \subseteq r[0 + 1][f]
    <3>1. g = f /\ 0 \in 0 .. Most
      BY <2>1, ReachedStart
    <3>2. r[0 + 1][f] = {f} \union UNION {r[0][k] : k \in SourcesOf(f)}
      BY <2>1, <3>1, ReachedAt
    <3>3. \A k \in SourcesOf(f) : k \in r[0][k]
      BY ReachedStart DEF SourcesOf
    <3> QED BY <3>1, <3>2, <3>3
  <2> QED BY <2>1, ReachedStart
<1>2. ASSUME NEW n \in 0 .. Most, n < Most, n \in G PROVE n + 1 \in G
  <2>1. n + 1 \in 0 .. Most
    BY <1>2, MostIsANumber
  <2>2. ASSUME n + 1 < Most, NEW f \in Scripts, NEW g \in r[n + 1][f]
        PROVE  SourcesOf(g) \subseteq r[(n + 1) + 1][f]
    <3>1. r[n + 1][f] = {f} \union UNION {r[n][k] : k \in SourcesOf(f)}
      BY <1>2, ReachedAt
    <3>2. r[(n + 1) + 1][f] = {f} \union UNION {r[n + 1][k] : k \in SourcesOf(f)}
      BY <2>1, <2>2, ReachedAt
    <3>3. \A k \in SourcesOf(f) : k \in Scripts
      BY DEF SourcesOf
    <3>4. CASE g = f
      <4>1. \A k \in SourcesOf(f) : r[0][k] = {k}
        BY <3>3, ReachedStart
      <4>2. \A k \in SourcesOf(f) : k \in r[n + 1][k]
        BY <1>2, <3>3, ReachedAt
      <4> QED BY <3>2, <3>4, <4>2
    <3>5. CASE g # f
      <4>1. PICK k \in SourcesOf(f) : g \in r[n][k]
        BY <2>2, <3>1, <3>5
      <4>2. SourcesOf(g) \subseteq r[n + 1][k]
        BY <1>2, <3>3, <4>1
      <4> QED BY <3>2, <4>1, <4>2
    <3> QED BY <3>4, <3>5
  <2> QED BY <2>1, <2>2
<1>3. \A n \in 0 .. Most : n \in G
  <2> HIDE DEF G
  <2> QED BY <1>1, <1>2, MostIsANumber, CountUp
<1> QED BY <1>3

\* A set of files that sources nothing else.
IsClosed(C) == C \subseteq Scripts /\ \A g \in C : SourcesOf(g) \subseteq C

\* No closed set is left.
LEMMA ReachedWithin ==
  ASSUME NEW r, ReachEq(r), NEW C, IsClosed(C)
  PROVE  \A n \in 0 .. Most : \A f \in C : r[n][f] \subseteq C
<1> DEFINE G == {n \in 0 .. Most : \A f \in C : r[n][f] \subseteq C}
<1>1. 0 \in G
  BY ReachedStart DEF IsClosed
<1>2. ASSUME NEW n \in 0 .. Most, n < Most, n \in G PROVE n + 1 \in G
  <2>1. \A f \in Scripts : r[n + 1][f] = {f} \union UNION {r[n][g] : g \in SourcesOf(f)}
    BY <1>2, ReachedAt
  <2>2. \A f \in C : r[n + 1][f] \subseteq C
    BY <1>2, <2>1 DEF IsClosed
  <2>3. n + 1 \in 0 .. Most
    BY <1>2, MostIsANumber
  <2> QED BY <2>2, <2>3
<1>3. \A n \in 0 .. Most : n \in G
  <2> HIDE DEF G
  <2> QED BY <1>1, <1>2, MostIsANumber, CountUp
<1> QED BY <1>3

\* While what is reached is not closed, each step adds a file.
LEMMA ReachedCloses ==
  ASSUME NEW r, ReachEq(r), NEW f \in Scripts
  PROVE  IsClosed(r[Most][f])
<1> DEFINE G == {n \in 0 .. Most :
                   \/ IsClosed(r[n][f])
                   \/ Cardinality(r[n][f]) >= n + 1}
<1>1. \A n \in 0 .. Most :
        r[n][f] \subseteq Scripts /\ IsFiniteSet(r[n][f]) /\ Cardinality(r[n][f]) \in Nat
  BY ReachedType, LoadAssumption, FS_Subset, FS_CardinalityType
<1>2. 0 \in G
  <2>1. 0 \in 0 .. Most /\ r[0][f] = {f}
    BY ReachedStart
  <2>2. Cardinality(r[0][f]) = 1
    BY <2>1, FS_Singleton
  <2> QED BY <2>1, <2>2
<1>3. ASSUME NEW n \in 0 .. Most, n < Most, n \in G PROVE n + 1 \in G
  <2>1. n + 1 \in 0 .. Most
    BY <1>3, MostIsANumber
  <2>2. r[n][f] \subseteq r[n + 1][f]
    BY <1>3, ReachedGrows
  <2>3. CASE IsClosed(r[n][f])
    <3>1. f \in r[n][f]
      <4>1. 0 \in 0 .. Most /\ (n = 0 => r[n][f] = {f})
        BY ReachedStart
      <4>2. CASE n # 0
        BY <4>2 DEF ReachEq
      <4> QED BY <4>1, <4>2
    <3>2. r[n + 1][f] \subseteq r[n][f]
      BY <2>1, <2>3, <3>1, ReachedWithin
    <3>3. r[n + 1][f] = r[n][f]
      BY <2>2, <3>2
    <3> QED BY <2>1, <2>3, <3>3
  <2>4. CASE ~IsClosed(r[n][f])
    <3>1. PICK g \in r[n][f] : ~(SourcesOf(g) \subseteq r[n][f])
      BY <1>1, <2>4 DEF IsClosed
    <3>2. SourcesOf(g) \subseteq r[n + 1][f]
      BY <1>3, <3>1, ReachedFollows
    <3>3. r[n + 1][f] # r[n][f]
      BY <3>1, <3>2
    <3>4. Cardinality(r[n][f]) < Cardinality(r[n + 1][f])
      <4>1. IsFiniteSet(r[n + 1][f])
        BY <1>1, <2>1
      <4>2. /\ Cardinality(r[n][f]) <= Cardinality(r[n + 1][f])
            /\ Cardinality(r[n][f]) = Cardinality(r[n + 1][f]) => r[n + 1][f] = r[n][f]
        BY <2>2, <4>1, FS_Subset
      <4>3. Cardinality(r[n][f]) \in Nat /\ Cardinality(r[n + 1][f]) \in Nat
        BY <1>1, <2>1
      <4> HIDE DEF G
      <4> QED BY <3>3, <4>2, <4>3
    <3>5. Cardinality(r[n][f]) >= n + 1
      BY <1>3, <2>4
    <3>6. Cardinality(r[n + 1][f]) >= (n + 1) + 1
      <4>1. Cardinality(r[n][f]) \in Nat /\ Cardinality(r[n + 1][f]) \in Nat
        BY <1>1, <2>1
      <4> HIDE DEF G
      <4> QED BY <3>4, <3>5, <4>1
    <3> QED BY <2>1, <3>6
  <2> QED BY <2>3, <2>4
<1>4. Most \in 0 .. Most
  BY MostIsANumber
<1>5. Most \in G
  <2> HIDE DEF G
  <2> QED BY <1>2, <1>3, <1>4, MostIsANumber, CountUp
<1>6. Cardinality(r[Most][f]) <= Most
  BY <1>1, <1>4, LoadAssumption, FS_Subset DEF Most
<1> QED BY <1>1, <1>4, <1>5, <1>6, MostIsANumber

\* What a script runs is the least closed set around it.
LEMMA LoadedIsLeast ==
  ASSUME NEW f \in Scripts
  PROVE  /\ f \in Loaded(f) /\ IsClosed(Loaded(f))
         /\ \A C : IsClosed(C) /\ f \in C => Loaded(f) \subseteq C
<1>1. PICK r : r = Scope!Reached /\ ReachEq(r)
  BY ReachedIs
<1>2. Most \in 0 .. Most
  BY MostIsANumber
<1>3. r[Most][f] \subseteq Scripts
  BY <1>1, <1>2, ReachedType
<1>4. f \in r[Most][f]
  <2>1. r[Most][f] = IF Most = 0 THEN {f}
                     ELSE {f} \union UNION {r[Most - 1][g] : g \in SourcesOf(f)}
    BY <1>1, <1>2 DEF ReachEq
  <2> QED BY <2>1
<1>5. Loaded(f) = r[Most][f]
  BY <1>1, <1>3, <1>4, FactsAre, ScopeMost DEF Loaded, Scope!Sourced
<1> QED BY <1>1, <1>2, <1>4, <1>5, ReachedCloses, ReachedWithin

\* So it is the file itself and what the files it sources run.
LEMMA LoadedSplits ==
  ASSUME NEW f \in Scripts
  PROVE  /\ Loaded(f) \subseteq Scripts
         /\ Loaded(f) = {f} \union UNION {Loaded(t) : t \in SourcesOf(f)}
<1>1. \A t \in SourcesOf(f) : t \in Scripts
  BY DEF SourcesOf
<1>2. \A t \in SourcesOf(f) : Loaded(t) \subseteq Loaded(f)
  <2>1. \A t \in SourcesOf(f) : t \in Loaded(f)
    BY LoadedIsLeast DEF IsClosed
  <2> QED BY <1>1, <2>1, LoadedIsLeast
<1> DEFINE C == {f} \union UNION {Loaded(t) : t \in SourcesOf(f)}
<1>3. IsClosed(C)
  <2>1. C \subseteq Scripts
    BY <1>1, LoadedIsLeast DEF IsClosed
  <2>2. \A t \in SourcesOf(f) : t \in C
    BY <1>1, LoadedIsLeast
  <2>3. ASSUME NEW t \in SourcesOf(f), NEW g \in Loaded(t) PROVE SourcesOf(g) \subseteq C
    BY <1>1, <2>3, LoadedIsLeast DEF IsClosed
  <2>4. \A g \in C : SourcesOf(g) \subseteq C
    BY <2>2, <2>3
  <2> QED BY <2>1, <2>4 DEF IsClosed
<1>4. Loaded(f) \subseteq C
  <2>1. f \in C
    OBVIOUS
  <2> HIDE DEF C
  <2> QED BY <1>3, <2>1, LoadedIsLeast
<1>5. Loaded(f) \subseteq Scripts /\ f \in Loaded(f)
  BY LoadedIsLeast DEF IsClosed
<1> QED BY <1>2, <1>4, <1>5
--------------------------------------------------------------------------------
(* Statements, and the states of the two ways through them.                *)

\* What a statement is.
LEMMA StatementsAre ==
  ASSUME LoadTypeOK, NEW f \in Scripts
  PROVE  /\ Len(text[f]) \in Nat /\ DOMAIN text[f] = 1 .. Len(text[f])
         /\ \A i \in 1 .. Len(text[f]) :
              /\ text[f][i].kind \in {"define", "read", "body", "source"}
              /\ text[f][i].kind = "source" =>
                   text[f][i].target \in Scripts \union {Unknown, Computed}
<1>1. text[f] \in Seq(Statements)
  BY DEF LoadTypeOK
<1>2. \A i \in 1 .. Len(text[f]) : text[f][i] \in Statements
  BY <1>1
<1>3. \A e \in Statements :
        /\ e.kind \in {"define", "read", "body", "source"}
        /\ e.kind = "source" => e.target \in Scripts \union {Unknown, Computed}
  BY DEF Statements, Define, Read, Body, Source
<1> QED BY <1>1, <1>2, <1>3

\* Which statements the replay does not pass over.
LEMMA EventsAre ==
  ASSUME LoadTypeOK, NEW f \in Scripts, NEW i \in 1 .. Len(text[f])
  PROVE  i \in Events(f) <=>
           \/ text[f][i].kind \in {"define", "source"}
           \/ text[f][i].kind = "read" /\ ~Defines(f)
<1>1. i \in DOMAIN text[f]
  BY StatementsAre
<1>2. \A kinds : i \in Sites(f, kinds) <=> text[f][i].kind \in kinds
  BY <1>1 DEF Sites
<1>3. i \in FreeReads(f) <=> ~Defines(f) /\ text[f][i].kind \in {"read", "body"}
  BY <1>2 DEF FreeReads
<1> QED BY <1>2, <1>3 DEF Events

\* A source() call names a target.
LEMMA TargetsAre ==
  ASSUME LoadTypeOK, NEW f \in Scripts, NEW i \in 1 .. Len(text[f]),
         text[f][i].kind = "source"
  PROVE  text[f][i].target \in Targets(f)
<1>1. i \in Sites(f, {"source"})
  BY StatementsAre DEF Sites
<1> QED BY <1>1 DEF Targets

ReplayState ==
  [live : SUBSET Scripts, ambiguous : BOOLEAN, poisoned : BOOLEAN,
   sites : SUBSET [site : Nat, binds : Lives]]

RunState == [live : Lives, met : SUBSET (Scripts \X Nat \X Lives), ended : BOOLEAN]

Runs == [Scripts -> [Lives -> RunState]]

\* Definers are scripts.
LEMMA ClosureDefinersType == \A t : ClosureDefiners(t) \subseteq Scripts
BY FactsAre DEF ClosureDefiners, Scope!Sourced

\* A step of the replay.
LEMMA ReplayStepType ==
  ASSUME LoadTypeOK, NEW f \in Scripts, NEW i \in 1 .. Len(text[f]), NEW s \in ReplayState
  PROVE  ReplayStep(f, s, i) \in ReplayState
<1>1. i \in Nat
  BY StatementsAre
<1>2. Site(s) \in Lives
  BY DEF Site, ReplayState, Lives
<1>3. CASE i \notin Events(f)
  BY <1>3 DEF ReplayStep
<1>4. CASE i \in Events(f) /\ text[f][i].kind = "define"
  BY <1>4 DEF ReplayStep, ReplayState
<1>5. CASE i \in Events(f) /\ text[f][i].kind = "source"
  <2>1. ReplayStep(f, s, i) = ReplaySource(s, text[f][i].target)
    BY <1>5 DEF ReplayStep
  <2>2. PICK D \in SUBSET Scripts : D = ClosureDefiners(text[f][i].target)
    BY ClosureDefinersType
  <2>3. ReplaySource(s, text[f][i].target) \in
          {s, [s EXCEPT !.poisoned = TRUE], [s EXCEPT !.live = D, !.ambiguous = FALSE],
           [s EXCEPT !.ambiguous = TRUE]}
    BY <2>2 DEF ReplaySource
  <2>4. [s EXCEPT !.poisoned = TRUE] \in ReplayState
    BY DEF ReplayState
  <2>5. [s EXCEPT !.live = D, !.ambiguous = FALSE] \in ReplayState
    BY DEF ReplayState
  <2>6. [s EXCEPT !.ambiguous = TRUE] \in ReplayState
    BY DEF ReplayState
  <2> QED BY <2>1, <2>3, <2>4, <2>5, <2>6
<1>6. CASE i \in Events(f) /\ text[f][i].kind = "read"
  <2>1. ReplayStep(f, s, i) =
          [s EXCEPT !.sites = @ \union {[site |-> i, binds |-> Site(s)]}]
    BY <1>6 DEF ReplayStep
  <2>2. [site |-> i, binds |-> Site(s)] \in [site : Nat, binds : Lives]
    BY <1>1, <1>2
  <2> QED BY <2>1, <2>2 DEF ReplayState
<1> QED BY <1>3, <1>4, <1>5, <1>6, EventsAre

\* A statement run.
LEMMA ExecuteType ==
  ASSUME LoadTypeOK, NEW f \in Scripts, NEW i \in 1 .. Len(text[f]), NEW s \in RunState,
         NEW runs \in Runs
  PROVE  Execute(f, s, i, runs) \in RunState
<1>1. i \in Nat /\ f \in Lives /\ Unknown \in Lives
  BY StatementsAre DEF Lives
<1>2. CASE ~s.ended \/ text[f][i].kind = "body"
  BY <1>2 DEF Execute
<1>3. CASE s.ended /\ text[f][i].kind = "define"
  BY <1>1, <1>3 DEF Execute, RunState
<1>4. CASE s.ended /\ text[f][i].kind = "read"
  <2>1. Execute(f, s, i, runs) = [s EXCEPT !.met = @ \union {<<f, i, s.live>>}]
    BY <1>4 DEF Execute
  <2> QED BY <1>1, <2>1 DEF RunState
<1>5. CASE s.ended /\ text[f][i].kind = "source" /\ text[f][i].target \notin Scripts
  BY <1>1, <1>5 DEF Execute, RunState
<1>6. CASE s.ended /\ text[f][i].kind = "source" /\ text[f][i].target \in Scripts
  <2>1. PICK inner \in RunState : inner = runs[text[f][i].target][s.live]
    BY <1>6 DEF Runs, RunState
  <2>2. Execute(f, s, i, runs) = [inner EXCEPT !.met = @ \union s.met]
    BY <1>6, <2>1 DEF Execute
  <2> QED BY <2>2 DEF RunState
<1> QED BY <1>2, <1>3, <1>4, <1>5, <1>6, StatementsAre
--------------------------------------------------------------------------------
(* The recursions have solutions, which the definitions then are.          *)

\* The replay goes from Fresh, statement by statement.
LEMMA ReplayedIs ==
  ASSUME LoadTypeOK, NEW f \in Scripts
  PROVE  /\ Replayed(f) \in [0 .. Len(text[f]) -> ReplayState]
         /\ Replayed(f)[0] = Fresh
         /\ \A i \in 1 .. Len(text[f]) :
              Replayed(f)[i] = ReplayStep(f, Replayed(f)[i - 1], i)
<1> DEFINE L == Len(text[f])
<1> DEFINE IsAfter(a) ==
      a = [i \in 0..L |-> IF i = 0 THEN Fresh ELSE ReplayStep(f, a[i - 1], i)]
<1>0. L \in Nat /\ \A i \in 0 .. L : i # 0 => i \in 1 .. L /\ i - 1 \in 0 .. L
  BY StatementsAre
<1>1. PICK b \in ReplayState : b = Fresh
  BY DEF Fresh, ReplayState
<1>2. PICK step \in [1 .. L -> [ReplayState -> ReplayState]] :
        step = [i \in 1 .. L |-> [s \in ReplayState |-> ReplayStep(f, s, i)]]
  <2>1. \A i \in 1 .. L, s \in ReplayState : ReplayStep(f, s, i) \in ReplayState
    BY ReplayStepType
  <2> HIDE DEF L
  <2> QED BY <2>1
<1>h. PICK h : Stepping(h, ReplayState, b, L, step)
  <2>1. b \in ReplayState /\ step \in [1 .. L -> [ReplayState -> ReplayState]] /\ L \in Nat
    BY <1>0, <1>1, <1>2
  <2> HIDE DEF L
  <2> QED BY ONLY <2>1, StepsExist
<1>3. /\ h \in [0 .. L -> ReplayState]
      /\ h[0] = b /\ \A i \in 0 .. L : i # 0 => h[i] = step[i][h[i - 1]]
  BY <1>h DEF Stepping
<1>4. ASSUME NEW i \in 0 .. L PROVE h[i] = IF i = 0 THEN Fresh ELSE ReplayStep(f, h[i - 1], i)
  <2>1. CASE i # 0
    <3>1. h[i - 1] \in ReplayState /\ i \in 1 .. L
      BY <1>0, <1>3, <2>1
    <3>2. step[i][h[i - 1]] = ReplayStep(f, h[i - 1], i)
      <4> HIDE DEF L
      <4> QED BY <1>2, <3>1
    <3> QED BY <1>3, <2>1, <3>2
  <2> QED BY <1>1, <1>3, <2>1
<1>5. IsAfter(h)
  <2>1. PICK k : k = [i \in 0..L |-> IF i = 0 THEN Fresh ELSE ReplayStep(f, h[i - 1], i)]
    OBVIOUS
  <2>2. \A i \in 0 .. L : k[i] = h[i]
    BY <1>4, <2>1
  <2>3. k = h
    BY <1>3, <2>1, <2>2
  <2> QED BY <2>1, <2>3
<1>6. Replayed(f) = CHOOSE a : IsAfter(a)
  BY DEF Replayed
<1>7. IsAfter(Replayed(f))
  <2> HIDE DEF IsAfter
  <2> QED BY <1>5, <1>6
<1>8. PICK a : a = Replayed(f) /\ IsAfter(a)
  BY <1>7
<1>9. \A i \in 0 .. L : a[i] = IF i = 0 THEN Fresh ELSE ReplayStep(f, a[i - 1], i)
  BY <1>8
<1>10. \A i \in 0 .. L : a[i] \in ReplayState
  <2> DEFINE G == {i \in 0 .. L : a[i] \in ReplayState}
  <2>1. 0 \in G
    BY <1>0, <1>1, <1>9
  <2>2. ASSUME NEW i \in 0 .. L, i < L, i \in G PROVE i + 1 \in G
    <3>1. i + 1 \in 0 .. L /\ i + 1 \in 1 .. L /\ i + 1 # 0 /\ (i + 1) - 1 = i
      <4> HIDE DEF L, G
      <4> QED BY <1>0, <2>2
    <3>2. a[i + 1] = ReplayStep(f, a[i], i + 1)
      BY <1>9, <3>1
    <3>3. a[i + 1] \in ReplayState
      BY <2>2, <3>1, <3>2, ReplayStepType
    <3> QED BY <3>1, <3>3
  <2>3. \A i \in 0 .. L : i \in G
    <3> HIDE DEF G, L
    <3> QED BY <1>0, <2>1, <2>2, CountUp
  <2> QED BY <2>3
<1>11. a \in [0 .. L -> ReplayState]
  BY <1>8, <1>10
<1> QED BY <1>0, <1>8, <1>9, <1>11

Started(live) == [live |-> live, met |-> {}, ended |-> TRUE]

\* So does a run.
LEMMA ExecutedIs ==
  ASSUME LoadTypeOK, NEW f \in Scripts, NEW live \in Lives, NEW runs \in Runs
  PROVE  /\ Executed(f, live, runs) \in [0 .. Len(text[f]) -> RunState]
         /\ Executed(f, live, runs)[0] = Started(live)
         /\ \A i \in 1 .. Len(text[f]) :
              Executed(f, live, runs)[i] = Execute(f, Executed(f, live, runs)[i - 1], i, runs)
<1> DEFINE L == Len(text[f])
<1> DEFINE IsAfter(a) ==
      a = [i \in 0..L |-> IF i = 0 THEN Started(live) ELSE Execute(f, a[i - 1], i, runs)]
<1>0. L \in Nat /\ \A i \in 0 .. L : i # 0 => i \in 1 .. L /\ i - 1 \in 0 .. L
  BY StatementsAre
<1>1. PICK b \in RunState : b = Started(live)
  BY DEF Started, RunState
<1>2. PICK step \in [1 .. L -> [RunState -> RunState]] :
        step = [i \in 1 .. L |-> [s \in RunState |-> Execute(f, s, i, runs)]]
  <2>1. \A i \in 1 .. L, s \in RunState : Execute(f, s, i, runs) \in RunState
    BY ExecuteType
  <2> HIDE DEF L
  <2> QED BY <2>1
<1>h. PICK h : Stepping(h, RunState, b, L, step)
  <2>1. b \in RunState /\ step \in [1 .. L -> [RunState -> RunState]] /\ L \in Nat
    BY <1>0, <1>1, <1>2
  <2> HIDE DEF L
  <2> QED BY ONLY <2>1, StepsExist
<1>3. /\ h \in [0 .. L -> RunState]
      /\ h[0] = b /\ \A i \in 0 .. L : i # 0 => h[i] = step[i][h[i - 1]]
  BY <1>h DEF Stepping
<1>4. ASSUME NEW i \in 0 .. L
      PROVE  h[i] = IF i = 0 THEN Started(live) ELSE Execute(f, h[i - 1], i, runs)
  <2>1. CASE i # 0
    <3>1. h[i - 1] \in RunState /\ i \in 1 .. L
      BY <1>0, <1>3, <2>1
    <3>2. step[i][h[i - 1]] = Execute(f, h[i - 1], i, runs)
      <4> HIDE DEF L
      <4> QED BY <1>2, <3>1
    <3> QED BY <1>3, <2>1, <3>2
  <2> QED BY <1>1, <1>3, <2>1
<1>5. IsAfter(h)
  <2>1. PICK k : k = [i \in 0..L |-> IF i = 0 THEN Started(live) ELSE Execute(f, h[i - 1], i, runs)]
    OBVIOUS
  <2>2. \A i \in 0 .. L : k[i] = h[i]
    BY <1>4, <2>1
  <2>3. k = h
    BY <1>3, <2>1, <2>2
  <2> QED BY <2>1, <2>3
<1>6. Executed(f, live, runs) = CHOOSE a : IsAfter(a)
  BY DEF Executed, Started
<1>7. IsAfter(Executed(f, live, runs))
  <2> HIDE DEF IsAfter
  <2> QED BY <1>5, <1>6
<1>8. PICK a : a = Executed(f, live, runs) /\ IsAfter(a)
  BY <1>7
<1>9. \A i \in 0 .. L : a[i] = IF i = 0 THEN Started(live) ELSE Execute(f, a[i - 1], i, runs)
  BY <1>8
<1>10. \A i \in 0 .. L : a[i] \in RunState
  <2> DEFINE G == {i \in 0 .. L : a[i] \in RunState}
  <2>1. 0 \in G
    BY <1>0, <1>1, <1>9
  <2>2. ASSUME NEW i \in 0 .. L, i < L, i \in G PROVE i + 1 \in G
    <3>1. i + 1 \in 0 .. L /\ i + 1 \in 1 .. L /\ i + 1 # 0 /\ (i + 1) - 1 = i
      <4> HIDE DEF L, G
      <4> QED BY <1>0, <2>2
    <3>2. a[i + 1] = Execute(f, a[i], i + 1, runs)
      BY <1>9, <3>1
    <3>3. a[i + 1] \in RunState
      BY <2>2, <3>1, <3>2, ExecuteType
    <3> QED BY <3>1, <3>3
  <2>3. \A i \in 0 .. L : i \in G
    <3> HIDE DEF G, L
    <3> QED BY <1>0, <2>1, <2>2, CountUp
  <2> QED BY <2>3
<1>11. a \in [0 .. L -> RunState]
  BY <1>8, <1>10
<1> QED BY <1>0, <1>8, <1>9, <1>11

\* What a file does when what it sources does `runs`.
Ran(f, live, runs) == Executed(f, live, runs)[Len(text[f])]

\* And it leaves a state.
LEMMA RanType ==
  ASSUME LoadTypeOK, NEW f \in Scripts, NEW live \in Lives, NEW runs \in Runs
  PROVE  Ran(f, live, runs) \in RunState
<1>1. Len(text[f]) \in 0 .. Len(text[f])
  BY StatementsAre
<1> QED BY <1>1, ExecutedIs DEF Ran

RunEq(r) ==
  \A n \in 0 .. Most : \A f \in Scripts : \A live \in Lives :
    r[n][f][live] = IF n = 0 THEN NotEnded ELSE Ran(f, live, r[n - 1])

\* Runs, one level deeper after the other.
LEMMA RunIs ==
  ASSUME LoadTypeOK
  PROVE  RunEq(Run) /\ \A n \in 0 .. Most : Run[n] \in Runs
<1> DEFINE IsRun(r) == r =
      [n \in 0..Cardinality(Scripts) |-> [f \in Scripts |-> [live \in Lives |->
        IF n = 0 THEN NotEnded ELSE Executed(f, live, r[n - 1])[Len(text[f])]]]]
<1>0. Most \in Nat /\ \A n \in 0 .. Most : n # 0 => n \in 1 .. Most /\ n - 1 \in 0 .. Most
  BY MostIsANumber
<1>1. PICK b \in Runs : b = [f \in Scripts |-> [live \in Lives |-> NotEnded]]
  <2>1. NotEnded \in RunState
    BY DEF NotEnded, RunState, Lives
  <2> QED BY <2>1 DEF Runs
<1>2. PICK step \in [1 .. Most -> [Runs -> Runs]] :
        step = [n \in 1 .. Most |->
                 [r \in Runs |-> [f \in Scripts |-> [live \in Lives |-> Ran(f, live, r)]]]]
  <2>1. \A r \in Runs : [f \in Scripts |-> [live \in Lives |-> Ran(f, live, r)]] \in Runs
    BY RanType DEF Runs
  <2> QED BY <2>1
<1>h. PICK h : Stepping(h, Runs, b, Most, step)
  <2>1. b \in Runs /\ step \in [1 .. Most -> [Runs -> Runs]] /\ Most \in Nat
    BY <1>0, <1>1, <1>2
  <2> QED BY ONLY <2>1, StepsExist
<1>3. /\ h \in [0 .. Most -> Runs]
      /\ h[0] = b /\ \A i \in 0 .. Most : i # 0 => h[i] = step[i][h[i - 1]]
  BY <1>h DEF Stepping
<1>4. ASSUME NEW n \in 0 .. Most
      PROVE  h[n] = [f \in Scripts |-> [live \in Lives |->
               IF n = 0 THEN NotEnded ELSE Ran(f, live, h[n - 1])]]
  <2>1. CASE n = 0
    BY <1>1, <1>3, <2>1
  <2>2. CASE n # 0
    <3>1. n \in 1 .. Most /\ h[n - 1] \in Runs
      BY <1>0, <1>3, <2>2
    <3>2. step[n][h[n - 1]] = [f \in Scripts |-> [live \in Lives |-> Ran(f, live, h[n - 1])]]
      BY <1>2, <3>1
    <3> QED BY <1>3, <2>2, <3>2
  <2> QED BY <2>1, <2>2
<1>5. IsRun(h)
  <2>1. PICK k : k = [n \in 0..Most |-> [f \in Scripts |-> [live \in Lives |->
                       IF n = 0 THEN NotEnded ELSE Ran(f, live, h[n - 1])]]]
    OBVIOUS
  <2>2. \A n \in 0 .. Most : k[n] = h[n]
    BY <1>4, <2>1
  <2>3. k = h
    BY <1>3, <2>1, <2>2
  <2> QED BY <2>1, <2>3 DEF Most, Ran
<1>6. Run = CHOOSE r : IsRun(r)
  BY DEF Run
<1>7. IsRun(Run)
  <2> HIDE DEF IsRun
  <2> QED BY <1>5, <1>6
<1>8. PICK r : r = Run /\ IsRun(r)
  BY <1>7
<1>9. \A n \in 0 .. Most : r[n] = [f \in Scripts |-> [live \in Lives |->
         IF n = 0 THEN NotEnded ELSE Ran(f, live, r[n - 1])]]
  BY <1>8 DEF Most, Ran
<1>10. \A n \in 0 .. Most : r[n] \in Runs
  <2> DEFINE G == {n \in 0 .. Most : r[n] \in Runs}
  <2>1. 0 \in G
    BY <1>0, <1>1, <1>9
  <2>2. ASSUME NEW n \in 0 .. Most, n < Most, n \in G PROVE n + 1 \in G
    <3>1. n + 1 \in 0 .. Most /\ n + 1 # 0 /\ (n + 1) - 1 = n
      <4> HIDE DEF G
      <4> QED BY <1>0, <2>2
    <3>2. r[n + 1] = [f \in Scripts |-> [live \in Lives |-> Ran(f, live, r[n])]]
      BY <1>9, <3>1
    <3>3. \A f \in Scripts, live \in Lives : Ran(f, live, r[n]) \in RunState
      BY <2>2, RanType
    <3>4. r[n + 1] \in Runs
      BY <3>2, <3>3 DEF Runs
    <3> QED BY <3>1, <3>4
  <2>3. \A n \in 0 .. Most : n \in G
    <3> HIDE DEF G
    <3> QED BY <1>0, <2>1, <2>2, CountUp
  <2> QED BY <2>3
<1>11. ASSUME NEW n \in 0 .. Most, NEW f \in Scripts, NEW live \in Lives
       PROVE  r[n][f][live] = IF n = 0 THEN NotEnded ELSE Ran(f, live, r[n - 1])
  <2>1. r[n] = [g \in Scripts |-> [l \in Lives |->
                 IF n = 0 THEN NotEnded ELSE Ran(g, l, r[n - 1])]]
    BY <1>9
  <2>2. r[n][f] = [l \in Lives |-> IF n = 0 THEN NotEnded ELSE Ran(f, l, r[n - 1])]
    BY ONLY <2>1
  <2> QED BY ONLY <2>2
<1> QED BY <1>8, <1>10, <1>11 DEF RunEq
--------------------------------------------------------------------------------
(* What running a file leaves.                                             *)

\* One statement, field by field.
LEMMA ExecuteFields ==
  ASSUME LoadTypeOK, NEW f \in Scripts, NEW i \in 1 .. Len(text[f]), NEW s \in RunState,
         NEW runs \in Runs, s.ended
  PROVE  LET e == text[f][i]
             next == Execute(f, s, i, runs)
         IN /\ e.kind = "body" => next = s
            /\ e.kind = "define" => next.live = f /\ next.met = s.met /\ next.ended
            /\ e.kind = "read" =>
                 next.live = s.live /\ next.met = s.met \union {<<f, i, s.live>>} /\ next.ended
            /\ e.kind = "source" /\ e.target \in Scripts =>
                 /\ next.live = runs[e.target][s.live].live
                 /\ next.met = runs[e.target][s.live].met \union s.met
                 /\ next.ended = runs[e.target][s.live].ended
<1> DEFINE e == text[f][i]
<1> DEFINE next == Execute(f, s, i, runs)
<1>1. e.kind = "body" => next = s
  BY DEF Execute
<1>2. e.kind = "define" => next = [s EXCEPT !.live = f]
  BY DEF Execute
<1>3. e.kind = "read" => next = [s EXCEPT !.met = @ \union {<<f, i, s.live>>}]
  BY DEF Execute
<1>4. ASSUME e.kind = "source", e.target \in Scripts
      PROVE  /\ next.live = runs[e.target][s.live].live
             /\ next.met = runs[e.target][s.live].met \union s.met
             /\ next.ended = runs[e.target][s.live].ended
  <2>1. PICK inner \in RunState : inner = runs[e.target][s.live]
    BY <1>4 DEF Runs, RunState
  <2>2. next = [inner EXCEPT !.met = @ \union s.met]
    BY <1>4, <2>1 DEF Execute
  <2>3. next.live = inner.live /\ next.met = inner.met \union s.met /\ next.ended = inner.ended
    BY <2>2 DEF RunState
  <2> QED BY <2>1, <2>3
<1>5. e.kind = "define" => next.live = f /\ next.met = s.met /\ next.ended
  BY <1>2 DEF RunState
<1>6. e.kind = "read" =>
        next.live = s.live /\ next.met = s.met \union {<<f, i, s.live>>} /\ next.ended
  BY <1>3 DEF RunState
<1> QED BY <1>1, <1>4, <1>5, <1>6

\* A run that has not ended does not end.
LEMMA EndedBefore ==
  ASSUME LoadTypeOK, NEW f \in Scripts, NEW live \in Lives, NEW runs \in Runs,
         Ran(f, live, runs).ended
  PROVE  \A i \in 0 .. Len(text[f]) : Executed(f, live, runs)[i].ended
<1> DEFINE L == Len(text[f])
<1>0. L \in Nat
  BY StatementsAre
<1>1. PICK x : x = Executed(f, live, runs)
  OBVIOUS
<1> DEFINE G == {k \in 0 .. L : \A j \in 0 .. k : x[k].ended => x[j].ended}
<1>2. 0 \in G
  BY <1>0
<1>3. ASSUME NEW k \in 0 .. L, k < L, k \in G PROVE k + 1 \in G
  <2>1. k + 1 \in 1 .. L /\ k + 1 \in 0 .. L /\ (k + 1) - 1 = k
    <3> HIDE DEF G, L
    <3> QED BY <1>0, <1>3
  <2>2. x[k + 1] = Execute(f, x[k], k + 1, runs)
    BY <1>1, <2>1, ExecutedIs
  <2>3. x[k + 1].ended => x[k].ended
    BY <2>2 DEF Execute
  <2>4. \A j \in 0 .. k + 1 : j \in 0 .. k \/ j = k + 1
    BY <1>0, <1>3
  <2>5. \A j \in 0 .. k + 1 : x[k + 1].ended => x[j].ended
    BY <1>3, <2>3, <2>4
  <2> QED BY <2>1, <2>5
<1>4. \A k \in 0 .. L : k \in G
  <2> HIDE DEF G, L
  <2> QED BY <1>0, <1>2, <1>3, CountUp
<1>5. L \in G /\ x[L].ended
  BY <1>0, <1>1, <1>4 DEF Ran
<1> QED BY <1>1, <1>5

\* All that a file runs is analysed, and runs nothing else.
Known(f) == AllAnalysed(f) /\ AllStatic(f)

\* What it sources is as known.
LEMMA KnownTargets ==
  ASSUME LoadTypeOK, NEW f \in Scripts, Known(f)
  PROVE  /\ \A t \in SourcesOf(f) : t \in Scripts /\ Known(t) /\ Loaded(t) \subseteq Loaded(f)
         /\ \A i \in 1 .. Len(text[f]) :
              text[f][i].kind = "source" => text[f][i].target \in SourcesOf(f)
<1>1. \A t \in SourcesOf(f) : t \in Scripts /\ Loaded(t) \subseteq Loaded(f)
  BY LoadedSplits DEF SourcesOf
<1>2. \A t \in SourcesOf(f) : Known(t)
  BY <1>1 DEF Known, AllAnalysed, AllStatic
<1>3. Unknown \notin Targets(f) /\ Computed \notin Targets(f)
  BY LoadedIsLeast DEF Known, AllAnalysed, AllStatic
<1>4. ASSUME NEW i \in 1 .. Len(text[f]), text[f][i].kind = "source"
      PROVE  text[f][i].target \in SourcesOf(f)
  <2>1. text[f][i].target \in Targets(f)
    BY <1>4, TargetsAre
  <2>2. text[f][i].target \in Scripts \union {Unknown, Computed}
    BY <1>4, StatementsAre
  <2> QED BY <1>3, <2>1, <2>2 DEF SourcesOf
<1> QED BY <1>1, <1>2, <1>4

\* Who defines the name, among what a file runs.
LEMMA DefinersAre ==
  ASSUME NEW f \in Scripts
  PROVE  /\ ClosureDefiners(f) = {g \in Loaded(f) : Defines(g)}
         /\ Defines(f) => f \in ClosureDefiners(f)
         /\ \A t \in SourcesOf(f) : ClosureDefiners(t) \subseteq ClosureDefiners(f)
         /\ \A d \in ClosureDefiners(f) :
              (d = f /\ Defines(f)) \/ \E t \in SourcesOf(f) : d \in ClosureDefiners(t)
<1>1. \A g \in Scripts : ClosureDefiners(g) = {k \in Loaded(g) : Defines(k)}
  BY DEF ClosureDefiners, Loaded
<1>2. \A t \in SourcesOf(f) : t \in Scripts
  BY DEF SourcesOf
<1>3. Loaded(f) = {f} \union UNION {Loaded(t) : t \in SourcesOf(f)}
  BY LoadedSplits
<1> QED BY <1>1, <1>2, <1>3

\* A run of f from a live definition leaves a definer of the name if it runs
\* one, and what was live if not; and nothing else is met on the way.
Follows(s, f, live) ==
  /\ ClosureDefiners(f) = {} => s.live = live
  /\ ClosureDefiners(f) # {} => s.live \in ClosureDefiners(f)
  /\ \A m \in s.met : m[1] \in Loaded(f) /\ m[3] \in ClosureDefiners(f) \union {live}

GoodRuns(runs) ==
  \A t \in Scripts : \A l \in Lives :
    Known(t) /\ runs[t][l].ended => Follows(runs[t][l], t, l)

\* By the text, for a file whose sources do.
LEMMA RanFollows ==
  ASSUME LoadTypeOK, NEW f \in Scripts, NEW live \in Lives, NEW runs \in Runs,
         GoodRuns(runs), Known(f), Ran(f, live, runs).ended
  PROVE  Follows(Ran(f, live, runs), f, live)
<1> DEFINE L == Len(text[f])
<1> DEFINE D == ClosureDefiners(f)
<1> DEFINE Quiet(i) == \A j \in 1 .. i :
      /\ text[f][j].kind # "define"
      /\ text[f][j].kind = "source" => ClosureDefiners(text[f][j].target) = {}
<1> DEFINE Good(s, i) ==
      /\ Quiet(i) => s.live = live
      /\ ~Quiet(i) => s.live \in D
      /\ \A m \in s.met : m[1] \in Loaded(f) /\ m[3] \in D \union {live}
<1>0. L \in Nat
  BY StatementsAre
<1>1. PICK x : x = Executed(f, live, runs)
  OBVIOUS
<1>2. \A i \in 0 .. L : x[i] \in RunState /\ x[i].ended
  BY <1>1, ExecutedIs, EndedBefore
<1> DEFINE G == {i \in 0 .. L : Good(x[i], i)}
<1>3. 0 \in G
  <2>1. x[0].live = live /\ x[0].met = {}
    <3>1. x[0] = Started(live)
      BY <1>1, ExecutedIs
    <3> QED BY <3>1 DEF Started
  <2>2. Quiet(0)
    OBVIOUS
  <2>3. Good(x[0], 0)
    BY <2>1, <2>2
  <2> HIDE DEF Good
  <2> QED BY <1>0, <2>3
<1>4. ASSUME NEW k \in 0 .. L, k < L, k \in G PROVE k + 1 \in G
  <2>0. k \in Nat /\ k + 1 \in 1 .. L /\ k + 1 \in 0 .. L /\ (k + 1) - 1 = k
    <3> HIDE DEF G, L
    <3> QED BY <1>0, <1>4
  <2>1. PICK i \in 1 .. L : i = k + 1
    BY <2>0
  <2>2. PICK s \in RunState : s = x[k] /\ s.ended
    BY <1>2, <1>4
  <2>3. PICK next \in RunState : next = x[i] /\ next.ended
    BY <1>2, <2>0, <2>1
  <2>4. next = Execute(f, s, i, runs)
    BY <1>1, <2>0, <2>1, <2>2, <2>3, ExecutedIs
  <2>5. Good(s, k)
    BY <1>4, <2>2
  <2> DEFINE e == text[f][i]
  <2>6. Quiet(i) <=> Quiet(k) /\ e.kind # "define"
                     /\ (e.kind = "source" => ClosureDefiners(e.target) = {})
    <3>1. \A j \in 1 .. i : j \in 1 .. k \/ j = i
      BY <2>0, <2>1
    <3>2. \A j \in 1 .. k : j \in 1 .. i
      BY <2>0, <2>1
    <3>3. i \in 1 .. i
      BY <2>0, <2>1
    <3> QED BY <3>1, <3>2, <3>3
  <2>7. Good(next, i)
    <3> HIDE DEF Quiet, L
    <3>1. CASE e.kind = "body"
      <4>1. next = s
        BY <2>2, <2>4, <3>1, ExecuteFields DEF L
      <4> QED BY <2>5, <2>6, <3>1, <4>1
    <3>2. CASE e.kind = "define"
      <4>1. next.live = f /\ next.met = s.met
        BY <2>2, <2>4, <3>2, ExecuteFields DEF L
      <4>2. f \in D
        <5>1. i \in Sites(f, {"define"})
          BY <3>2, StatementsAre DEF L, Sites
        <5> QED BY <5>1, DefinersAre DEF Defines
      <4>3. ~Quiet(i)
        BY <2>6, <3>2
      <4> HIDE DEF e
      <4> QED BY <2>5, <4>1, <4>2, <4>3
    <3>3. CASE e.kind = "read"
      <4>1. next.live = s.live /\ next.met = s.met \union {<<f, i, s.live>>}
        BY <2>2, <2>4, <3>3, ExecuteFields DEF L
      <4>2. f \in Loaded(f)
        BY LoadedIsLeast
      <4>3. s.live \in D \union {live}
        BY <2>5
      <4>4. \A m \in next.met : m[1] \in Loaded(f) /\ m[3] \in D \union {live}
        BY <2>5, <4>1, <4>2, <4>3
      <4> QED BY <2>5, <2>6, <3>3, <4>1, <4>4
    <3>4. CASE e.kind = "source"
      <4>1. PICK t \in SourcesOf(f) : t = e.target /\ t \in Scripts /\ Known(t)
                                  /\ Loaded(t) \subseteq Loaded(f)
        BY <3>4, KnownTargets DEF L
      <4>2. PICK inner : inner = runs[t][s.live]
        OBVIOUS
      <4>3. next.live = inner.live /\ next.met = inner.met \union s.met /\ inner.ended
        <5>1. /\ next.live = runs[e.target][s.live].live
              /\ next.met = runs[e.target][s.live].met \union s.met
              /\ next.ended = runs[e.target][s.live].ended
          <6>1. e.target \in Scripts
            BY <4>1
          <6>2. i \in 1 .. Len(text[f]) /\ s \in RunState /\ s.ended
            BY <2>2 DEF L
          <6> HIDE DEF L
          <6>3. /\ Execute(f, s, i, runs).live = runs[e.target][s.live].live
                /\ Execute(f, s, i, runs).met = runs[e.target][s.live].met \union s.met
                /\ Execute(f, s, i, runs).ended = runs[e.target][s.live].ended
            BY <3>4, <6>1, <6>2, ExecuteFields
          <6> QED BY <2>4, <6>3
        <5> QED BY <2>3, <4>1, <4>2, <5>1
      <4>4. s.live \in Lives
        BY DEF RunState
      <4>5. Follows(inner, t, s.live)
        BY <4>1, <4>2, <4>3, <4>4 DEF GoodRuns
      <4>6. ClosureDefiners(t) \subseteq D
        BY DefinersAre
      <4>7. s.live \in D \union {live}
        BY <2>5
      <4>8. \A m \in next.met : m[1] \in Loaded(f) /\ m[3] \in D \union {live}
        BY <2>5, <4>1, <4>3, <4>5, <4>6, <4>7 DEF Follows
      <4>9. CASE ClosureDefiners(t) = {}
        BY <2>5, <2>6, <3>4, <4>1, <4>3, <4>5, <4>8, <4>9 DEF Follows
      <4>10. CASE ClosureDefiners(t) # {}
        BY <2>6, <3>4, <4>1, <4>3, <4>5, <4>6, <4>8, <4>10 DEF Follows
      <4> QED BY <4>9, <4>10
    <3> QED BY <3>1, <3>2, <3>3, <3>4, StatementsAre DEF L
  <2>8. Good(x[k + 1], k + 1)
    BY <2>1, <2>3, <2>7
  <2> HIDE DEF Good, L
  <2> QED BY <2>0, <2>8
<1>5. \A i \in 0 .. L : i \in G
  <2> HIDE DEF G, L
  <2> QED BY <1>0, <1>3, <1>4, CountUp
<1>6. Good(x[L], L)
  <2>1. L \in G
    <3>1. L \in 0 .. L
      BY <1>0
    <3> HIDE DEF G, L
    <3> QED BY <1>5, <3>1
  <2> HIDE DEF Good
  <2> QED BY <2>1
<1>7. Quiet(L) <=> D = {}
  <2>1. ASSUME D = {} PROVE Quiet(L)
    <3>1. ASSUME NEW j \in 1 .. L PROVE text[f][j].kind # "define"
      <4>1. SUFFICES ASSUME text[f][j].kind = "define" PROVE FALSE
        OBVIOUS
      <4>2. j \in Sites(f, {"define"})
        BY <4>1, StatementsAre DEF Sites
      <4> QED BY <2>1, <4>2, DefinersAre DEF Defines
    <3>2. ASSUME NEW j \in 1 .. L, text[f][j].kind = "source"
          PROVE  ClosureDefiners(text[f][j].target) = {}
      <4>1. text[f][j].target \in SourcesOf(f)
        BY <3>2, KnownTargets
      <4> QED BY <2>1, <4>1, DefinersAre
    <3> QED BY <3>1, <3>2
  <2>2. ASSUME D # {}, Quiet(L) PROVE FALSE
    <3>1. PICK d : d \in D
      BY <2>2
    <3>2. CASE Defines(f)
      <4>1. PICK j : j \in Sites(f, {"define"})
        BY <3>2 DEF Defines
      <4>2. j \in 1 .. L /\ text[f][j].kind = "define"
        BY <4>1, StatementsAre DEF Sites
      <4> QED BY <2>2, <4>2
    <3>3. CASE ~Defines(f)
      <4>1. PICK t \in SourcesOf(f) : d \in ClosureDefiners(t)
        BY <3>1, <3>3, DefinersAre
      <4>2. PICK j \in Sites(f, {"source"}) : text[f][j].target = t
        BY DEF SourcesOf, Targets
      <4>3. j \in 1 .. L /\ text[f][j].kind = "source"
        BY StatementsAre DEF Sites
      <4> QED BY <2>2, <4>1, <4>2, <4>3
    <3> QED BY <3>2, <3>3
  <2> QED BY <2>1, <2>2
<1>8. Ran(f, live, runs) = x[L]
  BY <1>1 DEF Ran
<1> HIDE DEF Quiet
<1> QED BY <1>6, <1>7, <1>8 DEF Follows

\* By the depth.
LEMMA RunsAreGood ==
  ASSUME LoadTypeOK
  PROVE  \A n \in 0 .. Most : GoodRuns(Run[n])
<1>0. Most \in Nat
  BY MostIsANumber
<1>1. PICK r : r = Run /\ RunEq(r) /\ \A n \in 0 .. Most : r[n] \in Runs
  BY RunIs
<1> DEFINE G == {n \in 0 .. Most : GoodRuns(r[n])}
<1>2. 0 \in G
  <2>1. 0 \in 0 .. Most
    BY <1>0
  <2>2. \A f \in Scripts : \A l \in Lives : ~r[0][f][l].ended
    BY <1>1, <2>1 DEF RunEq, NotEnded
  <2> QED BY <2>1, <2>2 DEF GoodRuns
<1>3. ASSUME NEW n \in 0 .. Most, n < Most, n \in G PROVE n + 1 \in G
  <2>1. n + 1 \in 0 .. Most /\ n + 1 # 0 /\ (n + 1) - 1 = n
    <3> HIDE DEF G
    <3> QED BY <1>0, <1>3
  <2>2. \A f \in Scripts : \A l \in Lives : r[n + 1][f][l] = Ran(f, l, r[n])
    BY <1>1, <2>1 DEF RunEq
  <2>3. r[n] \in Runs /\ GoodRuns(r[n])
    BY <1>1, <1>3
  <2>4. GoodRuns(r[n + 1])
    BY <2>2, <2>3, RanFollows DEF GoodRuns
  <2> QED BY <2>1, <2>4
<1>4. \A n \in 0 .. Most : n \in G
  <2> HIDE DEF G
  <2> QED BY <1>0, <1>2, <1>3, CountUp
<1> QED BY <1>1, <1>4
--------------------------------------------------------------------------------
(* A run that ends visits its own file once.                               *)

\* What a run that ends sources ends.
LEMMA EndedDeeper ==
  ASSUME LoadTypeOK, NEW f \in Scripts, NEW live \in Lives, NEW runs \in Runs,
         Ran(f, live, runs).ended, NEW t \in SourcesOf(f)
  PROVE  t \in Scripts /\ \E l \in Lives : runs[t][l].ended
<1> DEFINE L == Len(text[f])
<1>1. PICK x : x = Executed(f, live, runs)
  OBVIOUS
<1>2. PICK j \in Sites(f, {"source"}) : text[f][j].target = t
  BY DEF SourcesOf, Targets
<1>3. t \in Scripts
  BY DEF SourcesOf
<1>4. j \in 1 .. L /\ text[f][j].kind = "source" /\ j \in 0 .. L /\ j - 1 \in 0 .. L
  BY StatementsAre DEF Sites
<1>5. x[j].ended /\ x[j - 1].ended /\ x[j - 1] \in RunState
  <2>1. \A k \in 0 .. L : x[k] \in RunState
    BY <1>1, ExecutedIs
  <2>2. \A k \in 0 .. L : x[k].ended
    BY <1>1, EndedBefore
  <2> QED BY <1>4, <2>1, <2>2
<1>6. x[j] = Execute(f, x[j - 1], j, runs)
  BY <1>1, <1>4, ExecutedIs
<1>7. PICK s \in RunState : s = x[j - 1]
  BY <1>5
<1>8. Execute(f, s, j, runs).ended = runs[t][s.live].ended
  BY <1>2, <1>3, <1>4, <1>5, <1>7, ExecuteFields
<1>9. s.live \in Lives
  BY DEF RunState
<1> QED BY <1>3, <1>5, <1>6, <1>7, <1>8, <1>9

\* So a file that its own script sources again never ends.
LEMMA NoReturn ==
  ASSUME LoadTypeOK, NEW e \in Scripts, NEW n \in 0 .. Most, NEW live \in Lives,
         Run[n][e][live].ended
  PROVE  \A t \in SourcesOf(e) : e \notin Loaded(t)
<1> SUFFICES ASSUME NEW again \in SourcesOf(e), e \in Loaded(again) PROVE FALSE
  OBVIOUS
<1>0. Most \in Nat
  BY MostIsANumber
<1>1. PICK r : r = Run /\ RunEq(r) /\ \A k \in 0 .. Most : r[k] \in Runs
  BY RunIs
<1> DEFINE G == {k \in 0 .. Most :
                   \A g \in Scripts : \A l \in Lives : e \in Loaded(g) => ~r[k][g][l].ended}
<1>2. 0 \in G
  <2>1. 0 \in 0 .. Most
    BY <1>0
  <2>2. \A f \in Scripts : \A l \in Lives : ~r[0][f][l].ended
    BY <1>1, <2>1 DEF RunEq, NotEnded
  <2> QED BY <2>1, <2>2
<1>3. ASSUME NEW k \in 0 .. Most, k < Most, k \in G PROVE k + 1 \in G
  <2>1. k + 1 \in 0 .. Most /\ k + 1 # 0 /\ (k + 1) - 1 = k
    <3> HIDE DEF G
    <3> QED BY <1>0, <1>3
  <2>2. \A f \in Scripts : \A l \in Lives : r[k + 1][f][l] = Ran(f, l, r[k])
    BY <1>1, <2>1 DEF RunEq
  <2>3. ASSUME NEW g \in Scripts, NEW l \in Lives, e \in Loaded(g), r[k + 1][g][l].ended
        PROVE  FALSE
    <3>1. PICK t \in SourcesOf(g) : e \in Loaded(t)
      <4>1. CASE g = e
        BY <4>1
      <4>2. CASE g # e
        BY <2>3, <4>2, LoadedSplits
      <4> QED BY <4>1, <4>2
    <3>2. Ran(g, l, r[k]).ended /\ r[k] \in Runs
      BY <1>1, <2>2, <2>3
    <3>3. t \in Scripts /\ \E m \in Lives : r[k][t][m].ended
      BY <3>2, EndedDeeper
    <3> QED BY <1>3, <3>1, <3>3
  <2> QED BY <2>1, <2>3
<1>4. \A k \in 0 .. Most : k \in G
  <2> HIDE DEF G
  <2> QED BY <1>0, <1>2, <1>3, CountUp
<1>5. e \in Loaded(e)
  BY LoadedIsLeast
<1> QED BY <1>1, <1>4, <1>5

--------------------------------------------------------------------------------
(* The replay and the run of a script, statement by statement.             *)

\* After i statements of f the replay r knows what is live in the run s, or that
\* it does not; every site it has bound met what it says; and if f is run once,
\* every read of f was met at most where the replay stands.
Agree(f, r, s, i) ==
  /\ ~r.poisoned
  /\ \/ r.ambiguous
     \/ r.live = {} /\ s.live = 0
     \/ \E d \in Scripts : r.live = {d} /\ s.live = d
  /\ \A p \in r.sites :
       /\ p.site \in 1 .. i
       /\ p.binds # Unknown => <<f, p.site, p.binds>> \in s.met
  /\ (\A t \in SourcesOf(f) : f \notin Loaded(t)) =>
       \A m \in s.met : m[1] = f =>
         /\ m[2] \in 1 .. i /\ text[f][m[2]].kind = "read"
         /\ \A p \in r.sites : p.site = m[2] => p.binds \in {Unknown, m[3]}
         /\ ~Defines(f) => \E p \in r.sites : p.site = m[2]

\* What the replay says of a read in such a state.
LEMMA AgreeSite ==
  ASSUME NEW f, NEW r, NEW s, NEW i, Agree(f, r, s, i)
  PROVE  Site(r) \in {Unknown, s.live}
<1>1. CASE r.poisoned \/ r.ambiguous
  BY <1>1 DEF Site
<1>2. CASE ~r.poisoned /\ ~r.ambiguous /\ r.live = {} /\ s.live = 0
  BY <1>2 DEF Site
<1>3. ASSUME NEW d \in Scripts, ~r.poisoned, ~r.ambiguous, r.live = {d}, s.live = d
      PROVE  Site(r) = s.live
  BY <1>3 DEF Site
<1> QED BY <1>1, <1>2, <1>3 DEF Agree

\* Where the program stands one statement on.
LEMMA OneOn ==
  ASSUME NEW i \in Nat, i # 0
  PROVE  /\ \A j \in 1 .. i - 1 : j \in 1 .. i /\ j # i
         /\ i \in 1 .. i
OBVIOUS

\* One statement keeps them in agreement.
LEMMA AgreeStep ==
  ASSUME LoadTypeOK, NEW f \in Scripts, Known(f), NEW runs \in Runs, GoodRuns(runs),
         NEW i \in 1 .. Len(text[f]), NEW r \in ReplayState, NEW s \in RunState, s.ended,
         Execute(f, s, i, runs).ended, Agree(f, r, s, i - 1)
  PROVE  Agree(f, ReplayStep(f, r, i), Execute(f, s, i, runs), i)
<1> DEFINE e == text[f][i]
<1> DEFINE Once == \A t \in SourcesOf(f) : f \notin Loaded(t)
<1>0. i \in Nat /\ i # 0 /\ i \in 1 .. i /\ \A j \in 1 .. i - 1 : j \in 1 .. i /\ j # i
  <2>1. i \in Nat /\ i # 0
    BY StatementsAre
  <2> QED BY <2>1, OneOn
<1>1. PICK next \in RunState : next = Execute(f, s, i, runs) /\ next.ended
  BY ExecuteType
<1>2. PICK new \in ReplayState : new = ReplayStep(f, r, i)
  BY ReplayStepType
<1>3. CASE e.kind = "body"
  <2>1. next = s
    BY <1>1, <1>3, ExecuteFields
  <2>2. new = r
    BY <1>2, <1>3, EventsAre DEF ReplayStep
  <2> QED BY <1>0, <1>1, <1>2, <2>1, <2>2 DEF Agree
<1>4. CASE e.kind = "define"
  <2>1. next.live = f /\ next.met = s.met
    BY <1>1, <1>4, ExecuteFields
  <2>2. new = [r EXCEPT !.live = {f}, !.ambiguous = FALSE]
    BY <1>2, <1>4, EventsAre DEF ReplayStep
  <2>3. new.live = {f} /\ new.poisoned = r.poisoned /\ new.sites = r.sites
    BY <2>2 DEF ReplayState
  <2> QED BY <1>0, <1>1, <1>2, <2>1, <2>3 DEF Agree
<1>5. CASE e.kind = "read"
  <2>1. next.live = s.live /\ next.met = s.met \union {<<f, i, s.live>>}
    BY <1>1, <1>5, ExecuteFields
  <2>2. \A m \in next.met : m \in s.met \/ m = <<f, i, s.live>>
    BY <2>1
  <2>3. CASE Defines(f)
    <3>1. new = r
      BY <1>2, <1>5, <2>3, EventsAre DEF ReplayStep
    <3>2. ASSUME Once, NEW m \in next.met, m[1] = f
          PROVE  /\ m[2] \in 1 .. i /\ text[f][m[2]].kind = "read"
                 /\ \A q \in r.sites : q.site = m[2] => q.binds \in {Unknown, m[3]}
      <4>1. CASE m \in s.met
        BY <1>0, <3>2, <4>1 DEF Agree
      <4>2. CASE m = <<f, i, s.live>>
        <5>1. m[2] = i
          BY <4>2
        <5>2. \A q \in r.sites : q.site # i
          BY <1>0 DEF Agree
        <5> QED BY <1>0, <1>5, <5>1, <5>2
      <4> QED BY <2>2, <4>1, <4>2
    <3>3. \A q \in r.sites :
            /\ q.site \in 1 .. i
            /\ q.binds # Unknown => <<f, q.site, q.binds>> \in next.met
      BY <1>0, <2>1 DEF Agree
    <3>4. Agree(f, r, next, i)
      BY <2>1, <2>3, <3>2, <3>3 DEF Agree
    <3> QED BY <1>1, <1>2, <3>1, <3>4
  <2>4. CASE ~Defines(f)
    <3>1. PICK p : p = [site |-> i, binds |-> Site(r)]
      OBVIOUS
    <3>2. new = [r EXCEPT !.sites = @ \union {p}]
      BY <1>2, <1>5, <2>4, <3>1, EventsAre DEF ReplayStep
    <3>3. /\ new.live = r.live /\ new.poisoned = r.poisoned /\ new.ambiguous = r.ambiguous
          /\ new.sites = r.sites \union {p}
      BY <3>2 DEF ReplayState
    <3>4. p.site = i /\ p.binds \in {Unknown, s.live}
      BY <3>1, AgreeSite
    <3>5. ASSUME NEW q \in new.sites
          PROVE  /\ q.site \in 1 .. i
                 /\ q.binds # Unknown => <<f, q.site, q.binds>> \in next.met
      <4>1. CASE q \in r.sites
        BY <1>0, <2>1, <4>1 DEF Agree
      <4>2. CASE q = p
        BY <1>0, <2>1, <3>4, <4>2
      <4> QED BY <3>3, <4>1, <4>2
    <3>6. ASSUME Once, NEW m \in next.met, m[1] = f
          PROVE  /\ m[2] \in 1 .. i /\ text[f][m[2]].kind = "read"
                 /\ \A q \in new.sites : q.site = m[2] => q.binds \in {Unknown, m[3]}
                 /\ \E q \in new.sites : q.site = m[2]
      <4>1. CASE m \in s.met
        <5>1. /\ m[2] \in 1 .. i - 1 /\ text[f][m[2]].kind = "read"
              /\ \A q \in r.sites : q.site = m[2] => q.binds \in {Unknown, m[3]}
              /\ \E q \in r.sites : q.site = m[2]
          BY <2>4, <3>6, <4>1 DEF Agree
        <5> QED BY <1>0, <3>3, <3>4, <5>1
      <4>2. CASE m = <<f, i, s.live>>
        <5>1. m[2] = i /\ m[3] = s.live
          BY <4>2
        <5>2. \A q \in r.sites : q.site # i
          BY <1>0 DEF Agree
        <5> QED BY <1>0, <1>5, <3>3, <3>4, <5>1, <5>2
      <4> QED BY <2>2, <4>1, <4>2
    <3> HIDE DEF e
    <3>7. /\ ~new.poisoned
          /\ \/ new.ambiguous
             \/ new.live = {} /\ next.live = 0
             \/ \E d \in Scripts : new.live = {d} /\ next.live = d
      BY <2>1, <3>3 DEF Agree
    <3>8. Agree(f, new, next, i)
      BY <3>5, <3>6, <3>7 DEF Agree
    <3> QED BY <1>1, <1>2, <3>8
  <2> QED BY <2>3, <2>4
<1>6. CASE e.kind = "source"
  <2>1. PICK t \in SourcesOf(f) : t = e.target /\ t \in Scripts /\ Known(t)
    BY <1>6, KnownTargets
  <2>2. PICK inner : inner = runs[t][s.live]
    OBVIOUS
  <2>3. next.live = inner.live /\ next.met = inner.met \union s.met /\ inner.ended
    <3>1. /\ Execute(f, s, i, runs).live = runs[e.target][s.live].live
          /\ Execute(f, s, i, runs).met = runs[e.target][s.live].met \union s.met
          /\ Execute(f, s, i, runs).ended = runs[e.target][s.live].ended
      BY <1>6, <2>1, ExecuteFields
    <3> QED BY <1>1, <2>1, <2>2, <3>1
  <2>4. Follows(inner, t, s.live)
    <3>1. s.live \in Lives
      BY DEF RunState
    <3> QED BY <2>1, <2>2, <2>3, <3>1 DEF GoodRuns
  <2> DEFINE D == ClosureDefiners(t)
  <2>5. new = IF D = {} THEN r
              ELSE IF Cardinality(D) = 1 THEN [r EXCEPT !.live = D, !.ambiguous = FALSE]
              ELSE [r EXCEPT !.ambiguous = TRUE]
    <3>1. t # Computed
      BY <2>1, LoadAssumption
    <3>2. ReplayStep(f, r, i) = ReplaySource(r, t)
      BY <1>6, <2>1, EventsAre DEF ReplayStep
    <3> QED BY <1>2, <3>1, <3>2 DEF ReplaySource
  <2>6. new.sites = r.sites /\ new.poisoned = r.poisoned
    BY <2>5 DEF ReplayState
  <2>7. \/ new.ambiguous
        \/ new.live = {} /\ next.live = 0
        \/ \E d \in Scripts : new.live = {d} /\ next.live = d
    <3>1. CASE D = {}
      BY <2>3, <2>4, <2>5, <3>1 DEF Follows, Agree
    <3>2. CASE D # {} /\ Cardinality(D) = 1
      <4>1. IsFiniteSet(D) /\ D \subseteq Scripts
        BY ClosureDefinersType, LoadAssumption, FS_Subset
      <4>2. PICK d : D = {d}
        <5> HIDE DEF D
        <5> QED BY <3>2, <4>1, FS_Singleton
      <4>3. new = [r EXCEPT !.live = D, !.ambiguous = FALSE]
        BY <2>5, <3>2
      <4>4. new.live = {d}
        BY <4>2, <4>3 DEF ReplayState
      <4>5. next.live = d
        BY <2>3, <2>4, <3>2, <4>2 DEF Follows
      <4> QED BY <4>1, <4>2, <4>4, <4>5
    <3>3. CASE D # {} /\ Cardinality(D) # 1
      <4>1. new = [r EXCEPT !.ambiguous = TRUE]
        BY <2>5, <3>3
      <4> QED BY <4>1 DEF ReplayState
    <3> QED BY <3>1, <3>2, <3>3
  <2>8. \A q \in new.sites :
          /\ q.site \in 1 .. i
          /\ q.binds # Unknown => <<f, q.site, q.binds>> \in next.met
    BY <1>0, <2>3, <2>6 DEF Agree
  <2>9. ASSUME Once, NEW m \in next.met, m[1] = f
        PROVE  /\ m[2] \in 1 .. i /\ text[f][m[2]].kind = "read"
               /\ \A q \in new.sites : q.site = m[2] => q.binds \in {Unknown, m[3]}
               /\ ~Defines(f) => \E q \in new.sites : q.site = m[2]
    <3>1. m \notin inner.met
      BY <2>4, <2>9 DEF Follows
    <3>2. m \in s.met
      BY <2>3, <3>1
    <3> QED BY <1>0, <2>6, <2>9, <3>2 DEF Agree
  <2>10. ~new.poisoned
    BY <2>6 DEF Agree
  <2> HIDE DEF D, e
  <2>11. Agree(f, new, next, i)
    BY <2>7, <2>8, <2>9, <2>10 DEF Agree
  <2> QED BY <1>1, <1>2, <2>11
<1> QED BY <1>3, <1>4, <1>5, <1>6, StatementsAre

\* A script that ends is run as it was replayed.
LEMMA ScriptAgrees ==
  ASSUME LoadTypeOK, NEW f \in Scripts, Known(f), Script(f).ended
  PROVE  /\ Agree(f, Replay(f), Script(f), Len(text[f]))
         /\ Follows(Script(f), f, 0)
         /\ \A t \in SourcesOf(f) : f \notin Loaded(t)
<1> DEFINE L == Len(text[f])
<1>0. L \in Nat
  BY StatementsAre
<1>1. Most \in 0 .. Most /\ 0 \in Lives
  BY MostIsANumber DEF Lives
<1>2. Run[Most][f][0].ended /\ Script(f) = Run[Most][f][0]
  BY DEF Script, Most
<1>3. Follows(Script(f), f, 0)
  BY <1>1, <1>2, RunsAreGood DEF GoodRuns
<1>4. \A t \in SourcesOf(f) : f \notin Loaded(t)
  BY <1>1, <1>2, NoReturn
<1>5. Most # 0
  BY <1>1, <1>2, RunIs DEF RunEq, NotEnded
<1>6. Most - 1 \in 0 .. Most
  BY <1>5, MostIsANumber
<1>7. PICK runs \in Runs : runs = Run[Most - 1] /\ GoodRuns(runs)
  BY <1>6, RunIs, RunsAreGood
<1>8. Script(f) = Ran(f, 0, runs)
  BY <1>1, <1>2, <1>5, <1>7, RunIs DEF RunEq
<1>9. PICK x : x = Executed(f, 0, runs) /\ \A i \in 0 .. L : x[i] \in RunState
  BY <1>1, ExecutedIs
<1>10. \A i \in 0 .. L : x[i].ended
  BY <1>1, <1>8, <1>9, EndedBefore
<1>11. PICK y : y = Replayed(f) /\ \A i \in 0 .. L : y[i] \in ReplayState
  BY ReplayedIs
<1> DEFINE G == {i \in 0 .. L : Agree(f, y[i], x[i], i)}
<1>12. 0 \in G
  <2>1. x[0] = Started(0) /\ y[0] = Fresh
    BY <1>1, <1>9, <1>11, ExecutedIs, ReplayedIs
  <2>2. x[0].live = 0 /\ x[0].met = {}
    BY <2>1 DEF Started
  <2>3. y[0].live = {} /\ ~y[0].poisoned /\ y[0].sites = {}
    BY <2>1 DEF Fresh
  <2>4. Agree(f, y[0], x[0], 0)
    BY <2>2, <2>3 DEF Agree
  <2> QED BY <1>0, <2>4
<1>13. ASSUME NEW k \in 0 .. L, k < L, k \in G PROVE k + 1 \in G
  <2>0. k + 1 \in 1 .. L /\ k + 1 \in 0 .. L /\ (k + 1) - 1 = k
    <3> HIDE DEF G, L
    <3> QED BY <1>0, <1>13
  <2>1. x[k + 1] = Execute(f, x[k], k + 1, runs) /\ y[k + 1] = ReplayStep(f, y[k], k + 1)
    BY <1>1, <1>9, <1>11, <2>0, ExecutedIs, ReplayedIs
  <2>2. x[k] \in RunState /\ y[k] \in ReplayState /\ x[k].ended /\ x[k + 1].ended
    BY <1>9, <1>10, <1>11, <2>0
  <2>3. Agree(f, y[k], x[k], (k + 1) - 1)
    BY <1>13, <2>0
  <2>4. k + 1 \in 1 .. Len(text[f])
    BY <2>0
  <2>5. GoodRuns(runs)
    BY <1>7
  <2> HIDE DEF L, G
  <2>6. Agree(f, y[k + 1], x[k + 1], k + 1)
    BY <2>1, <2>2, <2>3, <2>4, <2>5, AgreeStep
  <2>7. k + 1 \in 0 .. L
    BY <2>0
  <2> QED BY <2>6, <2>7 DEF G
<1>14. \A i \in 0 .. L : i \in G
  <2> HIDE DEF G, L
  <2> QED BY <1>0, <1>12, <1>13, CountUp
<1>15. L \in G
  <2>1. L \in 0 .. L
    BY <1>0
  <2> HIDE DEF G, L
  <2> QED BY <1>14, <2>1
<1>16. Script(f) = x[L] /\ Replay(f) = y[L]
  BY <1>8, <1>9, <1>11 DEF Ran, Replay
<1> QED BY <1>3, <1>4, <1>15, <1>16

--------------------------------------------------------------------------------
(* The two properties.                                                     *)

\* Statements are added, and nothing else.
THEOREM LoadTypes == LoadSpec => []LoadTypeOK
<1>1. LoadInit => LoadTypeOK
  BY DEF LoadInit, LoadTypeOK
<1>2. LoadTypeOK /\ [LoadNext]_text => LoadTypeOK'
  <2> SUFFICES ASSUME LoadTypeOK, [LoadNext]_text PROVE LoadTypeOK'
    OBVIOUS
  <2>1. ASSUME NEW f \in Scripts, NEW s \in Statements, Type(f, s) PROVE LoadTypeOK'
    <3>1. text[f] \in Seq(Statements)
      BY DEF LoadTypeOK
    <3>2. Append(text[f], s) \in Seq(Statements)
      BY <3>1
    <3>3. text' = [text EXCEPT ![f] = Append(text[f], s)]
      BY <2>1 DEF Type
    <3> QED BY <3>2, <3>3 DEF LoadTypeOK
  <2>2. CASE UNCHANGED text
    BY <2>2 DEF LoadTypeOK
  <2> QED BY <2>1, <2>2 DEF LoadNext
<1> QED BY <1>1, <1>2, PTL DEF LoadSpec

\* The replay of a script says what its reads meet when R runs it.
THEOREM ReplaysAreExecutions == LoadSpec => []ReplayIsExecution
<1>1. LoadTypeOK => ReplayIsExecution
  <2> SUFFICES ASSUME LoadTypeOK, NEW f \in Scripts,
                      AllAnalysed(f) /\ AllStatic(f) /\ Script(f).ended
               PROVE  /\ \A p \in Provenance(f) :
                           p.binds # Unknown => <<f, p.site, p.binds>> \in Script(f).met
                      /\ FinalScopeBinding(f) \in {Unknown, Script(f).live}
    BY DEF ReplayIsExecution
  <2>1. Agree(f, Replay(f), Script(f), Len(text[f]))
    BY ScriptAgrees DEF Known
  <2>2. FinalScopeBinding(f) \in {Unknown, Script(f).live}
    BY <2>1, AgreeSite DEF FinalScopeBinding
  <2> QED BY <2>1, <2>2 DEF Agree, Provenance
<1> QED BY <1>1, LoadTypes, PTL

\* Outside packages a file is seen by what loads it.
LEMMA SeenByAre ==
  ASSUME NEW d \in Scripts, NEW r \in Scripts
  PROVE  r \in Scope!SeenBy(d) <=> r # d /\ d \in Loaded(r)
<1>1. d \in Scope!SeesExtra(r) <=> d \in Scope!Sourced(r)
  BY FactsAre DEF Scope!SeesExtra
<1>2. r \in Scope!SeenByExtra(d) <=> d \in Scope!Sourced(r)
  BY <1>1, FactsAre DEF Scope!SeenByExtra
<1>3. Scope!MembersOf(d) = {}
  BY FactsAre DEF Scope!MembersOf
<1>4. d \in Scope!Sourced(r) => d # r
  BY DEF Scope!Sourced
<1>5. d \in Scope!Sourced(r) <=> r # d /\ d \in Loaded(r)
  BY <1>4 DEF Loaded
<1> QED BY <1>2, <1>3, <1>5 DEF Scope!SeenBy, Scope!View

\* A rename that is not refused rewrites, in a script that runs the renamed
\* definition, the reads that meet it and no others.
THEOREM RenameReachesReaders == LoadSpec => []RenameIsSoundInReaders
<1>1. LoadTypeOK => RenameIsSoundInReaders
  <2> SUFFICES ASSUME LoadTypeOK, NEW d \in Scripts, NEW e \in Scripts,
                      Defines(d), ~Defines(e), Plain(e), ~Refused(d),
                      NEW m \in Met(e), m[1] = e
               PROVE  m[3] = d <=> <<e, m[2]>> \in Renamed(d)
    BY DEF RenameIsSoundInReaders
  <2>1. Known(e) /\ Script(e).ended
    BY DEF Plain, Known
  <2>2. /\ Agree(e, Replay(e), Script(e), Len(text[e]))
        /\ Follows(Script(e), e, 0)
        /\ \A t \in SourcesOf(e) : e \notin Loaded(t)
    BY <2>1, ScriptAgrees
  <2>3. d # e /\ d # 0 /\ d # Unknown
    BY LoadAssumption
  <2>4. d \in Loaded(e) <=> d \in ClosureDefiners(e)
    BY DefinersAre
  <2>5. FinalScopeBinding(e) \in {Unknown, Script(e).live}
    BY <2>2, AgreeSite DEF FinalScopeBinding
  <2>6. <<e, m[2]>> \in Renamed(d) <=> e \in RenameReaders(d) /\ m[2] \in ReaderRanges(e, d)
    BY <2>3 DEF Renamed
  <2>7. e \in RenameReaders(d) <=> d \in Loaded(e) /\ FreeReads(e) # {}
    BY <2>3, SeenByAre DEF RenameReaders
  <2>8. e \in RenameReaders(d) =>
          FinalScopeBinding(e) # Unknown /\ \A p \in Provenance(e) : p.binds # Unknown
    BY DEF Refused, Undecided
  <2>9. CASE m \in Script(e).met
    <3>1. /\ m[2] \in 1 .. Len(text[e]) /\ text[e][m[2]].kind = "read"
          /\ \A p \in Provenance(e) : p.site = m[2] => p.binds \in {Unknown, m[3]}
          /\ \E p \in Provenance(e) : p.site = m[2]
      BY <2>2, <2>9 DEF Agree, Provenance
    <3>2. m[2] \in Sites(e, {"read"}) /\ m[2] \notin Sites(e, {"body"})
      BY <3>1, StatementsAre DEF Sites
    <3>3. FreeReads(e) # {}
      BY <3>1, StatementsAre DEF FreeReads, Sites
    <3>4. m[2] \in ReaderRanges(e, d) <=> [site |-> m[2], binds |-> d] \in Provenance(e)
      BY <3>2 DEF ReaderRanges
    <3>5. ASSUME m[3] = d PROVE <<e, m[2]>> \in Renamed(d)
      <4>1. d \in ClosureDefiners(e)
        BY <2>2, <2>3, <2>9, <3>5 DEF Follows
      <4>2. e \in RenameReaders(d)
        BY <2>4, <2>7, <3>3, <4>1
      <4>3. PICK p \in Provenance(e) : p.site = m[2] /\ p.binds = d
        BY <2>8, <3>1, <3>5, <4>2
      <4>4. p = [site |-> m[2], binds |-> d]
        <5>1. Replay(e) \in ReplayState
          <6>1. Len(text[e]) \in 0 .. Len(text[e])
            BY StatementsAre
          <6> QED BY <6>1, ReplayedIs DEF Replay
        <5>2. p \in [site : Nat, binds : Lives]
          BY <5>1 DEF ReplayState, Provenance
        <5> QED BY <4>3, <5>2
      <4> QED BY <2>6, <3>4, <4>2, <4>4
    <3>6. ASSUME <<e, m[2]>> \in Renamed(d) PROVE m[3] = d
      <4>1. [site |-> m[2], binds |-> d] \in Provenance(e)
        BY <2>6, <3>4, <3>6
      <4> QED BY <2>3, <3>1, <4>1
    <3> QED BY <3>5, <3>6
  <2>10. CASE m \notin Script(e).met
    <3>1. m[3] = Script(e).live /\ m[2] \in Sites(e, {"body"})
      BY <2>10 DEF Met
    <3>2. m[2] \notin Sites(e, {"read"}) /\ FreeReads(e) # {}
      BY <3>1 DEF Sites, FreeReads
    <3>3. m[2] \in ReaderRanges(e, d) <=> FinalScopeBinding(e) \in {0, d}
      BY <3>1, <3>2 DEF ReaderRanges
    <3>4. ASSUME m[3] = d PROVE <<e, m[2]>> \in Renamed(d)
      <4>1. d \in ClosureDefiners(e)
        BY <2>2, <2>3, <3>1, <3>4 DEF Follows
      <4>2. e \in RenameReaders(d)
        BY <2>4, <2>7, <3>2, <4>1
      <4> QED BY <2>5, <2>6, <2>8, <3>1, <3>3, <3>4, <4>2
    <3>5. ASSUME <<e, m[2]>> \in Renamed(d) PROVE m[3] = d
      <4>1. e \in RenameReaders(d) /\ FinalScopeBinding(e) \in {0, d}
        BY <2>6, <3>3, <3>5
      <4>2. Script(e).live \in {0, d}
        BY <2>5, <2>8, <4>1
      <4>3. Script(e).live \in ClosureDefiners(e)
        BY <2>2, <2>4, <2>7, <4>1 DEF Follows
      <4>4. Script(e).live # 0
        BY <4>3, ClosureDefinersType, LoadAssumption
      <4> QED BY <3>1, <4>2, <4>4
    <3> QED BY <3>4, <3>5
  <2> QED BY <2>9, <2>10
<1> QED BY <1>1, LoadTypes, PTL
================================================================================
