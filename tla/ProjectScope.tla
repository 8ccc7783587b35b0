------------------------------ MODULE ProjectScope ------------------------------
(***************************************************************************)
(* What the files of a project see of each other (project/scope.rs).       *)
(* Members of one package share a namespace; a script sees the closure of  *)
(* what it source()s.  Names visible from a file, and names of a file that *)
(* others read, are not gathered pair by pair: a package's union is shared *)
(* by its members, with names added and removed for each file, and "read   *)
(* by somebody else" is decided by counting readers.                       *)
(***************************************************************************)
EXTENDS Naturals, FiniteSets

CONSTANTS
  Files,    \* paths
  Roots,    \* package roots
  NoRoot,   \* of a file outside any package
  Names,    \* top-level bindings
  Dynamic,  \* the target of a source() whose argument is computed
  Allowed   \* the facts a file may have

ASSUME ScopeAssumption ==
  /\ IsFiniteSet(Files)
  /\ NoRoot \notin Roots /\ Dynamic \notin Files

VARIABLES
  facts,  \* of each analysed file (FileFacts); the others are not in the domain
  exempt  \* per package: what its NAMESPACE importFrom()s and useDynLib() binds

vars == <<facts, exempt>>

Edges == [target : Files \union {Dynamic}, local : BOOLEAN]
Facts == [root : Roots \union {NoRoot}, exports : SUBSET Names,
          free : SUBSET Names, qualified : SUBSET Names, useOnly : SUBSET Names,
          edges : SUBSET Edges]

TypeOK ==
  /\ DOMAIN facts \subseteq Files /\ \A f \in DOMAIN facts : facts[f] \in Facts
  /\ exempt \in [Roots -> SUBSET Names]

Init ==
  /\ facts = [f \in {} |-> NoRoot]
  /\ exempt = [r \in Roots |-> {}]

\* A file without parse errors becomes a member of the project.  An edit is a
\* Leave and a Join.
Join(f, new) ==
  /\ f \notin DOMAIN facts
  /\ facts' = [g \in (DOMAIN facts) \union {f} |-> IF g = f THEN new ELSE facts[g]]
  /\ UNCHANGED exempt

\* It is removed, or no longer parses.
Leave(f) ==
  /\ f \in DOMAIN facts
  /\ facts' = [g \in (DOMAIN facts) \ {f} |-> facts[g]]
  /\ UNCHANGED exempt

\* The package's NAMESPACE changes.
Namespace(r, names) ==
  /\ exempt' = [exempt EXCEPT ![r] = names]
  /\ UNCHANGED facts

Next ==
  \/ \E f \in Files : Leave(f) \/ \E new \in Allowed \intersect Facts : Join(f, new)
  \/ \E r \in Roots, names \in SUBSET Names : Namespace(r, names)

Spec == Init /\ [][Next]_vars

--------------------------------------------------------------------------------
(* The two file relations.                                                 *)

Analysed == DOMAIN facts
Root(f) == facts[f].root
Exports(f) == facts[f].exports
Reads(f) == facts[f].free \union facts[f].qualified \union facts[f].useOnly

\* source_dependency: a local edge loads into the caller's environment only.
Followed(f) == {e.target : e \in {d \in facts[f].edges : ~d.local}} \intersect Analysed

\* Reached[n][f]: the files at most n edges from f.
Reached[n \in 0..Cardinality(Files)] ==
  [f \in Analysed |->
     IF n = 0 THEN {f} ELSE {f} \union UNION {Reached[n - 1][g] : g \in Followed(f)}]

\* The transitive closure, the file itself left out.
Sourced(f) == {g \in Analysed \ {f} : g \in Reached[Cardinality(Files)][f]}

Members(r) == {f \in Analysed : Root(f) = r}
MembersOf(f) == IF Root(f) = NoRoot THEN {} ELSE Members(Root(f))

\* What a file sees beyond its package; disjoint from its members.
SeesExtra(f) == {g \in Sourced(f) : Root(f) = NoRoot \/ Root(g) # Root(f)}
SeenByExtra(f) == {g \in Analysed : f \in SeesExtra(g)}

\* PathSetView: sees, seen_by and package_siblings.
View(f, extra) == (MembersOf(f) \union extra) \ {f}
Sees(f) == View(f, SeesExtra(f))
SeenBy(f) == View(f, SeenByExtra(f))
PackageSiblings(f) == View(f, {})

\* PathSetView::len.
ViewLen(f, extra) ==
  Cardinality(MembersOf(f)) - (IF f \in MembersOf(f) THEN 1 ELSE 0) + Cardinality(extra)

--------------------------------------------------------------------------------
(* LayeredSet.                                                             *)

Layered(shared, added, removed) == (shared \union added) \ removed

Exempt(f) == IF Root(f) = NoRoot THEN {} ELSE exempt[Root(f)]

\* A file's own definition outranks one it sources or shares, but a name that
\* is imported as well stays visible.
OwnNames(f) == Exports(f) \ Exempt(f)

SharedExports(f) == (UNION {Exports(g) : g \in MembersOf(f)}) \union Exempt(f)

Visible(f) ==
  Layered(SharedExports(f), UNION {Exports(g) : g \in Sourced(f)}, OwnNames(f))

\* package_read_counts.
Readers(f, name) == {g \in MembersOf(f) : name \in Reads(g)}

ReadBySourcing(f) == UNION {Reads(g) : g \in {h \in Analysed : f \in Sourced(h)}}

\* (wrong) The names only this member reads go, whoever sources the file.
OnlyReadHereAlone(f) == {name \in Reads(f) : Cardinality(Readers(f, name)) = 1}

\* The names only this member reads, unless a file that sources it does too.
OnlyReadHere(f) ==
  {name \in Reads(f) : Cardinality(Readers(f, name)) = 1} \ ReadBySourcing(f)

ReadByOthers(f) ==
  Layered(UNION {Reads(g) : g \in MembersOf(f)}, ReadBySourcing(f),
          IF Root(f) = NoRoot THEN {} ELSE OnlyReadHere(f))

--------------------------------------------------------------------------------
\* The layers hold what the relation between single files says, "the clique
\* relation" they collapse (scope.rs): visible from a file is what the files it
\* sees export and it does not, and its package's imports; read by others is
\* what the files that see it read.
LayersArePairwise ==
  \A f \in Analysed :
    /\ Visible(f) = ((UNION {Exports(g) : g \in Sees(f)}) \ Exports(f)) \union Exempt(f)
    /\ ReadByOthers(f) = UNION {Reads(g) : g \in SeenBy(f)}

\* Who sees and who is seen agree, and the length of a view, which is added up
\* from its two parts, is the number of its elements: no file counts twice.
ViewsAgree ==
  \A f, g \in Analysed :
    /\ f \in Sees(g) <=> g \in SeenBy(f)
    /\ ViewLen(f, SeesExtra(f)) = Cardinality(Sees(f))
    /\ ViewLen(f, SeenByExtra(f)) = Cardinality(SeenBy(f))
================================================================================
