------------------------------- MODULE LoadOrder -------------------------------
(***************************************************************************)
(* Which definition a read binds to when files source() each other, and    *)
(* the workspace rename that rests on it (project/scope.rs,                *)
(* project/sequence.rs, Analysis::cross_file_binding and                   *)
(* reader_rename_ranges of incremental.rs, lsp/navigation.rs), against     *)
(* what R does when it runs the files.                                     *)
(*                                                                         *)
(* One name is followed.  A file is the sequence of what its top-level     *)
(* statements do to it: define it, read it, mention it in the body of a    *)
(* function, source another file.  A site is a place in that sequence.     *)
(***************************************************************************)
EXTENDS Integers, Sequences, FiniteSets

CONSTANTS
  Scripts,     \* analysed files: scripts, outside any package
  Unknown,   \* a file that exists and is not analysed
  Computed,   \* the target of a source() whose argument is computed
  MaxLen     \* statements of each file

\* Scripts and what is not one are told apart, and from 0, which is no file.
ASSUME LoadAssumption ==
  /\ IsFiniteSet(Scripts)
  /\ {0, Unknown, Computed} \intersect Scripts = {}
  /\ Unknown # 0 /\ Computed # Unknown

VARIABLE text  \* the statements of each file

Define == [kind |-> "define", target |-> 0]
Read == [Define EXCEPT !.kind = "read"]
Body == [Define EXCEPT !.kind = "body"]
Source(t) == [kind |-> "source", target |-> t]
Statements ==
  {Define, Read, Body} \union {Source(t) : t \in Scripts \union {Unknown, Computed}}

LoadInit == text = [f \in Scripts |-> <<>>]

\* A statement is added at the end of a file.
Type(f, s) ==
  /\ Len(text[f]) < MaxLen[f]
  /\ text' = [text EXCEPT ![f] = Append(@, s)]

LoadNext == \E f \in Scripts, s \in Statements : Type(f, s)

LoadSpec == LoadInit /\ [][LoadNext]_text

--------------------------------------------------------------------------------
(* What is extracted from a file.                                          *)

Sites(f, kinds) == {i \in DOMAIN text[f] : text[f][i].kind \in kinds}
Defines(f) == Sites(f, {"define"}) # {}

\* file_free_reads: a read that no binding of the file itself answers, wherever
\* in the file that binding is (resolve_local).
FreeReads(f) == IF Defines(f) THEN {} ELSE Sites(f, {"read", "body"})

Targets(f) == {text[f][i].target : i \in Sites(f, {"source"})}

\* top_level_events: the definitions, source() calls and free reads, in the order
\* of their statements; a body is not run with its file.
Events(f) == Sites(f, {"define", "source"}) \union (Sites(f, {"read"}) \intersect FreeReads(f))

Scope == INSTANCE ProjectScope WITH
  Files <- Scripts, Dynamic <- Computed,
  Roots <- {}, NoRoot <- 0, Names <- {"x"}, Allowed <- {}, exempt <- [r \in {} |-> {}],
  facts <- [f \in Scripts |->
    [root |-> 0, exports |-> IF Defines(f) THEN {"x"} ELSE {},
     free |-> IF FreeReads(f) # {} THEN {"x"} ELSE {}, qualified |-> {}, useOnly |-> {},
     edges |-> {[target |-> t, local |-> FALSE] : t \in Targets(f)}]]

--------------------------------------------------------------------------------
(* The replay of a file's sequence (scope.rs).                             *)

\* closure_definers: the analysed files that define the name, among the target
\* and what it sources.  What is not analysed is passed over.
ClosureDefiners(t) ==
  IF t \notin Scripts THEN {}
  ELSE {g \in Scope!Sourced(t) \union {t} : Defines(g)}

Fresh == [live |-> {}, ambiguous |-> FALSE, poisoned |-> FALSE, sites |-> {}]

\* What a read sees: a definer, none, or that cannot be said.
Site(s) ==
  IF s.poisoned \/ s.ambiguous THEN Unknown
  ELSE IF s.live = {} THEN 0 ELSE CHOOSE d \in s.live : TRUE

\* (wrong) A closure that defines the name twice is passed over as if it did not.
ClosureKeepsLive(s, target) ==
  IF target = Computed THEN [s EXCEPT !.poisoned = TRUE]
  ELSE IF Cardinality(ClosureDefiners(target)) # 1 THEN s
  ELSE [s EXCEPT !.live = ClosureDefiners(target), !.ambiguous = FALSE]

\* A source() edge: computed ones poison what follows, else the one definer of
\* the closure is live, or two are ambiguous.
ReplaySource(s, target) ==
  IF target = Computed THEN [s EXCEPT !.poisoned = TRUE]
  ELSE IF ClosureDefiners(target) = {} THEN s
  ELSE IF Cardinality(ClosureDefiners(target)) = 1
  THEN [s EXCEPT !.live = ClosureDefiners(target), !.ambiguous = FALSE]
  ELSE [s EXCEPT !.ambiguous = TRUE]

ReplayStep(f, s, i) ==
  LET e == text[f][i]
  IN IF i \notin Events(f) THEN s
     ELSE CASE e.kind = "define" -> [s EXCEPT !.live = {f}, !.ambiguous = FALSE]
            [] e.kind = "source" -> ReplaySource(s, e.target)
            [] e.kind = "read" ->
                 [s EXCEPT !.sites = @ \union {[site |-> i, binds |-> Site(s)]}]

\* The replay after each of the file's statements, and after the last.
Replayed(f) ==
  LET after[i \in 0..Len(text[f])] ==
        IF i = 0 THEN Fresh ELSE ReplayStep(f, after[i - 1], i)
  IN after
Replay(f) == Replayed(f)[Len(text[f])]

\* top_level_read_provenance, and final_scope_binding for the bodies.
Provenance(f) == Replay(f).sites
FinalScopeBinding(f) == Site(Replay(f))

--------------------------------------------------------------------------------
(* The rename of the name defined in file d.                               *)

\* dynamic_source_risk: a computed source() in, or seen from, a reading file.
DynamicSourceRisk ==
  \E r \in Scripts : FreeReads(r) # {} /\
    \E g \in Scripts : (r = g \/ g \in Scope!Sees(r)) /\
      Computed \in Targets(g)

\* Outside packages the definition has no aliases; readers see it, read the name
\* freely and do not define it.
RenameReaders(d) == {r \in Scope!SeenBy(d) : FreeReads(r) # {} /\ ~Defines(r)}

\* The definitions of the file and the reads the file's own model gives them:
\* in the bodies, and at top level after the first definition.
OwnOccurrences(d) ==
  Sites(d, {"define", "body"}) \union
    {i \in Sites(d, {"read"}) : \E j \in Sites(d, {"define"}) : j < i}

\* (wrong) A body is renamed whatever the file ends up binding.
ReaderRangesAllBodies(r, d) ==
  {i \in Sites(r, {"read"}) : [site |-> i, binds |-> d] \in Provenance(r)} \union
    Sites(r, {"body"})

\* reader_rename_ranges: top-level reads bound to d, and the bodies unless they
\* end up bound elsewhere; unbound bodies are taken to be d's.
ReaderRanges(r, d) ==
  {i \in Sites(r, {"read"}) : [site |-> i, binds |-> d] \in Provenance(r)} \union
    IF FinalScopeBinding(r) \in {0, d} THEN Sites(r, {"body"}) ELSE {}

Undecided(r) ==
  FinalScopeBinding(r) = Unknown \/ \E p \in Provenance(r) : p.binds = Unknown

Refused(d) == DynamicSourceRisk \/ \E r \in RenameReaders(d) : Undecided(r)

\* The sites a rename that is not refused rewrites.
Renamed(d) ==
  ({d} \X OwnOccurrences(d)) \union
    UNION {{r} \X ReaderRanges(r, d) : r \in RenameReaders(d)}

--------------------------------------------------------------------------------
(* R: statements run in order, source() runs a file where it stands, and the *)
(* bodies run when all is loaded.                                          *)

\* The state of a run: the file whose definition is live (0: none; Unknown once
\* something unknown ran), what each site met, and whether it ended.
Lives == Scripts \union {0, Unknown}
NotEnded == [live |-> 0, met |-> {}, ended |-> FALSE]

\* A statement of file f; running a file it sources from a live definition does
\* `runs`.
Execute(f, s, i, runs) ==
  LET e == text[f][i]
  IN IF ~s.ended THEN s
     ELSE CASE e.kind = "body" -> s
            [] e.kind = "define" -> [s EXCEPT !.live = f]
            [] e.kind = "read" -> [s EXCEPT !.met = @ \union {<<f, i, s.live>>}]
            [] e.kind = "source" /\ e.target \notin Scripts -> [s EXCEPT !.live = Unknown]
            [] e.kind = "source" /\ e.target \in Scripts ->
                 [runs[e.target][s.live] EXCEPT !.met = @ \union s.met]

\* A run of file f after each of its statements.
Executed(f, live, runs) ==
  LET after[i \in 0..Len(text[f])] ==
        IF i = 0 THEN [live |-> live, met |-> {}, ended |-> TRUE]
        ELSE Execute(f, after[i - 1], i, runs)
  IN after

\* What running a file does, a number of files deep: a run that sources itself
\* does not end.
Run[depth \in 0..Cardinality(Scripts)] ==
  [f \in Scripts |->
    [live \in Lives |->
      IF depth = 0 THEN NotEnded ELSE Executed(f, live, Run[depth - 1])[Len(text[f])]]]

\* Running file f as a script.
Script(f) == Run[Cardinality(Scripts)][f][0]

\* The files a script runs.
Loaded(f) == Scope!Sourced(f) \union {f}

--------------------------------------------------------------------------------
\* Nothing the analysis cannot see: every file that is sourced is analysed.
AllAnalysed(f) == \A g \in Loaded(f) : Unknown \notin Targets(g)
AllStatic(f) == \A g \in Loaded(f) : Computed \notin Targets(g)

\* The replay says what R does: a top-level read said to bind to a file meets
\* that file's definition, one said to bind to nothing meets none, and the
\* final scope likewise.  Only files the script sources are followed, and they
\* must be analysed, without computed edges behind them.
ReplayIsExecution ==
  \A f \in Scripts : AllAnalysed(f) /\ AllStatic(f) /\ Script(f).ended =>
    /\ \A p \in Provenance(f) : p.binds # Unknown => <<f, p.site, p.binds>> \in Script(f).met
    /\ FinalScopeBinding(f) \in {Unknown, Script(f).live}

\* What a script's reads meet, those in bodies at its end.
Met(e) ==
  Script(e).met \union
    UNION {{<<g, i, Script(e).live>> : i \in Sites(g, {"body"})} : g \in Loaded(e)}

Plain(e) == AllAnalysed(e) /\ AllStatic(e) /\ Script(e).ended

\* A rename that is not refused rewrites the reads of a script that meet the
\* renamed definition and no others, as long as the script does not define the
\* name itself and its own reads are looked at.
RenameIsSoundInReaders ==
  \A d, e \in Scripts : Defines(d) /\ ~Defines(e) /\ Plain(e) /\ ~Refused(d) =>
    \A m \in Met(e) : m[1] = e => (m[3] = d <=> <<e, m[2]>> \in Renamed(d))

\* "Rename is sound in both directions (never rewrite an unrelated binding,
\* never miss a read)" (navigation.rs): the same of every read of every script.
RenameIsSound ==
  \A d, e \in Scripts : Defines(d) /\ Plain(e) /\ ~Refused(d) =>
    \A m \in Met(e) : m[3] = d <=> <<m[1], m[2]>> \in Renamed(d)
================================================================================
