------------------------------ MODULE FormatCache ------------------------------
(***************************************************************************)
(* `arity format --check` and its cache of fixed points                    *)
(* (formatter/cache.rs, formatter/check.rs): runs of several arity         *)
(* versions and styles share one cache directory without a lock, over      *)
(* files that are edited meanwhile, in a package whose DESCRIPTION decides *)
(* whether roxygen comments are read as markdown.                          *)
(*                                                                         *)
(* What the formatter says of a content is left to a parameter: a verdict  *)
(* per grammar, markdown default, version and style.  Content hashes are   *)
(* taken to be injective.                                                  *)
(***************************************************************************)
EXTENDS Naturals

CONSTANTS
  Checkers,     \* runs of the command
  Versions, Styles,
  Contents,
  Paths,
  Descriptions, \* the paths named DESCRIPTION
  Verdict,      \* [Contents -> [Contexts -> verdicts]]
  MaxEdits, MaxRuns

VARIABLES
  stored,   \* the cache files: per version and style a set of keys, {} if none
  files,    \* the contents of the paths
  markdown, \* what the package's DESCRIPTION says
  run,      \* what each run of the command is doing
  edits, started

vars == <<stored, files, markdown, run, edits, started>>

Grammar(path) == IF path \in Descriptions THEN "DCF" ELSE "R"
Grammars == {"R", "DCF"}
Contexts == [version : Versions, style : Styles, grammar : Grammars, markdown : BOOLEAN]

Idle == [phase |-> "idle"]

Init ==
  /\ stored = [v \in Versions |-> [s \in Styles |-> {}]]
  /\ files \in [Paths -> Contents]
  /\ markdown \in BOOLEAN
  /\ run = [k \in Checkers |-> Idle]
  /\ edits = 0 /\ started = 0

\* (wrong) A key that forgets the markdown default of the package.
CacheKeyOfContent(path, content, md) ==
  [grammar |-> Grammar(path), content |-> content, markdown |-> FALSE]

\* The markdown default is a part of an R key only.
CacheKey(path, content, md) ==
  [grammar |-> Grammar(path), content |-> content,
   markdown |-> Grammar(path) = "R" /\ md]

\* Load the cache; a file that is missing or does not decode is an empty one.
Start(k, v, s) ==
  /\ run[k].phase = "idle" /\ started < MaxRuns
  /\ started' = started + 1
  /\ run' = [run EXCEPT ![k] =
       [phase |-> "checking", version |-> v, style |-> s, todo |-> Paths,
        points |-> stored[v][s], dirty |-> FALSE, memo |-> {}, clean |-> {}]]
  /\ UNCHANGED <<stored, files, markdown, edits>>

\* The markdown default is resolved once per directory and run.
Memo(k, path) ==
  IF Grammar(path) = "DCF" \/ run[k].memo # {} THEN run[k].memo ELSE {markdown}

Context(k, path) ==
  [version |-> run[k].version, style |-> run[k].style, grammar |-> Grammar(path),
   markdown |-> TRUE \in Memo(k, path)]

Key(k, path) == CacheKey(path, files[path], TRUE \in Memo(k, path))

\* The file is read and found in the cache: clean, without formatting it.
Hit(k, path) ==
  /\ run[k].phase = "checking" /\ path \in run[k].todo
  /\ Key(k, path) \in run[k].points
  /\ run' = [run EXCEPT ![k].todo = @ \ {path}, ![k].memo = Memo(k, path),
       ![k].clean = @ \union {[content |-> files[path], context |-> Context(k, path)]}]
  /\ UNCHANGED <<stored, files, markdown, edits, started>>

\* A fixed point that carries no outdated directive; a declined DESCRIPTION is
\* clean and not worth recording.
Recordable(verdict) == verdict = "fixed"

\* The file is formatted: clean or reported, or failed.
Miss(k, path) ==
  LET verdict == Verdict[files[path]][Context(k, path)]
  IN /\ run[k].phase = "checking" /\ path \in run[k].todo
     /\ Key(k, path) \notin run[k].points
     /\ run' = [run EXCEPT ![k].todo = @ \ {path}, ![k].memo = Memo(k, path),
          ![k].clean = IF verdict \in {"fixed", "declined"}
            THEN @ \union {[content |-> files[path], context |-> Context(k, path)]}
            ELSE @,
          ![k].points = IF Recordable(verdict) THEN @ \union {Key(k, path)} ELSE @,
          ![k].dirty = @ \/ Recordable(verdict)]
     /\ UNCHANGED <<stored, files, markdown, edits, started>>

\* A file that cannot be read, or is not UTF-8, is set aside.
Skip(k, path) ==
  /\ run[k].phase = "checking" /\ path \in run[k].todo
  /\ run' = [run EXCEPT ![k].todo = @ \ {path}]
  /\ UNCHANGED <<stored, files, markdown, edits, started>>

\* The set is renamed into place; a run that recorded nothing writes nothing.
Store(k) ==
  /\ run[k].phase = "checking" /\ run[k].todo = {}
  /\ IF run[k].dirty
     THEN /\ stored' = [stored EXCEPT ![run[k].version][run[k].style] = run[k].points]
          /\ run' = [run EXCEPT ![k].phase = "collect"]
     ELSE /\ run' = [run EXCEPT ![k].phase = "done"]
          /\ UNCHANGED stored
  /\ UNCHANGED <<files, markdown, edits, started>>

\* The directories of other versions are removed.
GcOldVersionDirs(k) ==
  /\ run[k].phase = "collect"
  /\ stored' = [v \in Versions |->
       IF v = run[k].version THEN stored[v] ELSE [s \in Styles |-> {}]]
  /\ run' = [run EXCEPT ![k].phase = "done"]
  /\ UNCHANGED <<files, markdown, edits, started>>

\* Cut off while checking, or a store or collection that fails (a warning), or
\* the end.
End(k) ==
  /\ run[k].phase \in {"checking", "collect", "done"}
  /\ run' = [run EXCEPT ![k] = Idle]
  /\ UNCHANGED <<stored, files, markdown, edits, started>>

\* A file is edited; DESCRIPTION is, and with it the package's default.
Edit ==
  /\ edits < MaxEdits
  /\ edits' = edits + 1
  /\ \/ \E path \in Paths, content \in Contents :
          files' = [files EXCEPT ![path] = content] /\ UNCHANGED markdown
     \/ markdown' = ~markdown /\ UNCHANGED files
  /\ UNCHANGED <<stored, run, started>>

Next ==
  \/ \E k \in Checkers :
       \/ \E v \in Versions, s \in Styles : Start(k, v, s)
       \/ \E path \in Paths : Hit(k, path) \/ Miss(k, path) \/ Skip(k, path)
       \/ Store(k) \/ GcOldVersionDirs(k) \/ End(k)
  \/ Edit

Spec == Init /\ [][Next]_vars

--------------------------------------------------------------------------------
\* What --check counts as unchanged is what formatting it from scratch would
\* leave alone and not complain about, under the run's own version and style
\* and the grammar and markdown default of the file (check.rs): "a cross-grammar
\* hit would report a dirty `DESCRIPTION` as clean".
CleanMeansFormatted ==
  \A k \in Checkers : run[k].phase # "idle" =>
    \A judged \in run[k].clean :
      Verdict[judged.content][judged.context] \in {"fixed", "declined"}
================================================================================
