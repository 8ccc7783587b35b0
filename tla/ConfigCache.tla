------------------------------ MODULE ConfigCache ------------------------------
(***************************************************************************)
(* The language server's settings per directory (lsp/state.rs,             *)
(* resolve_settings, over config.rs): an arity.toml is looked for from the *)
(* directory upwards to the repository's root, then where ARITY_CONFIG     *)
(* says; it may extend another file, and that one another.  A resolution   *)
(* is cached with a fingerprint of the files that would change it, and     *)
(* served as long as the fingerprint is the same.                          *)
(*                                                                         *)
(* Directory 1 holds the document, 2 is its parent, and so on.  Settings   *)
(* are the files they were merged from, with the state each was in: a      *)
(* write gives a file a stamp no file had before (two writes within the    *)
(* granularity of the clock, of the same length, are left out).            *)
(***************************************************************************)
EXTENDS Integers, Sequences, SequencesExt

CONSTANTS
  Depth,        \* directories, from the document's upwards
  Base, Env,    \* a file others extend; the file ARITY_CONFIG names, or 0
  MaxWrites

Dirs == 1..Depth
Files == Dirs \union {Base} \union {Env}

VARIABLES
  fs,       \* per file: its stamp (0: no such file) and the file it extends (0: none)
  repo,     \* the directories that hold a .git
  editor,   \* the client's own formatter settings
  cached,   \* the cache entry of directory 1: a set of at most one
  pending,  \* a resolution that is not yet fingerprinted: at most one
  writes

vars == <<fs, repo, editor, cached, pending, writes>>

Absent == [stamp |-> 0, extend |-> 0]
Error == [file |-> 0, stamp |-> 0]
Exists(f) == f # 0 /\ fs[f].stamp # 0

Init ==
  /\ fs = [f \in Files |-> Absent]
  /\ repo \in SUBSET Dirs
  /\ editor = 0
  /\ cached = {} /\ pending = {} /\ writes = 0

\* How far the search upwards gets: the first directory with a file or a .git.
Stops(d) == Exists(d) \/ d \in repo
Looked == {d \in Dirs : \A e \in 1..(d - 1) : ~Stops(e)}
Found == {d \in Looked : Exists(d)}

\* Config::resolve: the discovered file, else the fallback, else the defaults.
Source ==
  IF Found # {} THEN CHOOSE d \in Found : TRUE ELSE Env

\* load_merged_config from file f: each file with its state, in the order read;
\* the fuel ends at a cycle, which is an error, as is a file that is not there.
Chain[fuel \in 0..Depth + 3] ==
  [f \in Files \union {0} |->
    IF f = 0 THEN << >>
    ELSE IF fuel = 0 \/ fs[f].stamp = 0 THEN << Error >>
    ELSE <<[file |-> f, stamp |-> fs[f].stamp]>> \o Chain[fuel - 1][fs[f].extend]]

Merged == Chain[Depth + 3][Source]
Failed(chain) == chain # << >> /\ Last(chain) = Error

\* What a document of directory 1 gets if nothing is cached.
Settings == [chain |-> Merged, editor |-> IF Source = 0 THEN editor ELSE 0]

Stamps(seq) == [i \in DOMAIN seq |-> [file |-> seq[i], stamp |-> fs[seq[i]].stamp]]

\* The files the search looked at, those that do not exist included, and the
\* fallback when it found none.
Candidates ==
  [d \in Looked |-> d] \o (IF Found = {} /\ Env # 0 THEN <<Env>> ELSE << >>)

\* config_fingerprint.
Fingerprint(dependencies) == Stamps(Candidates \o dependencies)

\* CachedSettings::is_fresh.
Fresh(entry) == entry.fingerprint = Fingerprint(entry.dependencies)

\* resolve_settings that misses.  A file the search stops at may not parse: an
\* error, as a cycle is, and nothing is cached.
Resolve ==
  /\ pending = {} /\ \A entry \in cached : ~Fresh(entry)
  /\ ~Failed(Merged)
  /\ pending' = {[resolved |-> Settings, raced |-> FALSE]}
  /\ UNCHANGED <<fs, repo, editor, cached, writes>>

\* (wrong) The inherited files are not followed.
NoDependencies == IF Source # 0 THEN <<Source>> ELSE << >>

\* source_chain, read again: the files a change of which matters.
Dependencies == [i \in DOMAIN Merged |-> Merged[i].file]

\* CachedSettings::new; an error in the second reading leaves it uncached.
Remember ==
  /\ pending # {}
  /\ cached' = IF Failed(Merged) THEN cached
               ELSE {[resolved |-> p.resolved, raced |-> p.raced,
                      fingerprint |-> Fingerprint(Dependencies),
                      dependencies |-> Dependencies] : p \in pending}
  /\ pending' = {}
  /\ UNCHANGED <<fs, repo, editor, writes>>

\* didChangeConfiguration: the cache is emptied when the settings are others.
\* Notifications are handled one after another: none comes within a resolution.
DidChangeConfiguration ==
  /\ pending = {} /\ writes < MaxWrites
  /\ writes' = writes + 1
  /\ editor' = editor + 1
  /\ cached' = {}
  /\ UNCHANGED <<fs, repo, pending>>

\* on_watched_files_changed with an arity.toml, or a dependency of the entry.
WatchedConfig(f) ==
  /\ pending = {}
  /\ f \in Dirs \/ \E entry \in cached : \E i \in DOMAIN entry.dependencies : entry.dependencies[i] = f
  /\ cached' = {}
  /\ UNCHANGED <<fs, repo, editor, pending, writes>>

\* Somebody writes or removes a file, also while a resolution is under way.
Write(f, e) ==
  /\ writes < MaxWrites
  /\ writes' = writes + 1
  /\ fs' = [fs EXCEPT ![f] = [stamp |-> writes + 1, extend |-> e]]
  /\ pending' = {[p EXCEPT !.raced = TRUE] : p \in pending}
  /\ UNCHANGED <<repo, editor, cached>>

Unlink(f) ==
  /\ writes < MaxWrites /\ Exists(f)
  /\ writes' = writes + 1
  /\ fs' = [fs EXCEPT ![f] = Absent]
  /\ pending' = {[p EXCEPT !.raced = TRUE] : p \in pending}
  /\ UNCHANGED <<repo, editor, cached>>

\* A repository is made or unmade.
GitInit(d) ==
  /\ writes < MaxWrites
  /\ writes' = writes + 1
  /\ repo' = IF d \in repo THEN repo \ {d} ELSE repo \union {d}
  /\ pending' = {[p EXCEPT !.raced = TRUE] : p \in pending}
  /\ UNCHANGED <<fs, editor, cached>>

Next ==
  \/ Resolve \/ Remember \/ DidChangeConfiguration
  \/ \E f \in Files \ {0} : \/ WatchedConfig(f) \/ Unlink(f)
                            \/ \E e \in (Files \union {0}) : Write(f, e)
  \/ \E d \in Dirs : GitInit(d)

Spec == Init /\ [][Next]_vars

--------------------------------------------------------------------------------
\* A cached resolution that is_fresh lets through is the one a resolution made
\* now would give, unless a file moved between the resolution and its
\* fingerprint: "Missing candidates are significant -- a newly created nearer
\* config must displace a cached parent" (state.rs).
FreshMeansSame ==
  \A entry \in cached : Fresh(entry) /\ ~entry.raced => entry.resolved = Settings
================================================================================
