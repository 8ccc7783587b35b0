----------------------------- MODULE MCDiskCaches -----------------------------
(***************************************************************************)
(* The package index and the caches beside it.  They share no state, so    *)
(* one run explores each by itself: a behaviour starts with the cache it   *)
(* is about and moves only that one, and the others rest in one of their   *)
(* initial states.                                                         *)
(***************************************************************************)
EXTENDS IndexCache, DiskCaches

VARIABLE about  \* the cache a behaviour moves

sidecar ==
  <<edition, replacedAt, clock, manifest, etag, fetchedAt, proc, crossed, lost, faults>>
format == <<stored, texts, markdown, run, edits, started>>
config == <<fs, repo, editor, cached, pending, writes>>

\* A content for each thing a verdict may hang on.
Contexts ==
  [version : Versions, style : Styles, grammar : {"R", "DCF"}, markdown : BOOLEAN]
MCVerdict == [c \in Contents |-> [x \in Contexts |->
  CASE c = "grammar"   -> IF x.grammar = "R" THEN "fixed" ELSE "changed"
    [] c = "markdown"  -> IF x.grammar = "DCF" THEN "declined"
                          ELSE IF x.markdown THEN "fixed" ELSE "changed"
    [] c = "version"   -> IF x.version = 1 THEN "fixed" ELSE "changed"
    [] c = "style"     -> IF x.style = 1 THEN "fixed" ELSE "changed"
    [] c = "directive" -> IF x.grammar = "R" THEN "outdated" ELSE "error"]]

Caches == {"index", "sidecar", "format", "config"}

MCInit ==
  /\ about \in Caches
  /\ Init /\ Sidecar!Init
  /\ IF about = "format" THEN Format!Init
     ELSE /\ Format!Init
          /\ texts = [p \in DOMAIN texts |-> "style"] /\ ~markdown
  /\ IF about = "config" THEN Config!Init ELSE Config!Init /\ repo = {}

MCNext ==
  /\ UNCHANGED about
  /\ \/ about = "index" /\ Next /\ UNCHANGED <<sidecar, format, config>>
     \/ about = "sidecar" /\ Sidecar!Next /\ UNCHANGED <<vars, format, config>>
     \/ about = "format" /\ Format!Next /\ UNCHANGED <<vars, sidecar, config>>
     \/ about = "config" /\ Config!Next /\ UNCHANGED <<vars, sidecar, format>>

MCSpec == MCInit /\ [][MCNext]_<<about, vars, sidecar, format, config>>
===============================================================================
