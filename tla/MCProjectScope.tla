---------------------------- MODULE MCProjectScope ----------------------------
(***************************************************************************)
(* The relations between the files of a project, and the order in which    *)
(* scripts load each other.  The two are explored side by side: a          *)
(* behaviour is about one of them and the other rests in its initial state. *)
(***************************************************************************)
EXTENDS ProjectScope, LoadOrder, TLC

VARIABLE about

MCMaxLen == <<3, 2, 1>>

\* A file reads a name freely, through `pkg::`, or in a use-only position; one
\* of the three is enough where only their union is looked at.
MCAllowed ==
  [root : Roots \union {NoRoot}, exports : SUBSET Names, free : {{}},
   qualified : SUBSET Names, useOnly : {{}},
   edges : {{}, {[target |-> Dynamic, local |-> FALSE]}} \union
           {{[target |-> t, local |-> l]} : t \in Files, l \in BOOLEAN}]

Symmetry == Permutations(Files)

MCInit == about \in {"scope", "order"} /\ Init /\ LoadInit

MCNext ==
  /\ UNCHANGED about
  /\ \/ about = "scope" /\ Next /\ UNCHANGED text
     \/ about = "order" /\ LoadNext /\ UNCHANGED vars

MCSpec == MCInit /\ [][MCNext]_<<about, vars, text>>
===============================================================================
