--------------------- MODULE MCWorkspaceMembership ---------------------
(* Two directories of two files under one workspace folder, one of them a  *)
(* package root nested in it.                                              *)
EXTENDS WorkspaceMembership

P(d, n) == [d |-> d, n |-> n]
PathOrderDef == <<P("p", "a"), P("p", "b"), P("q", "a"), P("q", "b")>>
FilesDef == {P("p", "a")}
NestedRoots == {"w", "p"}
OneRoot == {"p"}
OtherFolder == {"q"}
ExcludedDef == [r \in Root |-> IF r = "p" THEN {} ELSE {P("q", "b")}]
Pair(x, y) == [old |-> x, new |-> y]
SingleBatches == {{Pair(P("p", "a"), P("p", "b"))}, {Pair(P("p", "a"), P("q", "b"))},
                  {Pair(P("q", "a"), P("p", "a"))}}
ChainBatches == {{Pair(P("p", "a"), P("p", "b")), Pair(P("p", "b"), P("q", "a"))}}
NoRename == {}
AllBatches == SingleBatches \union ChainBatches
DirRenamesDef == {[old |-> "p", new |-> "q"], [old |-> "q", new |-> "p"]}
========================================================================
