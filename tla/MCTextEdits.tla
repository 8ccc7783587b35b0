---------------------------- MODULE MCTextEdits ----------------------------
(* TLC instance of TextEdits: one-byte names, a two-byte and a four-byte     *)
(* character; two characters share their first byte.                        *)
EXTENDS TextEdits
MCBytes == {"a", "n", "L", "p", "q", "A"}
MCWidth == [b \in MCBytes |-> CASE b \in {"a", "n"} -> 1 [] b = "L" -> 2
                                [] b = "A" -> 4 [] OTHER -> 0]
MCInitialTexts == {<<"a", "n", "a">>, <<"L", "p", "n", "a">>, <<"A", "p", "p", "p", "n">>}
MCPositions == [line : 0 .. 2, character : 0 .. 3]
MCInserts == {<<>>, <<"a", "n">>, <<"L", "q">>}
=============================================================================
