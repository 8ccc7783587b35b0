--------------------------- MODULE MCReparse ---------------------------
(* Instances of Reparse for TLC: seeds of each shape the fragment has. *)
EXTENDS Reparse

SeedsDef == {
  <<"a", "+", "a", "nl", "a", "(", "a", ")">>,
  <<"{", "a", "nl", "a", "}">>,
  <<"if", "(", "a", ")", "{", "a", "}", "else", "{", "1", "}">>,
  <<"a", "<-", "\\", "(", "a", "=", "1", ")", "{", "a", "}">>,
  <<"a", "(", "a", "=", "1", ",", "{", "a", "}", ")">>,
  <<"(", "a", "nl", "+", "a", ")", "nl", "a", "^", "a">>,
  <<"\\", "(", "a", ")", " ", "a", "#", "a", "nl", "(", "a", ")">>,
  <<"if", "(", "a", ")", "a", "nl", "a", "^", "a", "nl", "(", "a", ")">>,
  <<"{", "if", "(", "a", ")", "{", "a", "}", "nl", "else", " ", "a", "}">>,
  <<"a", "(", "\\", "(", "a", ",", "a", ")", "a", "nl", "+", "a", ",", "a", ")">>,
  <<"{", "(", "{", "a", "#", "a", "nl", "}", ")", "nl", "a", "=", "+", "a", "}", "nl", "a">>,
  <<"a", "(", "a", ",", "#", "a", "nl", "a", ")", ";", "a", "*", "a", "(", ")">>,
  <<"1", " ", "a", "(", "a", ")">> }

InsertsDef == {<<>>, <<"a">>, <<"L">>, <<"T">>, <<"1">>, <<"(">>, <<")">>, <<"{">>, <<"}">>, <<"+">>,
               <<"nl">>, <<" ">>, <<";">>, <<",">>, <<"=">>, <<"if">>, <<"else">>, <<"#">>, <<"\\">>,
               <<"^">>, <<"+", "a">>, <<"(", "a", ")">>}
========================================================================
