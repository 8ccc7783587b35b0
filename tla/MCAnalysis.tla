----------------------------- MODULE MCAnalysis -----------------------------
(***************************************************************************)
(* Every short program over the operations that matter to each analysis,   *)
(* and every short file of statements and directives under `lint --fix`.   *)
(* The two share no state: a behaviour starts with what it is about and    *)
(* moves only that, and the other rests in one of its initial states.      *)
(***************************************************************************)
EXTENDS Bindings, ControlFlow, LintFix

VARIABLE about

Statement(op, body, alt) == [op |-> op, body |-> body, alt |-> alt]

\* The sequences of n statements, nested ones counted.
RECURSIVE Sequences(_, _, _)
Sequences(n, leaves, containers) ==
  LET single(k) == IF k = 1 THEN {Statement(o, <<>>, <<>>) : o \in leaves}
                   ELSE {Statement(o, b, <<>>) : o \in containers,
                                                  b \in Sequences(k - 1, leaves, containers)}
  IN  IF n = 0 THEN {<<>>}
      ELSE UNION {{<<s>> \o r : s \in single(k), r \in Sequences(n - k, leaves, containers)} :
                    k \in 1 .. n}

\* One variable, bound and read in every position.
ScopePrograms ==
  UNION {Sequences(n, {"get", "set", "update", "super", "exit"},
                   {"if", "while", "for", "fun", "funx"}) : n \in 1 .. 4}

\* A function body of jumps, each construct followed by a statement.
RECURSIVE Jumps(_)
Jumps(n) ==
  LET single(k) ==
        IF k = 1 THEN {Statement(o, <<>>, <<>>) : o \in {"break", "next", "return", "skip"}}
        ELSE {Statement(o, b, <<>>) : o \in {"if", "while", "repeat", "or"}, b \in Jumps(k - 1)}
             \union UNION {{Statement("ifelse", b, a) : b \in Jumps(i), a \in Jumps(k - 1 - i)} :
                            i \in 1 .. k - 2}
  IN  IF n = 0 THEN {<<>>}
      ELSE UNION {{<<s>> \o r : s \in single(k), r \in Jumps(n - k)} : k \in 1 .. n}

\* A break or next that no loop holds is no R program.
RECURSIVE Looped(_, _)
Looped(s, inLoop) ==
  \A i \in DOMAIN s :
    LET in == inLoop \/ s[i].op \in {"while", "repeat"} IN
    /\ s[i].op \in {"break", "next"} => inLoop
    /\ Looped(s[i].body, in) /\ Looped(s[i].alt, in)

FlowPrograms ==
  {<<Statement("fun", Append(s, Statement("skip", <<>>, <<>>)), <<>>)>> :
     s \in {t \in UNION {Jumps(n) : n \in 1 .. 4} : Looped(t, FALSE)}}

AllPrograms == ScopePrograms \union FlowPrograms

------------------------------------------------------------------------------
(* Files under `lint --fix`.  Rule "a" reports only, the fix of "b" leaves *)
(* an issue "a", and "d" deletes the statement, on demand.                 *)

NewLine == [k |-> "nl"]
Space == [k |-> "sp"]
Code(n, issues) == [k |-> "stmt", id |-> n, issues |-> issues]
Directive(n, tool, verb, scope) ==
  [k |-> "dir", id |-> n, tool |-> tool, verb |-> verb, scope |-> scope]

AnyDirective(n) ==
  {Directive(n, "lint", v, s) : v \in {"skip", "off", "skip-file"}, s \in {"a", "d"}} \union
  {Directive(n, "lint", "off", s) : s \in {"unnamed", "outdated"}} \union
  {Directive(n, "lint", "skip", "all"), Directive(n, "lint", "on", "unnamed"),
   Directive(n, "both", "off", "all"), Directive(n, "both", "on", "all")}

AnyCode(n) == {Code(n, i) : i \in {{}, {"a"}, {"b"}, {"d"}, {"a", "d"}, {"a", "b"}, {"b", "d"}}}

Lines(n) ==
  {<<NewLine>>} \union {<<x, NewLine>> : x \in AnyDirective(n) \union AnyCode(n)} \union
  {<<Code(n, i), Space, Directive(n, "lint", v, "a"), NewLine>> :
     i \in {{"d"}, {"a", "d"}}, v \in {"skip", "off"}} \union
  {<<Space, x, NewLine>> : x \in {Code(n, {"d"}), Directive(n, "lint", "skip", "a")}}

\* Fewer kinds of line, for regions that open and close in longer files.
RegionLines(n) ==
  {<<x, NewLine>> : x \in {Code(n, {"a"}), Code(n, {"a", "d"}),
     Directive(n, "lint", "off", "a"), Directive(n, "lint", "off", "d"),
     Directive(n, "lint", "on", "unnamed"), Directive(n, "lint", "skip", "a")}}

Files ==
  {<<>>} \union
  {x \o y \o z : x \in Lines(1), y \in Lines(2), z \in Lines(3)} \union
  {u \o v \o x \o y \o z : u \in RegionLines(1), v \in RegionLines(2), x \in RegionLines(3),
                           y \in RegionLines(4), z \in RegionLines(5)}

MCRuleOrder == <<"a", "b", "d">>
MCRewrites == [r \in {"b"} |-> {"a"}]
MCSelections ==
  {{"a", "b", "d", "outdated", "misplaced", "blanket"}, {"a", "outdated"}, {"b", "d", "outdated"}}

------------------------------------------------------------------------------
MCInit ==
  /\ model = NoModel /\ dead = {}
  /\ \/ about = "program" /\ file = <<>> /\ FixInit /\ Init
     \/ about = "fix" /\ program = <<Statement("get", <<>>, <<>>)>> /\ Init /\ FixInit

MCNext ==
  /\ UNCHANGED about
  /\ \/ about = "program" /\ Start /\ BuildModel /\ BuildFlow /\ UNCHANGED fixVars
     \/ about = "program" /\ Run /\ UNCHANGED <<model, dead>> /\ UNCHANGED fixVars
     \/ about = "fix" /\ FixNext /\ UNCHANGED <<vars, model, dead>>

MCSpec == MCInit /\ [][MCNext]_<<about, vars, model, dead, fixVars>>
==============================================================================
