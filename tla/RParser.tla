---------------------------- MODULE RParser ----------------------------
(***************************************************************************)
(* The R parser (crates/arity-parser/src/parser): the lexer's maximal      *)
(* munch, the precedence climber of expr.rs, calls, blocks, `if`, lambdas, *)
(* the statement list, and the error recovery of each.                     *)
(*                                                                         *)
(* A text is a sequence of atoms, one atom standing for one byte: name     *)
(* characters "a" and "L", the reserved constant "T", the keywords "if"    *)
(* and "else" (an atom that stands alone in a word is the keyword, as the  *)
(* lexer decides on the whole word), the digit "1", punctuation, "==", "+" *)
(* and "*" for the left-associative operators, "^" for the right-          *)
(* associative one and "<-" for the assignments.  Strings, subsetting, loops and       *)
(* roxygen are left out.                                                   *)
(*                                                                         *)
(* The tree is the event sequence tree_builder.rs turns into nodes, each   *)
(* token event carrying its kind and text.  The operators are recursive:   *)
(* the module is for TLC only.                                             *)
(***************************************************************************)
EXTENDS Naturals, Sequences, FiniteSets

Words  == {"a", "L", "T", "if", "else"}
Digits == {"1"}

Opens(kind)     == <<"open", kind, <<>>>>
Close           == <<"close", "", <<>>>>
Node(kind, ev)  == <<Opens(kind)>> \o ev \o <<Close>>

------------------------------------------------------------------------
(* The lexer.                                                              *)

\* The first position from i on whose atom is not in S.
RunEnd(t, i, S) == CHOOSE j \in i..Len(t) + 1 :
                      /\ j <= Len(t) => t[j] \notin S
                      /\ \A k \in i..j - 1 : t[k] \in S

NumberEnd(t, i) == LET j == RunEnd(t, i, Digits)
                   IN  IF j <= Len(t) /\ t[j] = "L" THEN j + 1 ELSE j

TokenEnd(t, i) ==
  CASE t[i] \in Words  -> RunEnd(t, i, Words \union Digits)
    [] t[i] \in Digits -> NumberEnd(t, i)
    [] t[i] = " "      -> RunEnd(t, i, {" "})
    [] t[i] = "#"      -> CHOOSE j \in i..Len(t) + 1 :
                             /\ j <= Len(t) => t[j] = "nl"
                             /\ \A k \in i..j - 1 : t[k] # "nl"
    [] OTHER           -> IF i < Len(t) /\ t[i] \in {"=", "*"} /\ t[i + 1] = t[i] THEN i + 2 ELSE i + 1

TokenKind(txt) ==
  CASE txt[1] \in Words  -> IF txt \in {<<"if">>, <<"else">>} THEN txt[1] ELSE "ident"
    [] txt[1] \in Digits -> "int"
    [] txt[1] = " "      -> "ws"
    [] txt[1] = "#"      -> "comment"
    [] txt = <<"=", "=">> -> "=="
    [] txt = <<"*", "*">> -> "^"
    [] OTHER             -> txt[1]

RECURSIVE LexFrom(_, _)
LexFrom(t, i) ==
  IF i > Len(t) THEN <<>>
  ELSE LET j   == TokenEnd(t, i)
           txt == SubSeq(t, i, j - 1)
       IN  <<[k |-> TokenKind(txt), txt |-> txt, s |-> i - 1, e |-> j - 1]>> \o LexFrom(t, j)

Lex(t) == LexFrom(t, 1)

------------------------------------------------------------------------
(* The token cursor.                                                       *)

Kind(ts, i) == IF i <= Len(ts) THEN ts[i].k ELSE "eof"

Ws     == {"ws"}
WsNl   == {"ws", "nl"}
Trivia == {"ws", "nl", "comment"}

Skip(ts, i, S) == CHOOSE j \in i..Len(ts) + 1 :
                     /\ Kind(ts, j) \notin S
                     /\ \A k \in i..j - 1 : Kind(ts, k) \in S

LineEnd(ts, i) ==
  LET j == CHOOSE j \in i..Len(ts) + 1 :
              /\ Kind(ts, j) \in {"nl", "eof"}
              /\ \A k \in i..j - 1 : Kind(ts, k) # "nl"
  IN  IF j <= Len(ts) THEN j + 1 ELSE j

Toks(ts, i, j) == [x \in 1..IF j > i THEN j - i ELSE 0 |->
                     <<"tok", ts[i + x - 1].k, ts[i + x - 1].txt>>]

At(ts, msg, i) == <<msg, ts[i].s, ts[i].e>>

Nothing   == [s |-> 0, e |-> 0, ev |-> <<>>, ds |-> {}]
Parsed(r) == r.e # 0
Atom(ts, i) == [s |-> i, e |-> i + 1, ev |-> Toks(ts, i, i + 1), ds |-> {}]

\* (wrong) What was read before the error is left out of the ERROR node.
ErrorFromThere(ts, s, from, ds) ==
  [s |-> s, e |-> LineEnd(ts, from),
   ev |-> Node("ERROR", Toks(ts, from, LineEnd(ts, from))), ds |-> ds]

\* Recovery: an ERROR node from s through the line end at or after `from`.
ErrorToLineEnd(ts, s, from, ds) ==
  [s |-> s, e |-> LineEnd(ts, from),
   ev |-> Node("ERROR", Toks(ts, s, LineEnd(ts, from))), ds |-> ds]

Assignments == {"<-", "="}
LeftPower(k)  == CASE k \in Assignments -> 1 [] k = "==" -> 80 [] k = "+" -> 90
                   [] k = "*" -> 100 [] k = "^" -> 140
RightPower(k) == IF k \in Assignments \union {"^"} THEN LeftPower(k) ELSE LeftPower(k) + 1
Operators     == Assignments \union {"==", "+", "*", "^"}

\* The operator that continues an operand ending at i, 0 when there is none:
\* a newline or comment ends the expression unless it is inside brackets.
NextOperator(ts, i, brackets) ==
  LET w == Skip(ts, i, Ws)
      j == IF Kind(ts, w) \in {"nl", "comment"} /\ brackets THEN Skip(ts, i, Trivia) ELSE w
  IN  IF Kind(ts, j) \in Operators THEN j ELSE 0

\* Constants R reserves reach the parser as identifiers.
IsReserved(txt) == txt = <<"T">>

------------------------------------------------------------------------
(* Expressions.                                                            *)

RECURSIVE Expr(_, _, _, _, _), Infix(_, _, _, _), Postfix(_, _, _), Prefix(_, _, _, _),
          BlockFrom(_, _, _, _, _, _), BlockAfter(_, _, _, _, _, _, _), ArgsFrom(_, _, _, _, _, _), ArgsAfter(_, _, _, _),
          FormalsFrom(_, _, _, _, _, _, _)

\* The statement list's separator check: a statement that follows another
\* with no newline or `;` between is flagged, except after a recovery.
Separation(ts, prev, r) ==
  IF /\ prev.end # 0 /\ ~prev.recovered /\ r.ds = {}
     /\ \A k \in prev.end..r.s - 1 : Kind(ts, k) \notin {"nl", ";"}
  THEN {At(ts, "separator", r.s)} ELSE {}

\* A comment is an atom, not a statement.
AfterStatement(ts, prev, r) ==
  IF Kind(ts, r.s) = "comment" THEN prev ELSE [end |-> r.e, recovered |-> r.ds # {}]

StatementDiagnostics(ts, prev, r) ==
  r.ds \union IF Kind(ts, r.s) = "comment" THEN {} ELSE Separation(ts, prev, r)

BlockFrom(ts, start, i, ev, ds, prev) ==
  LET n == Skip(ts, i, Ws)
  IN CASE Kind(ts, n) = "eof" ->
            [s |-> start, e |-> Len(ts) + 1, ds |-> ds \union {At(ts, "close block", start)},
             ev |-> Node("BLOCK", ev \o Toks(ts, i, Len(ts) + 1))]
       [] Kind(ts, n) = "}" ->
            [s |-> start, e |-> n + 1, ds |-> ds, ev |-> Node("BLOCK", ev \o Toks(ts, i, n + 1))]
       [] Kind(ts, n) \in {"nl", ";"} ->
            BlockFrom(ts, start, n + 1, ev \o Toks(ts, i, n + 1), ds, prev)
       [] OTHER -> BlockAfter(ts, start, i, ev, ds, prev, Expr(ts, i, 0, FALSE, FALSE))

BlockAfter(ts, start, i, ev, ds, prev, r) ==
  IF Parsed(r)
  THEN BlockFrom(ts, start, r.e, ev \o Toks(ts, i, r.s) \o r.ev,
                 ds \union StatementDiagnostics(ts, prev, r), AfterStatement(ts, prev, r))
  ELSE BlockFrom(ts, start, i + 1, ev \o Toks(ts, i, i + 1), ds,
                 [end |-> i + 1, recovered |-> TRUE])

NoStatement == [end |-> 0, recovered |-> FALSE]

Parenthesised(ts, i, inner, c) ==
  LET last == IF Kind(ts, c) = ")" THEN c + 1 ELSE c
  IN  [s |-> i, e |-> last,
       ev |-> Node("PAREN", Toks(ts, i, inner.s) \o inner.ev \o Toks(ts, inner.e, last)),
       ds |-> inner.ds \union IF last = c THEN {At(ts, "expected )", i)} ELSE {}]

Paren(ts, i) ==
  LET Around(inner) ==
        IF Parsed(inner) THEN Parenthesised(ts, i, inner, Skip(ts, inner.e, Trivia))
        ELSE ErrorToLineEnd(ts, i, i + 1, {At(ts, "operand of (", i)})
  IN  Around(Expr(ts, Skip(ts, i + 1, Trivia), 0, TRUE, TRUE))

Unary(ts, i, brackets) ==
  LET Of(x) == IF Parsed(x)
               THEN [s |-> i, e |-> x.e, ev |-> Node("UNARY", Toks(ts, i, x.s) \o x.ev), ds |-> x.ds]
               ELSE ErrorToLineEnd(ts, i, i + 1, {At(ts, "unary operand", i)})
  IN  Of(Expr(ts, i + 1, 130, TRUE, brackets))

Prefix(ts, start, newlines, brackets) ==
  LET i == Skip(ts, start, IF newlines THEN WsNl ELSE Ws)
      k == Kind(ts, i)
  IN CASE k = "+" -> Unary(ts, i, brackets)
       [] k \in {"ident", "int", "comment"} -> Atom(ts, i)
       [] k = "(" -> Paren(ts, i)
       [] k = "{" -> BlockFrom(ts, i, i + 1, Toks(ts, i, i + 1), {}, NoStatement)
       [] k \in (Operators \ {"+"}) \union {",", ";"} ->
            ErrorToLineEnd(ts, i, i + 1, {At(ts, "operator at start", i)})
       [] OTHER -> Nothing

\* An argument from j: its value x, or the tokens up to `stop` without one.
ArgValue(ts, j, x, stop, bare) ==
  IF Parsed(x)
  THEN [e |-> x.e, ev |-> Toks(ts, j, x.s) \o x.ev, ds |-> x.ds,
        note |-> bare /\ x.e = x.s + 1 /\ Kind(ts, x.s) = "comment"]
  ELSE [e |-> stop, ev |-> Toks(ts, j, stop), ds |-> {}, note |-> FALSE]

NamedArg(ts, j, eq, v) ==
  IF Kind(ts, v) \in {",", ")", "eof"} THEN ArgValue(ts, j, Nothing, v, FALSE)
  ELSE ArgValue(ts, j, Expr(ts, v, 0, TRUE, TRUE), eq + 1, FALSE)

ArgAt(ts, j, eq) ==
  IF Kind(ts, j) = "ident" /\ Kind(ts, eq) = "=" THEN NamedArg(ts, j, eq, Skip(ts, eq + 1, Trivia))
  ELSE ArgValue(ts, j, Expr(ts, j, 0, TRUE, TRUE), j + 1, TRUE)

MissingComma(ts, i, j, delimited, afterComment) ==
  IF /\ delimited /\ ~afterComment /\ Kind(ts, j) # "comment"
     /\ \A k \in i..j - 1 : Kind(ts, k) # "nl"
  THEN {At(ts, "comma", j)} ELSE {}

\* One slot of an argument list per call; stops at the `)` or the end.
ArgsFrom(ts, i, ev, ds, delimited, afterComment) ==
  LET j == Skip(ts, i, WsNl)
      before == ev \o Toks(ts, i, j)
      said   == ds \union MissingComma(ts, i, j, delimited, afterComment)
  IN CASE Kind(ts, j) \in {")", "eof"} -> [e |-> j, ev |-> before, ds |-> ds]
       [] Kind(ts, j) = "," ->
            ArgsFrom(ts, j + 1, before \o Node("ARG", <<>>) \o Toks(ts, j, j + 1), said, FALSE, FALSE)
       [] OTHER -> ArgsAfter(ts, before, said, ArgAt(ts, j, Skip(ts, j + 1, Trivia)))

ArgsAfter(ts, before, ds, arg) ==
  LET n     == Skip(ts, arg.e, WsNl)
      whole == before \o Node("ARG", arg.ev) \o Toks(ts, arg.e, n)
  IN  IF Kind(ts, n) = ","
      THEN ArgsFrom(ts, n + 1, whole \o Toks(ts, n, n + 1), ds \union arg.ds, FALSE, FALSE)
      ELSE ArgsFrom(ts, n, whole, ds \union arg.ds, TRUE, arg.note)

Call(ts, callee, lparen, args) ==
  LET last == IF Kind(ts, args.e) = ")" THEN args.e + 1 ELSE args.e
  IN  [s  |-> callee.s, e |-> last,
       ev |-> Node("CALL", callee.ev \o Toks(ts, callee.e, lparen + 1)
                           \o Node("ARGS", args.ev) \o Toks(ts, args.e, last)),
       ds |-> callee.ds \union args.ds
              \union IF last = args.e THEN {At(ts, "close call", lparen)} ELSE {}]

Postfix(ts, l, brackets) ==
  LET p == Skip(ts, l.e, IF brackets THEN WsNl ELSE Ws)
  IN  IF Kind(ts, p) = "("
      THEN Postfix(ts, Call(ts, l, p, ArgsFrom(ts, p + 1, <<>>, {}, FALSE, FALSE)), brackets)
      ELSE l

\* l op r, and whatever operators follow.
Joined(ts, l, op, r, power, brackets) ==
  IF ~Parsed(r) THEN ErrorToLineEnd(ts, l.s, op + 1, l.ds \union {At(ts, "right operand", op)})
  ELSE Infix(ts,
         [s |-> l.s, e |-> r.e, ds |-> l.ds \union r.ds,
          ev |-> Node(IF Kind(ts, op) \in Assignments THEN "ASSIGNMENT" ELSE "BINARY",
                      l.ev \o Toks(ts, l.e, r.s) \o r.ev)],
         power, brackets)

Operation(ts, l, op, power, brackets) ==
  IF op = 0 \/ LeftPower(Kind(ts, op)) < power THEN l
  ELSE Joined(ts, l, op,
              Expr(ts, Skip(ts, op + 1, Trivia), RightPower(Kind(ts, op)), TRUE, brackets),
              power, brackets)

Infix(ts, l0, power, brackets) ==
  LET From(l) == Operation(ts, l, NextOperator(ts, l.e, brackets), power, brackets)
  IN  From(Postfix(ts, l0, brackets))

------------------------------------------------------------------------
(* `if` and lambdas.                                                       *)

Says(c, ts, msg, i) == IF c THEN {At(ts, msg, i)} ELSE {}

\* Up to and with the `)`.
IfHead(ts, start, c0, c1, cond) ==
  LET paren == Kind(ts, c0) = "("
      e1    == IF Parsed(cond) THEN cond.e ELSE c1
      rp    == Skip(ts, e1, Trivia)
      e2    == IF paren /\ Kind(ts, rp) = ")" THEN rp + 1 ELSE e1
      head  == IF Parsed(cond) THEN Toks(ts, start, cond.s) \o cond.ev
               ELSE Toks(ts, start, IF paren THEN c0 + 1 ELSE c0) \o Node("ERROR", <<>>)
  IN  [e |-> e2, ev |-> head \o Toks(ts, e1, e2),
       ds |-> cond.ds \union Says(~paren, ts, "if (", start)
              \union Says(~Parsed(cond), ts, "if condition", start)
              \union Says(paren /\ e2 = e1, ts, "if )", start)]

IfThen(ts, start, h, then) ==
  LET e3 == IF Parsed(then) THEN then.e ELSE Skip(ts, h.e, WsNl)
  IN  [e |-> e3, ds |-> h.ds \union then.ds \union Says(~Parsed(then), ts, "then", start),
       ev |-> h.ev \o IF Parsed(then) THEN Toks(ts, h.e, then.s) \o then.ev
                       ELSE Toks(ts, h.e, e3) \o Node("ERROR", <<>>)]

IfElse(ts, start, b, el, other) ==
  LET e4 == IF Parsed(other) THEN other.e ELSE Skip(ts, el + 1, {"ws", "comment"})
  IN  [s |-> start, e |-> e4,
       ev |-> Node("IF", b.ev \o IF Parsed(other) THEN Toks(ts, b.e, other.s) \o other.ev
                                  ELSE Toks(ts, b.e, e4) \o Node("ERROR", <<>>)),
       ds |-> b.ds \union other.ds \union Says(~Parsed(other), ts, "else", el)]

If(ts, start) ==
  LET c0      == Skip(ts, start + 1, Trivia)
      paren   == Kind(ts, c0) = "("
      c1      == IF paren THEN Skip(ts, c0 + 1, Trivia) ELSE c0
      Body(h) == IfThen(ts, start, h, Expr(ts, Skip(ts, h.e, Trivia), 0, FALSE, FALSE))
      Else(b, el) ==
        IF Kind(ts, el) = "else"
        THEN IfElse(ts, start, b, el, Expr(ts, Skip(ts, el + 1, Trivia), 0, FALSE, FALSE))
        ELSE [s |-> start, e |-> b.e, ev |-> Node("IF", b.ev), ds |-> b.ds]
      Rest(b) == Else(b, Skip(ts, b.e, Trivia))
  IN  Rest(Body(IfHead(ts, start, c0, c1, Expr(ts, c1, 0, paren, paren))))

\* The `)` of a parameter list that opens before i, Len(ts) + 1 if none.
RECURSIVE ParamsClose(_, _, _)
ParamsClose(ts, i, depth) ==
  CASE Kind(ts, i) = "eof" -> i
    [] Kind(ts, i) = "("   -> ParamsClose(ts, i + 1, depth + 1)
    [] Kind(ts, i) = ")"   -> IF depth = 1 THEN i ELSE ParamsClose(ts, i + 1, depth - 1)
    [] OTHER               -> ParamsClose(ts, i + 1, depth)

\* The walk over the formals up to `close`.  A default value may run past it.
FormalsFrom(ts, i, close, named, comma, ev, ds) ==
  LET k    == Kind(ts, i)
      v    == LET w == Skip(ts, i + 1, Trivia) IN IF w < close THEN w ELSE close
      name == k = "ident" /\ ~IsReserved(ts[i].txt)
      nameless == IF named THEN {} ELSE {At(ts, "parameter name", i)}
      Default(x) ==
        FormalsFrom(ts, IF Parsed(x) THEN x.e ELSE v, close, TRUE, comma,
          ev \o IF Parsed(x) THEN Toks(ts, i, x.s) \o x.ev ELSE Toks(ts, i, v),
          ds \union nameless \union x.ds)
  IN CASE i >= close ->
            [ev |-> ev, ds |-> ds \union Says(comma /\ ~named, ts, "parameter name", close)]
       [] i < close /\ k = "=" ->
            IF v = close \/ Kind(ts, v) = ","
            THEN FormalsFrom(ts, v, close, TRUE, comma, ev \o Toks(ts, i, v),
                             ds \union nameless \union {At(ts, "default", i)})
            ELSE Default(Expr(ts, v, 0, TRUE, TRUE))
       [] i < close /\ k = "," ->
            FormalsFrom(ts, i + 1, close, FALSE, TRUE, ev \o Toks(ts, i, i + 1), ds \union nameless)
       [] i < close /\ k \in Trivia ->
            FormalsFrom(ts, i + 1, close, named, comma, ev \o Toks(ts, i, i + 1), ds)
       [] OTHER ->
            FormalsFrom(ts, i + 1, close, TRUE, comma, ev \o Toks(ts, i, i + 1),
              ds \union (IF ~name THEN {At(ts, "parameter name", i)}
                         ELSE IF named THEN {At(ts, "parameter comma", i)} ELSE {}))

\* Up to and with the `)`; the rest of the line when there is none.
FunctionHead(ts, start, p, close) ==
  LET eol == CHOOSE j \in p..Len(ts) + 1 : /\ Kind(ts, j) \in {"nl", "eof"}
                                            /\ \A k \in p..j - 1 : Kind(ts, k) # "nl"
      With(fs) == [e |-> close + 1, ds |-> fs.ds,
                   ev |-> Toks(ts, start, p + 1) \o fs.ev \o Toks(ts, close, close + 1)]
  IN CASE Kind(ts, p) # "(" ->
            [e |-> p, ev |-> Toks(ts, start, p), ds |-> {At(ts, "params (", start)}]
       [] close > Len(ts) ->
            [e |-> eol, ev |-> Toks(ts, start, eol) \o Node("ERROR", <<>>),
             ds |-> {At(ts, "params )", start)}]
       [] OTHER -> With(FormalsFrom(ts, p + 1, close, FALSE, FALSE, <<>>, {}))

FunctionBody(ts, start, h, body) ==
  LET e2 == IF Parsed(body) THEN body.e ELSE Skip(ts, h.e, WsNl)
  IN  [s |-> start, e |-> e2,
       ev |-> Node("FUNCTION", h.ev \o IF Parsed(body) THEN Toks(ts, h.e, body.s) \o body.ev
                                       ELSE Toks(ts, h.e, e2) \o Node("ERROR", <<>>)),
       ds |-> body.ds \union h.ds \union Says(~Parsed(body), ts, "function body", start)]

Function(ts, start, brackets) ==
  LET p == Skip(ts, start + 1, Trivia)
      Of(h) == FunctionBody(ts, start, h, Expr(ts, Skip(ts, h.e, Trivia), 0, brackets, brackets))
  IN  Of(FunctionHead(ts, start, p, IF Kind(ts, p) = "(" THEN ParamsClose(ts, p + 1, 1) ELSE p))

Expr(ts, start, power, newlines, brackets) ==
  LET i == Skip(ts, start, IF newlines THEN WsNl ELSE Ws)
      From(p) == IF Parsed(p) /\ Kind(ts, p.s) # "comment" THEN Infix(ts, p, power, brackets) ELSE p
  IN CASE Kind(ts, i) = "if" -> If(ts, i)
       [] Kind(ts, i) = "\\" -> Function(ts, i, brackets)
       [] OTHER -> From(Prefix(ts, start, newlines, brackets))

------------------------------------------------------------------------
(* The statement list of the root.                                         *)

RECURSIVE RootFrom(_, _, _, _, _), RootAfter(_, _, _, _, _, _)
RootFrom(ts, i, ev, ds, prev) ==
  CASE Kind(ts, i) = "eof" -> [ev |-> ev, ds |-> ds]
    [] Kind(ts, i) \in {"ws", "nl", ";"} -> RootFrom(ts, i + 1, ev \o Toks(ts, i, i + 1), ds, prev)
    [] OTHER -> RootAfter(ts, i, ev, ds, prev, Expr(ts, i, 0, FALSE, FALSE))

RootAfter(ts, i, ev, ds, prev, r) ==
  IF Parsed(r)
  THEN RootFrom(ts, r.e, ev \o r.ev, ds \union StatementDiagnostics(ts, prev, r),
                AfterStatement(ts, prev, r))
  ELSE RootFrom(ts, i + 1, ev \o Toks(ts, i, i + 1), ds \union {At(ts, "unexpected", i)},
                [end |-> i + 1, recovered |-> TRUE])

Parse(t) == RootFrom(Lex(t), 1, <<>>, {}, NoStatement)

\* The text a tree holds: its token events, in order.
RECURSIVE TreeText(_)
TreeText(ev) == IF ev = <<>> THEN <<>>
                ELSE IF Head(ev)[1] = "tok" THEN Head(ev)[3] \o TreeText(Tail(ev))
                ELSE TreeText(Tail(ev))
========================================================================
