---------------------------- MODULE Reparse ----------------------------
(***************************************************************************)
(* The incremental reparse (crates/arity-parser/src/parser/reparse.rs) and *)
(* the tree the database keeps with it (incremental.rs, parsed_document):  *)
(* each edit is tried as the relex of one token, then as the reparse of    *)
(* the enclosing block, then of the enclosing top-level statement; when    *)
(* none applies the text is parsed afresh.                                 *)
(*                                                                         *)
(* Positions are byte offsets from 0, ranges half open.                    *)
(***************************************************************************)
EXTENDS RParser

CONSTANTS
  Seeds,       \* the texts a session starts from
  Inserts,     \* what one edit may insert
  MaxReplaced, \* the longest range one edit replaces
  MaxEdits     \* the edits of one session

ASSUME ReparseAssumption ==
  /\ MaxReplaced \in Nat
  /\ MaxEdits \in Nat
  /\ <<>> \in Inserts

VARIABLES
  text,    \* the document
  tree,    \* the events of the tree kept for it
  ds,      \* the diagnostics kept with the tree
  edits    \* edits made so far

vars == <<text, tree, ds, edits>>

------------------------------------------------------------------------
(* Places in a tree.  A place is the index of an event.                    *)

IsTok(ev, x)  == ev[x][1] = "tok"
IsOpen(ev, x) == ev[x][1] = "open"

\* Where each event of a tree begins, and how deep it is: a sequence one
\* longer than the tree, the last place being its end.
RECURSIVE PlacesFrom(_, _, _)
PlacesFrom(ev, at, level) ==
  IF ev = <<>> THEN <<[at |-> at, level |-> level]>>
  ELSE <<[at |-> at, level |-> level]>> \o
       PlacesFrom(Tail(ev), IF IsTok(ev, 1) THEN at + Len(Head(ev)[3]) ELSE at,
                  CASE IsTok(ev, 1) -> level [] IsOpen(ev, 1) -> level + 1 [] OTHER -> level - 1)

Places(ev) == PlacesFrom(ev, 0, 0)

\* The event after which the node opened at o is closed.
Closing(pl, o) == CHOOSE c \in o + 1..Len(pl) - 1 :
                    /\ pl[c + 1].level = pl[o].level
                    /\ \A z \in o + 1..c : pl[z].level > pl[o].level

Splice(t, s, e, ins) == SubSeq(t, 1, s) \o ins \o SubSeq(t, e + 1, Len(t))

Shift(d, delta) == <<d[1], d[2] + delta, d[3] + delta>>

None == [ok |-> FALSE, ev |-> <<>>, ds |-> {}]

------------------------------------------------------------------------
(* One token.                                                              *)

TokenKinds == {"ident", "comment", "ws"}

\* The token the edit lies in; an insertion must fall strictly inside it.
TokensAround(ev, pl, s, e) ==
  {x \in 1..Len(ev) : /\ IsTok(ev, x) /\ ev[x][2] \in TokenKinds
                      /\ pl[x].at <= s /\ e <= pl[x + 1].at
                      /\ s = e => pl[x].at < s /\ s < pl[x + 1].at}

\* Relexed alone it is still one token of its kind, and the character that
\* follows does not extend it.
RelexesAlone(kind, txt) == LET ts == Lex(txt) IN Len(ts) = 1 /\ ts[1].k = kind

\* (wrong) Without the forward context.
BoundaryAssumed(stmt, rest) == TRUE

StopsBefore(kind, txt, rest) ==
  rest # <<>> => LET first == Head(Lex(Append(txt, Head(rest))))
                 IN  first.k = kind /\ first.txt = txt

Touches(d, s, e) == d[2] < e /\ d[3] > s

ReparseTokenAt(ev, x, t0, t1, t, diags, txt, delta) ==
  IF /\ txt # <<>>
     /\ RelexesAlone(ev[x][2], txt)
     /\ StopsBefore(ev[x][2], txt, SubSeq(t, t1 + 1, Len(t)))
     /\ \A d \in diags : ~Touches(d, t0, t1)
  THEN [ok |-> TRUE, ev |-> [ev EXCEPT ![x] = <<"tok", ev[x][2], txt>>],
        ds |-> {IF d[2] >= t1 THEN Shift(d, delta) ELSE d : d \in diags}]
  ELSE None

ReparseToken(ev, pl, t, diags, s, e, ins) ==
  LET Within(x) == ReparseTokenAt(ev, x, pl[x].at, pl[x + 1].at, t, diags,
                  Splice(ev[x][3], s - pl[x].at, e - pl[x].at, ins), Len(ins) - (e - s))
      Of(around) == IF around = {} THEN None ELSE Within(CHOOSE x \in around : TRUE)
  IN  Of(TokensAround(ev, pl, s, e))

------------------------------------------------------------------------
(* One block, one statement.                                               *)

\* The node at o, reparsed from its edited text, in the place of the old one:
\* diagnostics before it stay, those behind it move, those inside are the
\* reparse's own.
Replace(ev, pl, o, c, diags, r, delta) ==
  LET b0 == pl[o].at
      b1 == pl[c].at
  IN  [ok |-> TRUE,
       ev |-> SubSeq(ev, 1, o - 1) \o r.ev \o SubSeq(ev, c + 1, Len(ev)),
       ds |-> {d \in diags : d[3] <= b0}
              \union {Shift(d, delta) : d \in {x \in diags : x[3] > b0 /\ x[2] >= b1}}
              \union {Shift(d, b0) : d \in r.ds}]

\* An isolated text: one expression, every token, one node of the kind.
Alone(ts, kind) ==
  LET Whole(r) == IF /\ Parsed(r) /\ r.s = 1 /\ r.e = Len(ts) + 1
                     /\ IsOpen(r.ev, 1) /\ r.ev[1][2] = kind
                  THEN r ELSE Nothing
  IN  Whole(Expr(ts, 1, 0, FALSE, FALSE))

Blocks(ev, pl, s, e) == {o \in 1..Len(ev) : /\ ev[o] = Opens("BLOCK")
                                            /\ pl[o].at < s
                                            /\ e < pl[Closing(pl, o)].at}

\* The text of the node from o to c, edited.
EditedNode(pl, o, c, t, s, e, ins) ==
  Splice(SubSeq(t, pl[o].at + 1, pl[c].at), s - pl[o].at, e - pl[o].at, ins)

ReparseBlock(ev, pl, t, diags, s, e, ins) ==
  LET Done(o, c, r) == IF Parsed(r) /\ r.ev[Len(r.ev) - 1][2] = "}"
                       THEN Replace(ev, pl, o, c, diags, r, Len(ins) - (e - s)) ELSE None
      Reparsed(o, c) == Done(o, c, Alone(Lex(EditedNode(pl, o, c, t, s, e, ins)), "BLOCK"))
      Inner(o) == Reparsed(o, Closing(pl, o))
      Of(around) == IF around = {} THEN None ELSE Inner(CHOOSE x \in around : \A y \in around : y <= x)
  IN  Of(Blocks(ev, pl, s, e))

TopLevel(ev, pl) == {o \in 1..Len(ev) : IsOpen(ev, o) /\ pl[o].level = 0}

\* The statement an edit is in: the root's node that holds its range.  An
\* insertion between two children of the root belongs to the one before it.
Statements(ev, pl, s, e) ==
  {o \in TopLevel(ev, pl) :
     /\ pl[o].at <= s /\ e <= pl[Closing(pl, o)].at
     /\ s = e => pl[o].at < s \/ (o = 1 /\ s = 0)}

\* With the text up to the end of the next node appended, the first
\* expression still ends where the statement does.
BoundaryStable(stmt, rest) ==
  LET EndsWith(ts, r) == Parsed(r) /\ ts[r.e - 1].e = Len(stmt)
      Ends(ts) == EndsWith(ts, Expr(ts, 1, 0, FALSE, FALSE))
  IN  rest # <<>> => Ends(Lex(stmt \o rest))

\* The end of the next node of the root after the place c.
NextEnd(ev, pl, t, c) ==
  LET After(S) == IF S = {} THEN Len(t) ELSE pl[Closing(pl, CHOOSE x \in S : \A y \in S : x <= y)].at
  IN  After({x \in TopLevel(ev, pl) : x > c})

ReparseTopLevel(ev, pl, t, diags, s, e, ins) ==
  LET Done(o, c, stmt, r) ==
        IF Parsed(r) /\ BoundaryStable(stmt, SubSeq(t, pl[c].at + 1, NextEnd(ev, pl, t, c)))
        THEN Replace(ev, pl, o, c, diags, r, Len(ins) - (e - s)) ELSE None
      Reparsed(o, c, stmt) == Done(o, c, stmt, Alone(Lex(stmt), ev[o][2]))
      Inner(o, c) == Reparsed(o, c, EditedNode(pl, o, c, t, s, e, ins))
      Of(at) == IF at = {} THEN None
                ELSE Inner(CHOOSE x \in at : TRUE, Closing(pl, CHOOSE x \in at : TRUE))
  IN  Of(Statements(ev, pl, s, e))

ReparseEdit(ev, t, diags, s, e, ins) ==
  LET OrStatement(pl, block) ==
        IF block.ok THEN block ELSE ReparseTopLevel(ev, pl, t, diags, s, e, ins)
      OrBlock(pl, token) ==
        IF token.ok THEN token ELSE OrStatement(pl, ReparseBlock(ev, pl, t, diags, s, e, ins))
      Of(pl) == OrBlock(pl, ReparseToken(ev, pl, t, diags, s, e, ins))
  IN  Of(Places(ev))

------------------------------------------------------------------------
(* A session.                                                              *)

Holds(p) == tree = p.ev /\ ds = p.ds

Init ==
  /\ text \in Seeds
  /\ Holds(Parse(text))
  /\ edits = 0

Becomes(p) == tree' = p.ev /\ ds' = p.ds

\* A tree that lost or repeated bytes has ranges the text does not have: the
\* session is followed up to such a tree.
Edit(s, e, ins) ==
  /\ edits < MaxEdits
  /\ TreeText(tree) = text
  /\ text' = Splice(text, s, e, ins)
  /\ text' # text
  /\ edits' = edits + 1
  /\ LET Step(r) == IF r.ok THEN Becomes(r) ELSE Becomes(Parse(text'))
     IN  Step(ReparseEdit(tree, text, ds, s, e, ins))

Next == \E s \in 0..Len(text) : \E e \in s..Len(text), ins \in Inserts :
           e - s <= MaxReplaced /\ Edit(s, e, ins)

Spec == Init /\ [][Next]_vars

------------------------------------------------------------------------
(* Properties.                                                             *)

IsFullParse(t, ev, diags) == Parse(t) = [ev |-> ev, ds |-> diags]

\* The invariant reparse.rs states: a reparse yields the tree and the
\* diagnostics of a full parse of the edited text (lines 26 to 31).
ReparseIsFullParse == IsFullParse(text, tree, ds)

NamesNoConstant(ts) == \A k \in DOMAIN ts : ~IsReserved(ts[k].txt)

\* From an exact tree without diagnostics, an edit that leaves no reserved
\* constant in the text yields the exact tree: neither the merge guards nor
\* the isolated parses let an edit change how its surroundings are read.
CleanEditsAreExact ==
  [][ds = {} /\ IsFullParse(text, tree, ds) =>
       \A new \in {[text |-> text', tree |-> tree', ds |-> ds']} :
          NamesNoConstant(Lex(new.text)) => IsFullParse(new.text, new.tree, new.ds)]_vars

\* The two ways recovery misspells a text: the blanks and comments of an `if (`
\* without a condition are dropped, and what the default value of a parameter
\* takes from the `)` of its list on is held twice.
DropsCondition(p, spelt) ==
  /\ \E d \in p.ds : d[1] = "if condition"
  /\ \E s \in 0..Len(text) : \E e \in s..Len(text) :
       /\ spelt = Splice(text, s, e, <<>>)
       /\ \A x \in s + 1..e : \E k \in DOMAIN Lex(text) :
            Lex(text)[k].k \in Trivia /\ Lex(text)[k].s < x /\ x <= Lex(text)[k].e
RepeatsDefault(p, spelt) ==
  /\ p.ds # {}
  /\ \E x, y \in DOMAIN text : x < y /\ text[x] = "\\" /\ text[y] = "="
  /\ \E s \in {x \in DOMAIN text : text[x] = ")"} : \E e \in s..Len(text) :
       spelt = SubSeq(text, 1, e) \o SubSeq(text, s, Len(text))

\* Every other text, whatever is missing in it, is held by its tree byte for byte.
RecoveredTreesAreLossless ==
  LET Held(p, spelt) == spelt = text \/ DropsCondition(p, spelt) \/ RepeatsDefault(p, spelt)
      Of(p) == Held(p, TreeText(p.ev))
  IN  Of(Parse(text))

\* The parser is lossless: the tree holds every byte of any text.
TreesAreLossless == TreeText(Parse(text).ev) = text
========================================================================
