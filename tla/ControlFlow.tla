----------------------------- MODULE ControlFlow -----------------------------
(***************************************************************************)
(* The control-flow graph of a function body or of a file's top level      *)
(* (src/semantic/cfg.rs), from which the rule `unreachable-code` takes     *)
(* what can never run.  The graph is lowered from the syntax in one pass;  *)
(* a statement is unreachable when it lies in a block that was made for    *)
(* what follows a statement control does not leave.                        *)
(***************************************************************************)
EXTENDS RPrograms

VARIABLE dead  \* the statements in unreachable blocks, over all regions

None == 0

NoLoopCtx == [header |-> None, after |-> None]

\* How control leaves a block: the blocks it may enter, or one of three marks.
Goto(t) == {t}
Branch(t, e) == {t, e}
Return == {-1}
Diverge == {-2}
Unreachable == {-3}

NewBlock(g) == Append(g, [stmts |-> {}, term |-> Return])
SetTerm(g, blk, term) == [g EXCEPT ![blk].term = term]
PushStmt(g, blk, p) == [g EXCEPT ![blk].stmts = @ \union {p}]

\* The graph so far, and the block control leaves through, None if it does not.
Lowered(g, exit) == [g |-> g, exit |-> exit]

\* (wrong) Only a jump out of an `if` counts, not one that ends a block.
HasPredecessorByBranch(g, blk) ==
  \E b \in 1 .. Len(g) : blk \in g[b].term /\ Cardinality(g[b].term) = 2

HasPredecessor(g, blk) == \E b \in 1 .. Len(g) : blk \in g[b].term

\* lower_jump
LowerJump(g, p, cur, loop, target) ==
  LET pushed == PushStmt(g, cur, p)
  IN  IF loop = NoLoopCtx THEN Lowered(pushed, cur)
      ELSE Lowered(SetTerm(pushed, cur, Goto(loop[target])), None)

RECURSIVE LowerSeq(_, _, _, _)

\* lower_if without an else: the false path goes straight to the join.
LowerIf(g, p, cur, loop) ==
  LET then == Len(g) + 1
      t == LowerSeq(NewBlock(g), Bodies(p), then, loop)
      join == Len(t.g) + 1
      joined == SetTerm(NewBlock(t.g), cur, Branch(then, join))
  IN  Lowered(IF t.exit = None THEN joined ELSE SetTerm(joined, t.exit, Goto(join)), join)

\* lower_if with both arms.
LowerIfElse(g, p, cur, loop) ==
  LET then == Len(g) + 1
      t == LowerSeq(NewBlock(g), Bodies(p), then, loop)
      else == Len(t.g) + 1
      e == LowerSeq(NewBlock(t.g), Alternative(p), else, loop)
      arms == SetTerm(e.g, cur, Branch(then, else))
      join == Len(arms) + 1
      exits == {t.exit, e.exit} \ {None}
  IN  IF exits = {} THEN Lowered(arms, None)
      ELSE Lowered([b \in 1 .. join |->
                      IF b = join THEN [stmts |-> {}, term |-> Return]
                      ELSE IF b \in exits THEN [arms[b] EXCEPT !.term = Goto(join)] ELSE arms[b]],
                   join)

\* lower_loop: `repeat` is left by a break only.
LowerLoop(g, p, cur) ==
  LET header == Len(g) + 1
      after == Len(g) + 2
      body == Len(g) + 3
      made == SetTerm(NewBlock(NewBlock(NewBlock(g))), cur, Goto(header))
      headed == SetTerm(made, header, IF Op(p) = "repeat" THEN Goto(body) ELSE Branch(body, after))
      b == LowerSeq(headed, Bodies(p), body, [header |-> header, after |-> after])
      closed == IF b.exit = None THEN b.g ELSE SetTerm(b.g, b.exit, Goto(header))
  IN  IF Op(p) = "repeat" /\ ~HasPredecessor(closed, after)
      THEN Lowered(SetTerm(closed, after, Unreachable), None)
      ELSE Lowered(closed, after)

\* lower_stmt.  The operands of an expression have graphs of their own, which
\* count decisions and prove nothing of the code around.
LowerStmt(g, p, cur, loop) ==
  LET pushed == PushStmt(g, cur, p) IN
  CASE Op(p) = "break"         -> LowerJump(g, p, cur, loop, "after")
    [] Op(p) = "next"          -> LowerJump(g, p, cur, loop, "header")
    [] Op(p) = "return"        -> Lowered(SetTerm(pushed, cur, Diverge), None)
    [] Op(p) = "if"            -> LowerIf(pushed, p, cur, loop)
    [] Op(p) = "ifelse"        -> LowerIfElse(pushed, p, cur, loop)
    [] Op(p) \in Loops         -> LowerLoop(pushed, p, cur)
    [] OTHER                   -> Lowered(pushed, cur)

\* lower_seq: what follows a statement control does not leave is a block nobody
\* enters.
LowerSeq(g, sites, cur, loop) ==
  IF sites = <<>> THEN Lowered(g, cur)
  ELSE LET After1(r) ==
             IF r.exit # None THEN LowerSeq(r.g, Tail(sites), r.exit, loop)
             ELSE IF Tail(sites) = <<>> THEN r
             ELSE Lowered(Append(r.g, [stmts |-> Range(Tail(sites)), term |-> Unreachable]), None)
       IN  After1(LowerStmt(g, Head(sites), cur, loop))

\* build_region, of the file or of a function body.
BuildRegion(p) == LowerSeq(NewBlock(<<>>), Bodies(p), 1, NoLoopCtx).g

\* FileControlFlow::build and is_unreachable.
DeadIn(g) == UNION {g[b].stmts : b \in {i \in 1 .. Len(g) : g[i].term = Unreachable}}
UnreachableSites ==
  UNION {DeadIn(BuildRegion(p)) : p \in {<<>>} \union {q \in Sites : Op(q) \in Functions}}

BuildFlow == dead' = UnreachableSites

------------------------------------------------------------------------------
\* Loops are left from statements, not from inside an expression.
JumpsAreStatements ==
  \A p \in Sites : Op(p) = "or" => \A q \in Sites : Inside(q, p) => Op(q) \notin {"break", "next"}

\* "Provably cannot be reached" (cfg.rs): no run executes a statement that
\* `unreachable-code` would delete.
NothingDeadRuns == JumpsAreStatements => (stack # <<>> => Top.pc \notin dead)

\* The same of all programs.
NothingDeadRunsAnywhere == stack # <<>> => Top.pc \notin dead
==============================================================================
