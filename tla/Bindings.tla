------------------------------ MODULE Bindings ------------------------------
(***************************************************************************)
(* The semantic model of a file (src/semantic/builder.rs, semantic.rs):    *)
(* scopes, bindings and the bindings each read may refer to, computed from *)
(* the text alone; and what rests on them, the rule `unused-binding` and   *)
(* the rename of a local variable (lsp/navigation.rs).                     *)
(*                                                                         *)
(* A scope is the function that opens it; the file's is <<>>.  Only        *)
(* functions open one.                                                     *)
(***************************************************************************)
EXTENDS RPrograms

VARIABLE model  \* the bindings, and what each read reaches

NoLoop == <<>>

------------------------------------------------------------------------------
(* builder.rs                                                              *)

\* enclosing_function_or_file: the scope a `<<-` is recorded in.
EnclosingFunctionOrFile(scope) == IF scope = <<>> THEN <<>> ELSE FunctionOf(scope)

\* BuildCtx::loop_range: the innermost loop around a binding in its own function.
LoopRange(p) == LoopOf(p)

\* handle_assignment, handle_function, handle_for: what a statement binds.
BindingAt(p) ==
  LET Binding(kind, scope, loop) == {[site |-> p, kind |-> kind, scope |-> scope, loop |-> loop]}
      own == FunctionOf(p)
  IN  CASE Op(p) \in {"set", "update"} -> Binding("local", own, LoopRange(p))
        [] Op(p) = "super" -> Binding("implicit", EnclosingFunctionOrFile(own), LoopRange(p))
        [] Op(p) = "funx"  -> Binding("param", p, NoLoop)
        [] Op(p) = "for"   -> Binding("forvar", own, p)
        [] OTHER           -> {}

\* The target of `x <- f(x)` begins before the read on its right.
StartsBefore(b, read) == b.site = read \/ Before(b.site, read)

LoopCarries(b, read) == b.loop # NoLoop /\ IsPrefix(b.loop, read)

\* The bindings of its own frame a read may meet: those before it, those a loop
\* around both makes on its next turn, and all of them for a handler.
InFrame(bindings, read) ==
  {b \in bindings : /\ b.scope = FunctionOf(read)
                    /\ StartsBefore(b, read) \/ LoopCarries(b, read) \/ Op(read) = "exit"}

\* (wrong) A closure sees only what was bound before it was written.
RECURSIVE OutwardInOrder(_, _, _)
OutwardInOrder(bindings, scope, read) ==
  LET here == {b \in bindings : b.scope = scope /\ Before(b.site, read)}
  IN  IF here # {} \/ scope = <<>> THEN here ELSE OutwardInOrder(bindings, FunctionOf(scope), read)

\* All bindings of the innermost scope around that has one: a closure runs when
\* it is called, whatever the order of the text.
RECURSIVE Outward(_, _, _)
Outward(bindings, scope, read) ==
  LET here == {b \in bindings : b.scope = scope}
  IN  IF here # {} \/ scope = <<>> THEN here ELSE Outward(bindings, FunctionOf(scope), read)

\* reads_reached_parts
ReadsReached(bindings, read) ==
  LET own == InFrame(bindings, read)
  IN  IF own # {} \/ FunctionOf(read) = <<>> THEN own
      ELSE Outward(bindings, FunctionOf(FunctionOf(read)), read)

ReadSites == {p \in Sites : Op(p) \in {"get", "update", "exit"}}

\* build
Build(bindings) ==
  [bindings |-> bindings, reached |-> [r \in ReadSites |-> ReadsReached(bindings, r)]]

NoModel == [bindings |-> {}, reached |-> <<>>]

\* The model is built from the text, before R runs it.
BuildModel == model' = Build(UNION {BindingAt(p) : p \in Sites})

------------------------------------------------------------------------------
(* semantic.rs, navigation.rs                                              *)

ReadSitesOf(b) == {r \in DOMAIN model.reached : b \in model.reached[r]}

UnusedLocalBindings == {b \in model.bindings : b.kind = "local" /\ ReadSitesOf(b) = {}}

\* (wrong) A reassignment is a variable of its own.
VariableCohortAlone(b) == {b}

\* One variable per frame: its bindings are renamed together.
VariableCohort(b) == {c \in model.bindings : c.scope = b.scope}

\* variable_occurrences: the reads a rename of b's variable rewrites.
VariableReads(b) == UNION {ReadSitesOf(c) : c \in VariableCohort(b)}

NoBinding == [kind |-> "none"]

\* resolve_local: the first binding of the innermost scope that has one, the
\* variable a rename is of when it is asked for at a read.
RECURSIVE ResolveFrom(_, _)
ResolveFrom(scope, bindings) ==
  LET here == {b \in bindings : b.scope = scope}
  IN  IF here # {} THEN CHOOSE b \in here : \A c \in here \ {b} : Before(b.site, c.site)
      ELSE IF scope = <<>> THEN NoBinding ELSE ResolveFrom(FunctionOf(scope), bindings)

ResolveLocal(read) == ResolveFrom(FunctionOf(read), model.bindings)

------------------------------------------------------------------------------
(* What a run shows.                                                       *)

\* No binding is made in a loop inside a loop of its scope.
LoopsAreFlat ==
  \A b \in model.bindings : \A n \in Len(b.scope) + 1 .. Len(b.site) - 1 :
    LET around == SubSeq(b.site, 1, n) IN
      Op(around) \in Loops => around = LoopOf(b.site) /\ b.kind # "forvar"

\* A function takes the variable as a parameter if it binds it inside a scope
\* that binds it too, or if a function in it assigns it with `<<-`.
ShadowsByParameter ==
  \A b \in model.bindings :
    (\/ b.kind = "implicit" /\ b.scope # <<>>
     \/ \E c \in model.bindings : Inside(b.scope, c.scope)) =>
      \E p \in model.bindings : p.kind = "param" /\ p.scope = b.scope

\* `unused-binding` reports no binding whose value a read meets: not through
\* a branch not taken, a later turn of a loop, a closure called late, a handler.
UnusedIsNeverRead ==
  (LoopsAreFlat /\ ShadowsByParameter) =>
    \A r \in Reading : \A b \in UnusedLocalBindings : b.site # Seen(r[2])

\* The same of all programs.
UnusedIsNeverReadAnywhere ==
  \A r \in Reading : \A b \in UnusedLocalBindings : b.site # Seen(r[2])

\* The rename of a variable takes a read along exactly when the value the read
\* meets was bound by that variable.
RenameKeepsBindings ==
  (LoopsAreFlat /\ ShadowsByParameter) =>
    \A r \in Reading : Seen(r[2]) # Unbound =>
      \A b \in model.bindings :
        r[1] \in VariableReads(b) <=> \E c \in VariableCohort(b) : c.site = Seen(r[2])

\* A rename asked for at a read renames that read.
RenameTakesItsRead ==
  \A r \in DOMAIN model.reached :
    ResolveLocal(r) # NoBinding => r \in VariableReads(ResolveLocal(r))
==============================================================================
