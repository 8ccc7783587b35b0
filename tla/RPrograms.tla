------------------------------ MODULE RPrograms ------------------------------
(***************************************************************************)
(* R programs about one variable x, and what R does with them: the         *)
(* reference the analyses of src/semantic are compared with.               *)
(*                                                                         *)
(* A statement has an operation, a body and an alternative (of `ifelse`):  *)
(*   "get" f(x)        "set" x <- f()     "update" x <- f(x)               *)
(*   "super" x <<- f() "exit" on.exit(f(x))  "skip" f()                    *)
(*   "break", "next", "return"                                             *)
(*   "if", "ifelse", "while", "repeat"                                     *)
(*   "for"   for (x in f()) body                                           *)
(*   "or"    f() || body: an expression that may run a statement           *)
(*   "fun"   h <- function() body       "funx"  h <- function(x) body      *)
(*                                                                         *)
(* Conditions go either way, a loop runs any number of times, and a        *)
(* function that was created may be called at any moment after that: calls *)
(* are left out of the text.                                               *)
(***************************************************************************)
EXTENDS Integers, Sequences, FiniteSets, SequencesExt

CONSTANTS
  Programs,  \* sequences of statements
  MaxDepth,  \* activations on the stack
  MaxFrames  \* activations in a run

VARIABLES
  program,
  stack,     \* activations, the running one first: where it is, its frame, its handlers
  env,       \* frames: the frame it was created in, the site that bound x last
  closures   \* functions created: their code and their frame

vars == <<program, stack, env, closures>>

------------------------------------------------------------------------------
(* Sites.  A site is the path to a statement: numbers of statements in the *)
(* bodies it is in, negative ones in alternatives.                         *)

Done == <<>>     \* past the last statement
Unbound == <<>>  \* x has no value

Functions == {"fun", "funx"}
Loops == {"while", "repeat", "for"}

Child(s, k) == IF k > 0 THEN s.body[k] ELSE s.alt[-k]

RECURSIVE Down(_, _)
Down(s, p) == IF p = <<>> THEN s ELSE Down(Child(s, Head(p)), Tail(p))

At(p) == Down([op |-> "file", body |-> program, alt |-> <<>>], p)
Op(p) == At(p).op

Bodies(p) == [i \in 1 .. Len(At(p).body) |-> Append(p, i)]
Alternative(p) == [i \in 1 .. Len(At(p).alt) |-> Append(p, -i)]

RECURSIVE SitesIn(_)
SitesIn(p) == LET kids == Range(Bodies(p)) \union Range(Alternative(p))
              IN  kids \union UNION {SitesIn(k) : k \in kids}
Sites == SitesIn(<<>>)

Inside(p, q) == Len(q) < Len(p) /\ IsPrefix(q, p)
Before(p, q) ==
  \/ Inside(q, p)
  \/ \E d \in 1 .. Len(p) :
       /\ d <= Len(q) /\ SubSeq(p, 1, d - 1) = SubSeq(q, 1, d - 1)
       /\ IF p[d] > 0 THEN q[d] > p[d] \/ q[d] < 0 ELSE q[d] < p[d]

\* The innermost statement of one of the kinds around p, else the file.
Around(p, kinds) ==
  LET around == {n \in 1 .. Len(p) - 1 : Op(SubSeq(p, 1, n)) \in kinds}
  IN  IF around = {} THEN <<>>
      ELSE SubSeq(p, 1, CHOOSE n \in around : \A m \in around : m <= n)

FunctionOf(p) == Around(p, Functions)

\* The innermost loop around p in p's own function.
LoopOf(p) == LET l == Around(p, Loops \union Functions)
             IN  IF l # <<>> /\ Op(l) \in Loops THEN l ELSE <<>>

------------------------------------------------------------------------------
(* Control.                                                                *)

\* Where control goes when the statement at p has completed.
RECURSIVE After(_)
After(p) ==
  LET k == Last(p)
      c == Front(p)
      n == Len(IF k > 0 THEN At(c).body ELSE At(c).alt)
  IN  CASE k > 0 /\ k < n             -> Append(c, k + 1)
        [] k < 0 /\ -k < n            -> Append(c, k - 1)
        [] c = <<>>                   -> Done
        [] Op(c) \in Loops            -> c
        [] Op(c) \in Functions        -> Done
        [] OTHER                      -> After(c)

\* Where control may go from p.
Successors(p) ==
  CASE Op(p) \in {"if", "or"}       -> {Append(p, 1), After(p)}
    [] Op(p) = "ifelse"             -> {Append(p, 1), Append(p, -1)}
    [] Op(p) \in {"while", "for"}   -> {Append(p, 1), After(p)}
    [] Op(p) = "repeat"             -> {Append(p, 1)}
    [] Op(p) = "break"              -> {After(LoopOf(p))}
    [] Op(p) = "next"               -> {LoopOf(p)}
    [] Op(p) = "return"             -> {Done}
    [] OTHER                        -> {After(p)}

------------------------------------------------------------------------------
(* Execution.                                                              *)

Frame(parent, value) == [parent |-> parent, value |-> value]

\* The frame x is found in from frame f, else 0.
RECURSIVE Holder(_)
Holder(f) == CASE f = 0                     -> 0
               [] env[f].value # Unbound    -> f
               [] OTHER                     -> Holder(env[f].parent)

\* The site that gave x the value it has in frame f.
Seen(f) == IF Holder(f) = 0 THEN Unbound ELSE env[Holder(f)].value

\* The frame x <<- f() changes from frame f: the file's when there is none.
SuperTarget(f) == IF Holder(env[f].parent) = 0 THEN 1 ELSE Holder(env[f].parent)

Top == Head(stack)
Move(p) == [Top EXCEPT !.pc = p]

Init == /\ program \in Programs
        /\ stack = <<>>
        /\ env = <<Frame(0, Unbound)>>
        /\ closures = {}

Bind(p, to) ==
  env' = CASE Op(p) \in {"set", "update"}                -> [env EXCEPT ![Top.frame].value = p]
           [] Op(p) = "for" /\ IsPrefix(p, to) /\ to # p -> [env EXCEPT ![Top.frame].value = p]
           [] Op(p) = "super" -> [env EXCEPT ![SuperTarget(Top.frame)].value = p]
           [] OTHER           -> env

\* R starts the file.
Start ==
  /\ stack = <<>>
  /\ stack' = <<[pc |-> <<1>>, frame |-> 1, exits |-> {}]>>
  /\ UNCHANGED <<program, env, closures>>

Step ==
  /\ stack # <<>> /\ Top.pc # Done
  /\ LET p == Top.pc IN
     /\ \E to \in Successors(p) :
          /\ Bind(p, to)
          /\ stack' = <<[Move(to) EXCEPT !.exits = IF Op(p) = "exit" THEN @ \union {p} ELSE @]>>
                      \o Tail(stack)
     /\ closures' = IF Op(p) \in Functions
                    THEN closures \union {[code |-> p, frame |-> Top.frame]} ELSE closures
  /\ UNCHANGED program

Call(c) ==
  /\ stack # <<>>
  /\ Len(stack) < MaxDepth /\ Len(env) < MaxFrames
  /\ env' = Append(env, Frame(c.frame, IF Op(c.code) = "funx" THEN c.code ELSE Unbound))
  /\ stack' = <<[pc |-> Append(c.code, 1), frame |-> Len(env) + 1, exits |-> {}]>> \o stack
  /\ UNCHANGED <<program, closures>>

\* The function returns; its handlers run first and see its frame as it is.
Leave ==
  /\ Len(stack) > 1 /\ Top.pc = Done
  /\ stack' = Tail(stack)
  /\ UNCHANGED <<program, env, closures>>

Run == Step \/ Leave \/ \E c \in closures : Call(c)

Spec == Init /\ [][Start \/ Run]_vars

\* The reads of x that happen in this state, with the frame they happen in.
Reading ==
  IF stack = <<>> THEN {}
  ELSE IF Top.pc = Done THEN Top.exits \X {Top.frame}
  ELSE IF Op(Top.pc) \in {"get", "update"} THEN {<<Top.pc, Top.frame>>} ELSE {}
==============================================================================
