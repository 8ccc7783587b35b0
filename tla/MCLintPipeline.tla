--------------------------- MODULE MCLintPipeline ---------------------------
(***************************************************************************)
(* Instances of LintPipeline for TLC: two texts, one or two R documents,   *)
(* the DESCRIPTION of their package, and the shapes of the bounds.         *)
(***************************************************************************)
EXTENDS LintPipeline

CONSTANTS ROpens,     \* how often each R document is opened
          DescOpens   \* how often the DESCRIPTION is opened

MCMaxOpens == [d \in Docs |-> IF d = Desc THEN DescOpens ELSE ROpens]

\* No two texts have the same findings.
DistinctFindings == CHOOSE digest \in [Texts -> 1 .. Cardinality(Texts)] :
                      \A s, t \in Texts : s # t => digest[s] # digest[t]

\* Every text has the same findings, at the same byte ranges.
EqualFindings == [t \in Texts |-> 0]

=============================================================================
