---------------------------- MODULE ReadContract ----------------------------
(***************************************************************************)
(* What the server promises about requests: a request that was asked gets  *)
(* exactly one response, unless the job computing it died.  How a request  *)
(* is served (threads, snapshots, queues, cancellation) is ReadRequests.   *)
(***************************************************************************)
EXTENDS Naturals

CONSTANT Ids    \* request ids

VARIABLES
  asked,      \* ids the client has used
  responses,  \* responses the client received for each id
  died        \* ids whose job died; they may still be cancelled

vars == <<asked, responses, died>>

Init == asked = {} /\ responses = [id \in Ids |-> 0] /\ died = {}

Ask(id) ==
  /\ id \notin asked
  /\ asked' = asked \cup {id}
  /\ UNCHANGED <<responses, died>>

Answer(id) ==
  /\ id \in asked /\ responses[id] = 0
  /\ responses' = [responses EXCEPT ![id] = 1]
  /\ UNCHANGED <<asked, died>>

\* A request the server can answer without a job.
AskAndAnswer(id) ==
  /\ id \notin asked
  /\ asked' = asked \cup {id}
  /\ responses' = [responses EXCEPT ![id] = 1]
  /\ UNCHANGED died

Die(id) ==
  /\ id \in asked \ died
  /\ died' = died \cup {id}
  /\ UNCHANGED <<asked, responses>>

Next == \E id \in Ids : Ask(id) \/ Answer(id) \/ AskAndAnswer(id) \/ Die(id)

Spec == Init /\ [][Next]_vars
             /\ \A id \in Ids : WF_vars(Answer(id) /\ id \notin died)
=============================================================================
