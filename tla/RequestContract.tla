--------------------------- MODULE RequestContract ---------------------------
(***************************************************************************)
(* What HttpClient promises its callers: a request is answered through its *)
(* callback at most once, and only after it was made, in the very call if  *)
(* its address is refused.  When the client goes away, the requests that   *)
(* wait for a retry are answered and nobody else is: RequestWorker.cpp:457 *)
(* wants no callback left hanging, and fails the others too, but by calls  *)
(* queued to the client that is being destroyed (README, section 6).       *)
(***************************************************************************)
EXTENDS Naturals

CONSTANTS Requests, External

VARIABLES asked,   \* the requests made
          calls,   \* how often each callback ran
          waiting, \* the requests that wait to be made again
          open     \* whether the client still answers

vars == <<asked, calls, waiting, open>>

Init == asked = {} /\ calls = [r \in Requests |-> 0] /\ waiting = {} /\ open = TRUE

Ask(r) == /\ open /\ r \notin asked
          /\ asked' = asked \cup {r}
          /\ UNCHANGED <<calls, waiting, open>>

\* Asked and answered in one call.
Refuse(r) == /\ open /\ r \in External \ asked
             /\ asked' = asked \cup {r}
             /\ calls' = [calls EXCEPT ![r] = 1]
             /\ UNCHANGED <<waiting, open>>

Unanswered(r) == r \in asked /\ calls[r] = 0

\* A request to the client's own server may be put off, any number of times.
PutOff(r) == /\ open /\ Unanswered(r) /\ r \notin External
             /\ waiting' \in {waiting \cup {r}, waiting \ {r}}
             /\ UNCHANGED <<asked, calls, open>>

Answer(r) == /\ open /\ Unanswered(r) /\ r \notin waiting
             /\ calls' = [calls EXCEPT ![r] = 1]
             /\ UNCHANGED <<asked, waiting, open>>

Close == /\ open /\ open' = FALSE
         /\ calls' = [r \in Requests |-> IF r \in waiting THEN 1 ELSE calls[r]]
         /\ waiting' = {}
         /\ UNCHANGED asked

Next == Close \/ \E r \in Requests : Ask(r) \/ Refuse(r) \/ PutOff(r) \/ Answer(r)
Spec == Init /\ [][Next]_vars
=============================================================================
