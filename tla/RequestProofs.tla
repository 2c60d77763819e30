---------------------------- MODULE RequestProofs ----------------------------
(***************************************************************************)
(* What is proved of requests that wait: of HttpClient, for every set of    *)
(* requests and every bound on retries and captchas, and of the QR login    *)
(* with the captcha dialog it shares with the accounts' requests, for any    *)
(* finite set of callers and any bound on attempts.                         *)
(***************************************************************************)
EXTENDS HttpClient, RemoteAuth, FiniteSetTheorems, WellFoundedInduction, TLAPS

-----------------------------------------------------------------------------
(***************************************************************************)
(* HttpClient.  One inductive invariant carries the results: the type,      *)
(* OneOwner and NeverLost, with the facts they need that only requests that  *)
(* were made are held (HeldAsked), that no other callback ran               *)
(* (FreshUncalled), that no retry is parked once the destructor runs         *)
(* (NoneParkedLater) or of an external request (NoneParkedExternal), and      *)
(* that a captcha is shown only below the cap on attempts (ShownBelowCap).   *)
(***************************************************************************)

HeldAsked == Held \subseteq asked
FreshUncalled == \A r \in Requests \ asked : calls[r] = 0
NoneParkedLater == client # "alive" => parked = {}
NoneParkedExternal == parked \cap External = {}
ShownBelowCap == \A r \in captcha : captchas[r] < MaxCaptchas

Ownership == OneOwner /\ HeldAsked /\ FreshUncalled /\ NoneParkedLater /\ NoneParkedExternal
             /\ ShownBelowCap
IInv == TypeOK /\ Ownership /\ NeverLost

-----------------------------------------------------------------------------
\* An attempt is counted only below its cap.
LEMMA TypeStep == TypeOK /\ ShownBelowCap /\ [Next]_vars => TypeOK'
  <1> SUFFICES ASSUME TypeOK, ShownBelowCap, [Next]_vars PROVE TypeOK'
    OBVIOUS
  <1> USE HttpAssumption DEF TypeOK, ShownBelowCap, vars, workerVars, countVars, Outcome
  <1>1. CASE Destroy
    BY <1>1 DEF Destroy, Call
  <1>2. CASE Shutdown
    BY <1>2 DEF Shutdown
  <1>3. CASE Join
    BY <1>3 DEF Join
  <1>4. CASE Drain
    BY <1>4 DEF Drain, Dispatch
  <1>5. CASE Poll
    BY <1>5 DEF Poll
  <1>6. CASE Abort
    BY <1>6 DEF Abort, Dispatch
  <1>7. CASE Destroyed
    BY <1>7 DEF Destroyed
  <1>8. ASSUME NEW r \in Requests, Ask(r) PROVE TypeOK'
    BY <1>8 DEF Ask
  <1>9. ASSUME NEW r \in Requests, Park(r) PROVE TypeOK'
    BY <1>9 DEF Park, MayRetry
  <1>10. ASSUME NEW r \in Requests, Deliver(r) PROVE TypeOK'
    BY <1>10 DEF Deliver, MayRetry, Call
  <1>11. ASSUME NEW r \in Requests, Challenge(r) PROVE TypeOK'
    BY <1>11 DEF Challenge
  <1>12. ASSUME NEW r \in Requests, RetryTimer(r) PROVE TypeOK'
    BY <1>12 DEF RetryTimer
  <1>13. ASSUME NEW r \in Requests, CaptchaSolved(r) PROVE TypeOK'
    BY <1>13 DEF CaptchaSolved
  <1>14. ASSUME NEW r \in Requests, CaptchaRefused(r) PROVE TypeOK'
    BY <1>14 DEF CaptchaRefused, Call
  <1>15. ASSUME NEW r \in Requests, NEW res \in Outcome, Complete(r, res) PROVE TypeOK'
    BY <1>15 DEF Complete, Dispatch, Outcome
  <1>16. CASE UNCHANGED vars
    BY <1>16
  <1>17. ASSUME NEW r \in Requests, RefuseExternal(r) PROVE TypeOK'
    BY <1>17 DEF RefuseExternal, Call
  <1>18. QED BY <1>1, <1>2, <1>3, <1>4, <1>5, <1>6, <1>7, <1>8, <1>9, <1>10, <1>11, <1>12, <1>13, <1>14, <1>15, <1>16, <1>17 DEF Next, OnComplete

\* Every move of a request takes it from the one place that holds it to another.
LEMMA OwnershipStep == TypeOK /\ Ownership /\ [Next]_vars => Ownership'
  <1> SUFFICES ASSUME TypeOK, Ownership, [Next]_vars PROVE Ownership'
    OBVIOUS
  <1> USE DEF TypeOK, Ownership, OneOwner, HeldAsked, FreshUncalled, NoneParkedLater, NoneParkedExternal,
              ShownBelowCap, Held, Completing, vars, workerVars, countVars, Outcome
  <1>1. CASE Destroy
    BY <1>1 DEF Destroy, Call
  <1>2. CASE Shutdown
    BY <1>2 DEF Shutdown
  <1>3. CASE Join
    BY <1>3 DEF Join
  <1>4. CASE Drain
    BY <1>4 DEF Drain, Dispatch
  <1>5. CASE Poll
    BY <1>5 DEF Poll
  <1>6. CASE Abort
    BY <1>6 DEF Abort, Dispatch
  <1>7. CASE Destroyed
    BY <1>7 DEF Destroyed
  <1>8. ASSUME NEW r \in Requests, Ask(r) PROVE Ownership'
    BY <1>8 DEF Ask
  <1>9. ASSUME NEW r \in Requests, Park(r) PROVE Ownership'
    BY <1>9 DEF Park, MayRetry
  <1>10. ASSUME NEW r \in Requests, Deliver(r) PROVE Ownership'
    BY <1>10 DEF Deliver, MayRetry, Call
  <1>11. ASSUME NEW r \in Requests, Challenge(r) PROVE Ownership'
    BY <1>11 DEF Challenge
  <1>12. ASSUME NEW r \in Requests, RetryTimer(r) PROVE Ownership'
    BY <1>12 DEF RetryTimer
  <1>13. ASSUME NEW r \in Requests, CaptchaSolved(r) PROVE Ownership'
    BY <1>13 DEF CaptchaSolved
  <1>14. ASSUME NEW r \in Requests, CaptchaRefused(r) PROVE Ownership'
    BY <1>14 DEF CaptchaRefused, Call
  <1>15. ASSUME NEW r \in Requests, NEW res \in Outcome, Complete(r, res) PROVE Ownership'
    BY <1>15 DEF Complete, Dispatch, Outcome
  <1>16. CASE UNCHANGED vars
    BY <1>16
  <1>17. ASSUME NEW r \in Requests, RefuseExternal(r) PROVE Ownership'
    BY <1>17 DEF RefuseExternal, Call
  <1>18. QED BY <1>1, <1>2, <1>3, <1>4, <1>5, <1>6, <1>7, <1>8, <1>9, <1>10, <1>11, <1>12, <1>13, <1>14, <1>15, <1>16, <1>17 DEF Next, OnComplete

\* A callback runs only in a step that lets go of its request.
LEMMA NeverLostStep == TypeOK /\ Ownership /\ NeverLost /\ [Next]_vars => NeverLost'
  <1> SUFFICES ASSUME TypeOK, Ownership, NeverLost, [Next]_vars PROVE NeverLost'
    OBVIOUS
  <1> USE DEF TypeOK, Ownership, OneOwner, HeldAsked, FreshUncalled, NoneParkedLater, NoneParkedExternal,
              ShownBelowCap, NeverLost, Held, Completing, vars, workerVars, countVars, Outcome
  <1>1. CASE Destroy
    BY <1>1 DEF Destroy, Call
  <1>2. CASE Shutdown
    BY <1>2 DEF Shutdown
  <1>3. CASE Join
    BY <1>3 DEF Join
  <1>4. CASE Drain
    BY <1>4 DEF Drain, Dispatch
  <1>5. CASE Poll
    BY <1>5 DEF Poll
  <1>6. CASE Abort
    BY <1>6 DEF Abort, Dispatch
  <1>7. CASE Destroyed
    BY <1>7 DEF Destroyed
  <1>8. ASSUME NEW r \in Requests, Ask(r) PROVE NeverLost'
    BY <1>8 DEF Ask
  <1>9. ASSUME NEW r \in Requests, Park(r) PROVE NeverLost'
    BY <1>9 DEF Park, MayRetry
  <1>10. ASSUME NEW r \in Requests, Deliver(r) PROVE NeverLost'
    BY <1>10 DEF Deliver, MayRetry, Call
  <1>11. ASSUME NEW r \in Requests, Challenge(r) PROVE NeverLost'
    BY <1>11 DEF Challenge
  <1>12. ASSUME NEW r \in Requests, RetryTimer(r) PROVE NeverLost'
    BY <1>12 DEF RetryTimer
  <1>13. ASSUME NEW r \in Requests, CaptchaSolved(r) PROVE NeverLost'
    BY <1>13 DEF CaptchaSolved
  <1>14. ASSUME NEW r \in Requests, CaptchaRefused(r) PROVE NeverLost'
    BY <1>14 DEF CaptchaRefused, Call
  <1>15. ASSUME NEW r \in Requests, NEW res \in Outcome, Complete(r, res) PROVE NeverLost'
    BY <1>15 DEF Complete, Dispatch, Outcome
  <1>16. CASE UNCHANGED vars
    BY <1>16
  <1>17. ASSUME NEW r \in Requests, RefuseExternal(r) PROVE NeverLost'
    BY <1>17 DEF RefuseExternal, Call
  <1>18. QED BY <1>1, <1>2, <1>3, <1>4, <1>5, <1>6, <1>7, <1>8, <1>9, <1>10, <1>11, <1>12, <1>13, <1>14, <1>15, <1>16, <1>17 DEF Next, OnComplete

\* The initial state.
LEMMA InvInit == Init => IInv
  BY HttpAssumption DEF Init, IInv, TypeOK, Ownership, OneOwner, HeldAsked, FreshUncalled,
     NoneParkedLater, NoneParkedExternal, ShownBelowCap, NeverLost, Held, Completing, Outcome

\* IInv is inductive.
LEMMA Invariance == Spec => []IInv
  <1>1. IInv /\ [Next]_vars => IInv'
    BY TypeStep, OwnershipStep, NeverLostStep DEF IInv, Ownership
  <1> QED BY InvInit, <1>1, PTL DEF Spec

-----------------------------------------------------------------------------
\* No variable leaves its type: the counts of attempts stay within their caps.
THEOREM TypeCorrect == Spec => []TypeOK
  BY Invariance, PTL DEF IInv

\* A request has one owner among the queues, the transfers, the timers and the
\* captcha dialog, whatever the interleaving of the two threads.
THEOREM SingleOwner == Spec => []OneOwner
  BY Invariance, PTL DEF IInv, Ownership

\* While the client lives no request is lost and none is answered twice.
THEOREM NothingLost == Spec => []NeverLost
  BY Invariance, PTL DEF IInv

\* The destructor answers the retries that wait behind their timers.
THEOREM ParkedAreAnswered == Spec => ParkedAnswered
  <1> DEFINE Step == \A r \in parked : client' # "alive" => calls'[r] = 1
  <1>1. IInv /\ [Next]_vars => [Step]_vars
    <2> SUFFICES ASSUME IInv, [Next]_vars, NEW r \in parked, client' # "alive"
                 PROVE calls'[r] = 1
      OBVIOUS
    <2>1. client = "alive"
      BY DEF IInv, Ownership, NoneParkedLater
    <2>2. Destroy
      BY <2>1 DEF Next, OnComplete, Shutdown, Join, Drain, Poll, Abort, Destroyed, Ask, RefuseExternal, Park,
         Deliver, Challenge, RetryTimer, CaptchaSolved, CaptchaRefused, Complete, vars
    <2>3. r \in Requests /\ calls[r] = 0
      BY <2>1 DEF IInv, TypeOK, Ownership, HeldAsked, NeverLost, Held
    <2> QED BY <2>2, <2>3 DEF Destroy, Call
  <1> QED BY <1>1, Invariance, PTL DEF Spec, ParkedAnswered

-----------------------------------------------------------------------------
(* HttpClient implements RequestContract: making a request is Ask, parking   *)
(* one and the timer's submission are PutOff, running a callback while the   *)
(* client lives is Answer or Refuse, and the destructor's first step is      *)
(* Close.                                                                    *)

\* Each step is a step of the contract or changes nothing of it.
LEMMA StepImplements ==
  IInv /\ [Next]_vars => [Contract!Next]_<<asked, calls, parked, client = "alive">>
  <1> SUFFICES ASSUME IInv, [Next]_vars
               PROVE Contract!Next \/ UNCHANGED <<asked, calls, parked, client = "alive">>
    OBVIOUS
  <1> USE DEF vars, workerVars, countVars
  <1>0. calls \in [Requests -> Nat] /\ parked \subseteq Requests
    BY DEF IInv, TypeOK
  <1>1. CASE Destroy
    <2>1. /\ client = "alive" /\ client' # "alive" /\ asked' = asked /\ parked' = {}
          /\ calls' = [r \in Requests |-> IF r \in parked THEN calls[r] + 1 ELSE calls[r]]
      BY <1>1 DEF Destroy, Call
    <2>2. \A r \in parked : calls[r] = 0
      BY <2>1 DEF IInv, Ownership, HeldAsked, NeverLost, Held
    <2>3. calls' = [r \in Requests |-> IF r \in parked THEN 1 ELSE calls[r]]
      BY <2>1, <2>2
    <2>4. Contract!Close
      BY <2>1, <2>3 DEF Contract!Close
    <2> QED BY <2>4 DEF Contract!Next
  <1>2. ASSUME NEW r \in Requests, Ask(r) PROVE Contract!Next
    <2>1. Contract!Ask(r)
      BY <1>2 DEF Ask, Contract!Ask
    <2> QED BY <2>1 DEF Contract!Next
  <1>3. ASSUME NEW r \in Requests, calls[r] = 0, Call({r}) PROVE calls' = [calls EXCEPT ![r] = 1]
    <2>1. calls' = [q \in Requests |-> IF q = r THEN 1 ELSE calls[q]]
      BY <1>0, <1>3 DEF Call
    <2>2. [calls EXCEPT ![r] = 1] = [q \in Requests |-> IF q = r THEN 1 ELSE calls[q]]
      BY <1>0
    <2> QED BY <2>1, <2>2
  <1>4. ASSUME NEW r \in Requests, RefuseExternal(r) PROVE Contract!Next
    <2>1. /\ client = "alive" /\ client' = client /\ parked' = parked
          /\ r \in External \ asked /\ asked' = asked \cup {r} /\ Call({r})
      BY <1>4 DEF RefuseExternal
    <2>2. calls[r] = 0
      BY <2>1 DEF IInv, Ownership, FreshUncalled
    <2>3. Contract!Refuse(r)
      BY <1>3, <2>1, <2>2 DEF Contract!Refuse
    <2> QED BY <2>3 DEF Contract!Next
  <1>5. ASSUME NEW r \in Requests, Deliver(r) \/ CaptchaRefused(r) PROVE Contract!Next
    <2>1. /\ client = "alive" /\ client' = client /\ asked' = asked /\ parked' = parked
          /\ Call({r}) /\ r \in Completing \cup captcha
      BY <1>5 DEF Deliver, CaptchaRefused, Completing, IInv, TypeOK
    <2>2. r \in asked /\ calls[r] = 0 /\ r \notin parked
      BY <2>1 DEF IInv, Ownership, OneOwner, HeldAsked, NeverLost, Held
    <2>3. Contract!Answer(r)
      BY <1>3, <2>1, <2>2 DEF Contract!Answer, Contract!Unanswered
    <2> QED BY <2>3 DEF Contract!Next
  <1>6. ASSUME NEW r \in Requests, Park(r) \/ RetryTimer(r) PROVE Contract!Next
    <2>1. /\ client = "alive" /\ client' = client /\ asked' = asked /\ calls' = calls
          /\ parked' \in {parked \cup {r}, parked \ {r}} /\ r \in Held
      BY <1>6 DEF Park, RetryTimer, Held, Completing, IInv, TypeOK
    <2>2. r \in asked /\ calls[r] = 0
      BY <2>1 DEF IInv, Ownership, HeldAsked, NeverLost
    <2>3. r \notin External
      BY <1>6 DEF Park, RetryTimer, MayRetry, IInv, Ownership, NoneParkedExternal
    <2>4. Contract!PutOff(r)
      BY <2>1, <2>2, <2>3 DEF Contract!PutOff, Contract!Unanswered
    <2> QED BY <2>4 DEF Contract!Next
  <1>7. CASE Shutdown \/ Join \/ Drain \/ Poll \/ Abort \/ Destroyed \/ UNCHANGED vars
    BY <1>7 DEF Shutdown, Join, Drain, Poll, Abort, Destroyed
  <1>8. ASSUME NEW r \in Requests,
               Challenge(r) \/ CaptchaSolved(r) \/ \E res \in Outcome : Complete(r, res)
        PROVE UNCHANGED <<asked, calls, parked, client = "alive">>
    BY <1>8 DEF Challenge, CaptchaSolved, Complete
  <1> QED BY <1>1, <1>2, <1>4, <1>5, <1>6, <1>7, <1>8 DEF Next, OnComplete

\* The worker thread, the timers and the captcha dialog are invisible to the
\* callers: HttpClient implements its contract.
THEOREM Implements == Spec => ImplementsContract
  <1>1. Init => Contract!Init
    BY DEF Init, Contract!Init
  <1> QED BY <1>1, StepImplements, Invariance, PTL DEF Spec, ImplementsContract, Contract!Spec, Contract!vars

\* What the run checks of a request's whereabouts, for every set of requests.
THEOREM RequestsKept == Spec => []Inv
  BY TypeCorrect, SingleOwner, NothingLost, PTL DEF Inv

-----------------------------------------------------------------------------
(***************************************************************************)
(* RemoteAuth.  The invariant has two halves.  Resolver is about the dialog  *)
(* and whoever waits for it: CallbackOnce and NobodyForgotten, that a caller   *)
(* asks only below its cap (AskedBelow), that nobody's callback waits while    *)
(* a solution is verified (Verified), and that the number of challenges shown *)
(* is at most the number of <<caller, attempt>> pairs shown so far (Counted),  *)
(* which bounds it.  Auth and Exchange are about the login: its client's life *)
(* (Phases), that only a network thread brings messages (Silent), and what    *)
(* the HTTP thread, its answer and the login's challenge can be together.     *)
(***************************************************************************)

\* Every set of naturals that is not empty has a least member.
LEMMA LeastNatural ==
  ASSUME NEW T \in SUBSET Nat, T # {}
  PROVE  \E n \in T : \A m \in T : n <= m
  <1>1. PICK n \in T : \A m \in T : <<m, n>> \notin OpToRel(<, Nat)
    BY WFMin, NatLessThanWellFounded
  <1>2. \A m \in T : ~(m < n)
    BY <1>1, Zenon DEF OpToRel
  <1> QED
    BY <1>2

\* Induction, over a set.
LEMMA AllNaturals ==
  ASSUME NEW T \in SUBSET Nat, 0 \in T, \A k \in Nat : k \in T => k + 1 \in T
  PROVE  T = Nat
  <1> SUFFICES ASSUME Nat \ T # {} PROVE FALSE
    OBVIOUS
  <1>1. PICK n \in Nat \ T : \A m \in Nat \ T : n <= m
    BY LeastNatural
  <1>2. n - 1 \in Nat /\ n - 1 \in T
    BY <1>1
  <1> QED
    BY <1>1, <1>2

-----------------------------------------------------------------------------
(* The calls queued to the UI thread.                                       *)

\* What may be queued when the dialog has shown g challenges.
Event(g) ==
  {<<"fail", "">>} \cup ({"resolve"} \X Consumers) \cup ({"conclude"} \X (0..g))
  \cup ({"message"} \X UNION {Messages(k) : k \in 0..5}) \cup ({"answer"} \X Answers)

\* Who has a resolve() among the calls, each of them once; and the HTTP thread's answer.
PostedIn(m) == {c \in Consumers : \E i \in DOMAIN m : m[i] = <<"resolve", c>>}
Once(m) == \A i, j \in DOMAIN m : m[i] = m[j] /\ m[i][1] = "resolve" => i = j
NoAnswer(m) == \A i \in DOMAIN m : m[i][1] # "answer"
OneAnswer(m) ==
  \E i \in DOMAIN m : m[i][1] = "answer" /\ \A j \in DOMAIN m : m[j][1] = "answer" => j = i

\* The kinds of calls.
LEMMA EventIs ==
  ASSUME NEW g \in Nat
  PROVE  /\ <<"fail", "">> \in Event(g)
         /\ \A c \in Consumers : <<"resolve", c>> \in Event(g)
         /\ \A h \in 0..g : <<"conclude", h>> \in Event(g)
         /\ \A k \in 0..5 : \A m \in Messages(k) : <<"message", m>> \in Event(g)
         /\ \A a \in Answers : <<"answer", a>> \in Event(g)
         /\ \A e \in Event(g) :
              /\ e[1] = "resolve" => e[2] \in Consumers /\ e = <<"resolve", e[2]>>
              /\ e[1] = "conclude" => e[2] \in 0..g
              /\ e[1] = "answer" => e[2] \in Answers
         /\ \A h \in Nat : g <= h => Event(g) \subseteq Event(h)
<1> DEFINE M == UNION {Messages(k) : k \in 0..5}
<1>1. \A k \in 0..5 : \A m \in Messages(k) : m \in M
  OBVIOUS
<1> HIDE DEF M
<1>2. Event(g) = {<<"fail", "">>} \cup ({"resolve"} \X Consumers) \cup ({"conclude"} \X (0..g))
                 \cup ({"message"} \X M) \cup ({"answer"} \X Answers)
  BY Zenon DEF Event, M
<1>3. \A h \in Nat : Event(h) = {<<"fail", "">>} \cup ({"resolve"} \X Consumers) \cup ({"conclude"} \X (0..h))
                 \cup ({"message"} \X M) \cup ({"answer"} \X Answers)
  BY Zenon DEF Event, M
<1>4. ASSUME NEW h \in Nat, g <= h PROVE Event(g) \subseteq Event(h)
  <2>1. 0..g \subseteq 0..h
    BY <1>4
  <2>2. ({"conclude"} \X (0..g)) \subseteq ({"conclude"} \X (0..h))
    BY <2>1
  <2> DEFINE P(k) == {"conclude"} \X (0..k)
             X == {"resolve"} \X Consumers
             Y == {"message"} \X M
             Z == {"answer"} \X Answers
  <2>3. P(g) \subseteq P(h)
    BY <2>2
  <2>4. Event(g) = {<<"fail", "">>} \cup X \cup P(g) \cup Y \cup Z
    BY <1>2
  <2>5. Event(h) = {<<"fail", "">>} \cup X \cup P(h) \cup Y \cup Z
    BY <1>3
  <2> HIDE DEF P, X, Y, Z
  <2> QED
    BY <2>3, <2>4, <2>5
<1>5. ASSUME NEW e \in Event(g)
      PROVE  /\ e[1] = "resolve" => e[2] \in Consumers /\ e = <<"resolve", e[2]>>
             /\ e[1] = "conclude" => e[2] \in 0..g
             /\ e[1] = "answer" => e[2] \in Answers
  <2>1. CASE e = <<"fail", "">>
    BY <2>1
  <2>2. CASE e \in {"resolve"} \X Consumers
    BY <2>2
  <2>3. CASE e \in {"conclude"} \X (0..g)
    BY <2>3
  <2>4. CASE e \in {"message"} \X M
    BY <2>4
  <2>5. CASE e \in {"answer"} \X Answers
    BY <2>5
  <2> QED
    BY <1>2, <2>1, <2>2, <2>3, <2>4, <2>5
<1>6. /\ <<"fail", "">> \in Event(g)
      /\ \A c \in Consumers : <<"resolve", c>> \in Event(g)
      /\ \A h \in 0..g : <<"conclude", h>> \in Event(g)
      /\ \A k \in 0..5 : \A m \in Messages(k) : <<"message", m>> \in Event(g)
      /\ \A a \in Answers : <<"answer", a>> \in Event(g)
  BY <1>1, <1>2
<1> QED
  BY <1>4, <1>5, <1>6

\* The first call taken from the queue,
LEMMA Popped ==
  ASSUME NEW g \in Nat, NEW m \in Seq(Event(g)), m # <<>>, Once(m)
  PROVE  /\ Head(m) \in Event(g) /\ Tail(m) \in Seq(Event(g)) /\ Once(Tail(m))
         /\ Head(m)[1] = "resolve" => /\ Head(m)[2] \in PostedIn(m)
                                      /\ PostedIn(Tail(m)) = PostedIn(m) \ {Head(m)[2]}
         /\ Head(m)[1] # "resolve" => PostedIn(Tail(m)) = PostedIn(m)
         /\ NoAnswer(m) => NoAnswer(Tail(m)) /\ Head(m)[1] # "answer"
         /\ OneAnswer(m) => IF Head(m)[1] = "answer" THEN NoAnswer(Tail(m)) ELSE OneAnswer(Tail(m))
<1> DEFINE n == Len(m)
           t == Tail(m)
<1>1. /\ n \in Nat \ {0} /\ DOMAIN m = 1..n /\ Head(m) = m[1] /\ \A i \in 1..n : m[i] \in Event(g)
      /\ t \in Seq(Event(g)) /\ DOMAIN t = 1..n - 1 /\ \A i \in 1..n - 1 : t[i] = m[i + 1]
  OBVIOUS
<1> HIDE DEF n, t
<1>2. \A i \in 1..n - 1 : i + 1 \in 1..n
  BY <1>1
<1>3. \A i \in 1..n : i # 1 => i - 1 \in 1..n - 1 /\ t[i - 1] = m[i]
  BY <1>1
<1>4. Once(t)
  <2> SUFFICES ASSUME NEW i \in DOMAIN t, NEW j \in DOMAIN t, t[i] = t[j], t[i][1] = "resolve" PROVE i = j
    BY DEF Once
  <2>1. i + 1 \in 1..n /\ j + 1 \in 1..n /\ t[i] = m[i + 1] /\ t[j] = m[j + 1]
    BY <1>1, <1>2
  <2>2. \A k, l \in 1..n : m[k] = m[l] /\ m[k][1] = "resolve" => k = l
    BY <1>1 DEF Once
  <2>3. i + 1 = j + 1
    BY <2>1, <2>2
  <2> QED
    BY <1>1, <2>3
<1>5. ASSUME NEW c \in Consumers
      PROVE  c \in PostedIn(t) <=> \E i \in 1..n : i # 1 /\ m[i] = <<"resolve", c>>
  <2>1. ASSUME NEW i \in 1..n, i # 1, m[i] = <<"resolve", c>> PROVE c \in PostedIn(t)
    BY <1>1, <1>3, <2>1 DEF PostedIn
  <2>2. ASSUME NEW i \in DOMAIN t, t[i] = <<"resolve", c>> PROVE \E k \in 1..n : k # 1 /\ m[k] = <<"resolve", c>>
    <3>1. i + 1 \in 1..n /\ i + 1 # 1 /\ m[i + 1] = <<"resolve", c>>
      BY <1>1, <1>2, <2>2
    <3> QED
      BY <3>1
  <2> QED
    BY <2>1, <2>2 DEF PostedIn
<1>6. ASSUME m[1][1] = "resolve"
      PROVE  m[1][2] \in PostedIn(m) /\ PostedIn(t) = PostedIn(m) \ {m[1][2]}
  <2>1. m[1] \in Event(g) /\ 1 \in 1..n
    BY <1>1
  <2>2. m[1][2] \in Consumers /\ m[1] = <<"resolve", m[1][2]>>
    BY <1>6, <2>1, EventIs
  <2>3. ASSUME NEW c \in Consumers
        PROVE  c \in PostedIn(t) <=> c \in PostedIn(m) /\ c # m[1][2]
    <3>1. ASSUME NEW i \in 1..n, i # 1, m[i] = <<"resolve", c>> PROVE c # m[1][2]
      <4>1. m[i] = m[1] => i = 1
        BY <1>1, <1>6, <2>1 DEF Once
      <4> QED
        BY <2>2, <3>1, <4>1
    <3>2. ASSUME c # m[1][2] PROVE m[1] # <<"resolve", c>>
      BY <3>2
    <3>3. c \in PostedIn(m) <=> \E i \in 1..n : m[i] = <<"resolve", c>>
      BY <1>1 DEF PostedIn
    <3> QED
      BY <1>5, <3>1, <3>2, <3>3
  <2>4. m[1][2] \in PostedIn(m)
    BY <1>1, <2>1, <2>2 DEF PostedIn
  <2>5. PostedIn(t) \subseteq Consumers /\ PostedIn(m) \subseteq Consumers
    BY DEF PostedIn
  <2> QED
    BY <2>3, <2>4, <2>5
<1>7. ASSUME m[1][1] # "resolve" PROVE PostedIn(t) = PostedIn(m)
  <2>1. ASSUME NEW c \in Consumers PROVE c \in PostedIn(t) <=> c \in PostedIn(m)
    <3>1. m[1] # <<"resolve", c>>
      BY <1>7
    <3>2. c \in PostedIn(m) <=> \E i \in 1..n : m[i] = <<"resolve", c>>
      BY <1>1 DEF PostedIn
    <3> QED
      BY <1>5, <3>1, <3>2
  <2>2. PostedIn(t) \subseteq Consumers /\ PostedIn(m) \subseteq Consumers
    BY DEF PostedIn
  <2> QED
    BY <2>1, <2>2
<1>8. ASSUME NoAnswer(m) PROVE NoAnswer(t) /\ m[1][1] # "answer"
  <2>1. \A i \in 1..n : m[i][1] # "answer"
    BY <1>1, <1>8 DEF NoAnswer
  <2>2. \A i \in DOMAIN t : t[i][1] # "answer"
    BY <1>1, <1>2, <2>1
  <2>3. 1 \in 1..n
    BY <1>1
  <2> QED
    BY <2>1, <2>2, <2>3 DEF NoAnswer
<1>9. ASSUME OneAnswer(m) PROVE IF m[1][1] = "answer" THEN NoAnswer(t) ELSE OneAnswer(t)
  <2>1. PICK i \in 1..n : m[i][1] = "answer" /\ \A j \in 1..n : m[j][1] = "answer" => j = i
    BY <1>1, <1>9, Zenon DEF OneAnswer
  <2>2. 1 \in 1..n
    BY <1>1
  <2>3. CASE i = 1
    <3>1. \A j \in DOMAIN t : t[j][1] # "answer"
      BY <1>1, <1>2, <2>1, <2>3
    <3> QED
      BY <2>1, <2>3, <3>1 DEF NoAnswer
  <2>4. CASE i # 1
    <3>1. i - 1 \in DOMAIN t /\ t[i - 1][1] = "answer"
      BY <1>1, <1>3, <2>1, <2>4
    <3>2. ASSUME NEW j \in DOMAIN t, t[j][1] = "answer" PROVE j = i - 1
      <4>1. j + 1 \in 1..n /\ m[j + 1][1] = "answer"
        BY <1>1, <1>2, <3>2
      <4>2. j + 1 = i
        BY <2>1, <4>1
      <4> QED
        BY <1>1, <4>2
    <3>3. OneAnswer(t)
      BY <3>1, <3>2, Zenon DEF OneAnswer
    <3> QED
      BY <2>1, <2>2, <2>4, <3>3
  <2> QED
    BY <2>3, <2>4
<1> QED
  BY <1>1, <1>4, <1>6, <1>7, <1>8, <1>9 DEF t

\* and one put behind the others.
LEMMA Pushed ==
  ASSUME NEW g \in Nat, NEW m \in Seq(Event(g)), NEW e \in Event(g), Once(m)
  PROVE  /\ Append(m, e) \in Seq(Event(g))
         /\ e[1] = "resolve" => PostedIn(Append(m, e)) = PostedIn(m) \cup {e[2]}
         /\ e[1] # "resolve" => PostedIn(Append(m, e)) = PostedIn(m)
         /\ (e[1] = "resolve" => e[2] \notin PostedIn(m)) => Once(Append(m, e))
         /\ e[1] # "answer" /\ NoAnswer(m) => NoAnswer(Append(m, e))
         /\ e[1] # "answer" /\ OneAnswer(m) => OneAnswer(Append(m, e))
         /\ e[1] = "answer" /\ NoAnswer(m) => OneAnswer(Append(m, e))
<1> DEFINE n == Len(m)
           a == Append(m, e)
<1>1. /\ n \in Nat /\ DOMAIN m = 1..n /\ \A i \in 1..n : m[i] \in Event(g)
      /\ a \in Seq(Event(g)) /\ DOMAIN a = 1..n + 1 /\ a[n + 1] = e /\ \A i \in 1..n : a[i] = m[i]
  OBVIOUS
<1> HIDE DEF n, a
<1>2. \A i \in 1..n + 1 : i \in 1..n \/ i = n + 1
  BY <1>1
<1>3. \A i \in 1..n : i \in 1..n + 1 /\ i # n + 1
  BY <1>1
<1>4. n + 1 \in 1..n + 1
  BY <1>1
<1>5. \A i \in 1..n + 1 : a[i] \in Event(g)
  BY <1>1, <1>2
<1>6. ASSUME NEW c \in Consumers PROVE c \in PostedIn(a) <=> c \in PostedIn(m) \/ e = <<"resolve", c>>
  BY <1>1, <1>2, <1>3, <1>4 DEF PostedIn
<1>7. e[1] = "resolve" => e[2] \in Consumers /\ e = <<"resolve", e[2]>>
  BY EventIs
<1>8. PostedIn(a) \subseteq Consumers /\ PostedIn(m) \subseteq Consumers
  BY DEF PostedIn
<1>9. ASSUME e[1] = "resolve" PROVE PostedIn(a) = PostedIn(m) \cup {e[2]}
  <2>1. \A c \in Consumers : e = <<"resolve", c>> <=> c = e[2]
    BY <1>7, <1>9
  <2> QED
    BY <1>6, <1>7, <1>8, <1>9, <2>1
<1>10. ASSUME e[1] # "resolve" PROVE PostedIn(a) = PostedIn(m)
  <2>1. \A c \in Consumers : e # <<"resolve", c>>
    BY <1>10
  <2> QED
    BY <1>6, <1>8, <2>1
<1>11. ASSUME e[1] = "resolve" => e[2] \notin PostedIn(m) PROVE Once(a)
  <2>1. ASSUME NEW i \in 1..n, m[i] = e, e[1] = "resolve" PROVE FALSE
    <3>1. e[2] \in PostedIn(m)
      BY <1>1, <1>7, <2>1 DEF PostedIn
    <3> QED
      BY <1>11, <2>1, <3>1
  <2> SUFFICES ASSUME NEW i \in 1..n + 1, NEW j \in 1..n + 1, a[i] = a[j], a[i][1] = "resolve" PROVE i = j
    BY <1>1 DEF Once
  <2>2. CASE i \in 1..n /\ j \in 1..n
    BY <1>1, <2>2 DEF Once
  <2>3. CASE i = n + 1 /\ j \in 1..n
    BY <1>1, <2>1, <2>3
  <2>4. CASE j = n + 1 /\ i \in 1..n
    BY <1>1, <2>1, <2>4
  <2> QED
    BY <1>2, <2>2, <2>3, <2>4
<1>12. ASSUME e[1] # "answer", NoAnswer(m) PROVE NoAnswer(a)
  BY <1>1, <1>2, <1>12 DEF NoAnswer
<1>13. ASSUME e[1] # "answer", OneAnswer(m) PROVE OneAnswer(a)
  <2>1. PICK i \in 1..n : m[i][1] = "answer" /\ \A j \in 1..n : m[j][1] = "answer" => j = i
    BY <1>1, <1>13, Zenon DEF OneAnswer
  <2>2. i \in DOMAIN a /\ a[i][1] = "answer"
    BY <1>1, <1>3, <2>1
  <2>3. \A j \in DOMAIN a : a[j][1] = "answer" => j = i
    BY <1>1, <1>2, <1>13, <2>1
  <2> QED
    BY <2>2, <2>3, Zenon DEF OneAnswer
<1>14. ASSUME e[1] = "answer", NoAnswer(m) PROVE OneAnswer(a)
  <2>1. n + 1 \in DOMAIN a /\ a[n + 1][1] = "answer"
    BY <1>1, <1>4, <1>14
  <2>2. \A j \in DOMAIN a : a[j][1] = "answer" => j = n + 1
    BY <1>1, <1>2, <1>14 DEF NoAnswer
  <2> QED
    BY <2>1, <2>2, Zenon DEF OneAnswer
<1> QED
  BY <1>1, <1>9, <1>10, <1>11, <1>12, <1>13, <1>14 DEF a

\* The calls queued to the application: the recursion of Remaining has the solution it describes,
LEMMA RestIs ==
  ASSUME NEW S, NEW m \in Seq(S)
  PROVE  \E F \in [0..Len(m) -> Seq(S)] :
           /\ F[0] = <<>> /\ Remaining(m) = F[Len(m)]
           /\ \A k \in 1..Len(m) :
                F[k] = IF m[k][1] \in {"message", "fail"} THEN F[k - 1] ELSE Append(F[k - 1], m[k])
<1> DEFINE n == Len(m)
           Gone(k) == m[k][1] \in {"message", "fail"}
           At(f, k) == IF k = 0 THEN <<>> ELSE IF Gone(k) THEN f[k - 1] ELSE Append(f[k - 1], m[k])
           Body(f) == [k \in 0..n |-> At(f, k)]
           Upto(f, i) == \A k \in 0..n : k <= i => f[k] = At(f, k)
           Reached == {i \in Nat : \E h \in [0..n -> Seq(S)] : Upto(h, i)}
           F == CHOOSE f : f = Body(f)
<1>1. Remaining(m) = F[n]
  BY Zenon DEF Remaining
<1>2. n \in Nat /\ \A k \in 1..n : m[k] \in S
  OBVIOUS
<1> HIDE DEF n, Gone
<1>3. \A f \in [0..n -> Seq(S)], k \in 0..n : At(f, k) \in Seq(S)
  <2> TAKE f \in [0..n -> Seq(S)], k \in 0..n
  <2>1. CASE k = 0
    BY <2>1
  <2>2. CASE k # 0
    <3>1. f[k - 1] \in Seq(S) /\ m[k] \in S
      BY <1>2, <2>2
    <3> QED
      BY <2>2, <3>1
  <2> QED
    BY <2>1, <2>2
<1>4. 0 \in Reached
  <2> DEFINE f == [k \in 0..n |-> <<>>]
  <2>1. f \in [0..n -> Seq(S)] /\ Upto(f, 0)
    BY <1>2
  <2> HIDE DEF f, Upto
  <2> QED
    BY <2>1
<1>5. ASSUME NEW i \in Nat, i \in Reached PROVE i + 1 \in Reached
  <2> PICK f \in [0..n -> Seq(S)] : Upto(f, i)
    BY <1>5
  <2> DEFINE g == [k \in 0..n |-> IF k = i + 1 THEN At(f, k) ELSE f[k]]
  <2>1. g \in [0..n -> Seq(S)]
    <3> HIDE DEF At
    <3> QED
      BY <1>3
  <2>2. ASSUME NEW k \in 0..n, k <= i + 1 PROVE g[k] = At(g, k)
    <3>1. k # 0 => k - 1 \in 0..n /\ g[k - 1] = f[k - 1]
      <4> HIDE DEF At
      <4> QED
        BY <1>2, <2>2
    <3>2. g[k] = At(f, k)
      <4> HIDE DEF At
      <4>1. k = i + 1 \/ k <= i
        BY <1>2, <2>2
      <4> QED
        BY <4>1
    <3> HIDE DEF g
    <3> QED
      BY <3>1, <3>2
  <2>3. Upto(g, i + 1)
    BY <2>2
  <2> HIDE DEF g, Upto
  <2> QED
    BY <2>1, <2>3
<1>6. n \in Reached
  <2>1. Reached \in SUBSET Nat
    OBVIOUS
  <2> HIDE DEF Reached
  <2> QED
    BY <1>2, <1>4, <1>5, <2>1, AllNaturals
<1>7. \E f \in [0..n -> Seq(S)] : f = Body(f)
  <2> PICK f \in [0..n -> Seq(S)] : Upto(f, n)
    BY <1>6
  <2> HIDE DEF At
  <2>1. \A k \in 0..n : f[k] = At(f, k)
    BY <1>2
  <2> QED
    BY <2>1
<1>8. F = Body(F)
  BY <1>7
<1> HIDE DEF F
<1>9. F = [k \in 0..n |-> F[k]] /\ \A k \in 0..n : F[k] = At(F, k)
  BY <1>8
<1>10. \A k \in 1..n : k \in 0..n /\ k # 0
  BY <1>2
<1>11. F[0] = <<>> /\ \A k \in 1..n : F[k] = IF Gone(k) THEN F[k - 1] ELSE Append(F[k - 1], m[k])
  BY <1>2, <1>9, <1>10
<1> DEFINE Typed == {i \in Nat : i <= n => F[i] \in Seq(S)}
<1>12. 0 \in Typed
  <2>1. <<>> \in Seq(S) /\ F[0] = <<>>
    BY <1>11
  <2> QED
    BY <2>1
<1>13. ASSUME NEW i \in Nat, i \in Typed PROVE i + 1 \in Typed
  <2> SUFFICES ASSUME i + 1 <= n PROVE F[i + 1] \in Seq(S)
    OBVIOUS
  <2>1. i + 1 - 1 = i /\ i + 1 \in 1..n /\ F[i] \in Seq(S) /\ m[i + 1] \in S
    BY <1>2, <1>13
  <2>2. F[i + 1] = IF Gone(i + 1) THEN F[i] ELSE Append(F[i], m[i + 1])
    BY <1>11, <2>1
  <2> QED
    BY <2>1, <2>2
<1>14. Typed = Nat
  <2>1. Typed \in SUBSET Nat
    OBVIOUS
  <2> HIDE DEF Typed
  <2> QED
    BY <1>12, <1>13, <2>1, AllNaturals
<1>15. F \in [0..n -> Seq(S)]
  <2>1. \A i \in 0..n : i \in Nat /\ i <= n
    BY <1>2
  <2>2. \A i \in 0..n : F[i] \in Seq(S)
    BY <1>14, <2>1
  <2> QED
    BY <1>9, <2>2
<1> QED
  BY <1>1, <1>11, <1>15 DEF n, Gone

\* and drops no resolve().
LEMMA RemainingIs ==
  ASSUME NEW g \in Nat, NEW m \in Seq(Event(g)), Once(m)
  PROVE  /\ Remaining(m) \in Seq(Event(g)) /\ Once(Remaining(m))
         /\ PostedIn(Remaining(m)) = PostedIn(m)
<1> DEFINE n == Len(m)
           Upto(k) == {c \in Consumers : \E i \in 1..k : m[i] = <<"resolve", c>>}
<1>1. n \in Nat /\ DOMAIN m = 1..n /\ \A i \in 1..n : m[i] \in Event(g)
  OBVIOUS
<1>2. PICK F \in [0..n -> Seq(Event(g))] :
        /\ F[0] = <<>> /\ Remaining(m) = F[n]
        /\ \A k \in 1..n : F[k] = IF m[k][1] \in {"message", "fail"} THEN F[k - 1] ELSE Append(F[k - 1], m[k])
  BY RestIs
<1> HIDE DEF n
<1> DEFINE Is(k) == Once(F[k]) /\ PostedIn(F[k]) = Upto(k)
           T == {k \in Nat : k <= n => Is(k)}
<1>3. 0 \in T
  <2>1. DOMAIN F[0] = {} /\ 1..0 = {}
    BY <1>2
  <2>2. Once(F[0]) /\ PostedIn(F[0]) = {} /\ Upto(0) = {}
    BY <2>1 DEF Once, PostedIn
  <2>3. Is(0)
    BY <2>2
  <2> HIDE DEF Is
  <2> QED
    BY <2>3
<1>4. ASSUME NEW k \in Nat, k \in T PROVE k + 1 \in T
  <2> SUFFICES ASSUME k + 1 <= n PROVE Is(k + 1)
    <3> HIDE DEF Is
    <3> QED
      OBVIOUS
  <2> DEFINE e == m[k + 1]
  <2>1. k + 1 \in 1..n /\ k + 1 - 1 = k /\ k \in 0..n /\ F[k] \in Seq(Event(g)) /\ e \in Event(g)
    BY <1>1, <1>2
  <2>2. F[k + 1] = IF e[1] \in {"message", "fail"} THEN F[k] ELSE Append(F[k], e)
    BY <1>2, <2>1
  <2>3. Once(F[k]) /\ PostedIn(F[k]) = Upto(k)
    <3>1. k <= n
      BY <1>1, <2>1
    <3>2. Is(k)
      <4> HIDE DEF Is
      <4> QED
        BY <1>4, <3>1
    <3> QED
      BY <3>2
  <2>4. \A i : i \in 1..k + 1 <=> i \in 1..k \/ i = k + 1
    BY <2>1
  <2>5. \A i \in 1..k : i \in 1..n /\ i # k + 1
    BY <1>1, <2>1
  <2> HIDE DEF e
  <2>6. e = m[k + 1]
    BY DEF e
  <2>7. Upto(k + 1) = Upto(k) \cup {c \in Consumers : e = <<"resolve", c>>}
    BY <2>4, <2>6
  <2>8. CASE e[1] # "resolve"
    <3>1. \A c : e # <<"resolve", c>>
      BY <2>8
    <3>2. Upto(k + 1) = Upto(k)
      BY <2>7, <3>1
    <3>3. e[1] \notin {"message", "fail"} => Once(Append(F[k], e)) /\ PostedIn(Append(F[k], e)) = PostedIn(F[k])
      BY <2>1, <2>3, <2>8, Pushed
    <3> HIDE DEF Upto
    <3> QED
      BY <2>2, <2>3, <3>2, <3>3
  <2>9. CASE e[1] = "resolve"
    <3>1. e[2] \in Consumers /\ e = <<"resolve", e[2]>>
      BY <2>1, <2>9, EventIs
    <3>2. e[2] \notin Upto(k)
      <4> SUFFICES ASSUME NEW i \in 1..k, m[i] = <<"resolve", e[2]>> PROVE FALSE
        OBVIOUS
      <4>1. m[i] = m[k + 1] /\ m[i][1] = "resolve"
        BY <2>6, <3>1
      <4>2. i = k + 1
        BY <1>1, <2>1, <2>5, <4>1 DEF Once
      <4> QED
        BY <2>5, <4>2
    <3>3. {c \in Consumers : e = <<"resolve", c>>} = {e[2]}
      BY <3>1
    <3>4. F[k + 1] = Append(F[k], e)
      BY <2>2, <2>9
    <3>5. Once(Append(F[k], e)) /\ PostedIn(Append(F[k], e)) = PostedIn(F[k]) \cup {e[2]}
      <4> HIDE DEF Upto
      <4>1. e[2] \notin PostedIn(F[k])
        BY <2>3, <3>2
      <4> QED
        BY <2>1, <2>3, <2>9, <4>1, Pushed
    <3> QED
      BY <2>3, <2>7, <3>3, <3>4, <3>5
  <2> QED
    BY <2>8, <2>9
<1>5. T = Nat
  <2>1. T \in SUBSET Nat
    OBVIOUS
  <2> HIDE DEF T
  <2> QED
    BY <1>3, <1>4, <2>1, AllNaturals
<1>6. Once(F[n]) /\ PostedIn(F[n]) = Upto(n)
  <2>1. Is(n)
    <3> HIDE DEF Is
    <3> QED
      BY <1>1, <1>5
  <2> QED
    BY <2>1
<1>7. Upto(n) = PostedIn(m)
  BY <1>1 DEF PostedIn
<1>8. n \in 0..n
  BY <1>1
<1> HIDE DEF Upto
<1> QED
  BY <1>2, <1>6, <1>7, <1>8

-----------------------------------------------------------------------------
(* The queue of challenges.                                                 *)

\* A sequence without its first element, with one more, or without its last.
LEMMA QueueTail ==
  ASSUME NEW S, NEW q \in Seq(S), q # <<>>, IsInjective(q)
  PROVE  /\ Head(q) \in S /\ Tail(q) \in Seq(S) /\ IsInjective(Tail(q))
         /\ Head(q) \in Range(q) /\ Range(Tail(q)) = Range(q) \ {Head(q)}
<1> DEFINE n == Len(q)
           t == Tail(q)
<1>1. /\ n \in Nat \ {0} /\ DOMAIN q = 1..n /\ Head(q) = q[1] /\ \A i \in 1..n : q[i] \in S
      /\ t \in Seq(S) /\ DOMAIN t = 1..n - 1 /\ \A i \in 1..n - 1 : t[i] = q[i + 1]
  OBVIOUS
<1> HIDE DEF n, t
<1>2. \A i, j \in 1..n : q[i] = q[j] => i = j
  BY <1>1 DEF IsInjective
<1>3. \A i \in 1..n - 1 : i + 1 \in 1..n /\ i + 1 # 1
  BY <1>1
<1>4. \A i \in 1..n : i # 1 => i - 1 \in 1..n - 1 /\ t[i - 1] = q[i]
  BY <1>1
<1>5. 1 \in 1..n
  BY <1>1
<1>6. \A i, j \in 1..n - 1 : t[i] = t[j] => i = j
  <2> SUFFICES ASSUME NEW i \in 1..n - 1, NEW j \in 1..n - 1, t[i] = t[j] PROVE i = j
    OBVIOUS
  <2>1. i + 1 = j + 1
    BY <1>1, <1>2, <1>3
  <2> QED
    BY <2>1
<1>7. IsInjective(t)
  BY <1>1, <1>6 DEF IsInjective
<1>8. Range(q) = {q[i] : i \in 1..n} /\ Range(t) = {t[i] : i \in 1..n - 1}
  BY <1>1 DEF Range
<1>9. ASSUME NEW x PROVE x \in Range(t) <=> x \in Range(q) /\ x # q[1]
  <2>1. ASSUME NEW i \in 1..n - 1, x = t[i] PROVE x \in Range(q) /\ x # q[1]
    BY <1>1, <1>2, <1>3, <1>5, <1>8, <2>1
  <2>2. ASSUME NEW i \in 1..n, x = q[i], x # q[1] PROVE x \in Range(t)
    BY <1>4, <1>8, <2>2
  <2> QED
    BY <1>8, <2>1, <2>2
<1>10. Range(t) = Range(q) \ {q[1]}
  BY <1>9
<1> QED
  BY <1>1, <1>5, <1>7, <1>8, <1>10 DEF t

\* The second of them.
LEMMA QueueAppend ==
  ASSUME NEW S, NEW q \in Seq(S), NEW x \in S
  PROVE  /\ Append(q, x) \in Seq(S) /\ Append(q, x) # <<>>
         /\ Range(Append(q, x)) = Range(q) \cup {x}
         /\ IsInjective(q) /\ x \notin Range(q) => IsInjective(Append(q, x))
<1> DEFINE n == Len(q)
           a == Append(q, x)
<1>1. /\ n \in Nat /\ DOMAIN q = 1..n /\ a \in Seq(S) /\ a # <<>>
      /\ DOMAIN a = 1..n + 1 /\ a[n + 1] = x /\ \A i \in 1..n : a[i] = q[i]
  OBVIOUS
<1> HIDE DEF n, a
<1>2. \A i \in 1..n + 1 : i \in 1..n \/ i = n + 1
  BY <1>1
<1>3. \A i \in 1..n : i \in 1..n + 1 /\ i # n + 1
  BY <1>1
<1>4. n + 1 \in 1..n + 1
  BY <1>1
<1>5. Range(q) = {q[i] : i \in 1..n} /\ Range(a) = {a[i] : i \in 1..n + 1}
  BY <1>1 DEF Range
<1>6. ASSUME NEW y PROVE y \in Range(a) <=> y \in Range(q) \/ y = x
  BY <1>1, <1>2, <1>3, <1>4, <1>5
<1>7. Range(a) = Range(q) \cup {x}
  BY <1>6
<1>8. ASSUME IsInjective(q), x \notin Range(q) PROVE IsInjective(a)
  <2>1. \A i, j \in 1..n : q[i] = q[j] => i = j
    BY <1>1, <1>8 DEF IsInjective
  <2>2. \A i \in 1..n : q[i] # x
    BY <1>5, <1>8
  <2>3. \A i, j \in 1..n + 1 : a[i] = a[j] => i = j
    BY <1>1, <1>2, <2>1, <2>2
  <2> QED
    BY <1>1, <2>3 DEF IsInjective
<1> QED
  BY <1>1, <1>7, <1>8 DEF a

\* The third.
LEMMA FrontIs ==
  ASSUME NEW S, NEW s \in Seq(S), s # <<>>
  PROVE  Front(s) \in Seq(S)
<1>1. Len(s) - 1 \in Nat /\ \A i \in 1..Len(s) - 1 : s[i] \in S
  OBVIOUS
<1> QED
  BY <1>1 DEF Front

-----------------------------------------------------------------------------
(* The invariant.                                                           *)

\* The types, with the queue of calls as a sequence.
ResolverTyped ==
  /\ state \in {"Idle", "Waiting", "Verifying"} /\ modal \in BOOLEAN /\ (state = "Idle" <=> ~modal)
  /\ generation \in Nat /\ mail \in Seq(Event(generation))
  /\ queue \in Seq(Consumers) /\ boxes \in Seq(Consumers) /\ currentCb \in Consumers \cup {None}
  /\ asks \in [Consumers -> {"idle", "asked", "solved", "denied", "ended"}]
  /\ attempts \in [Consumers -> 0..MaxAttempts]
  /\ dead \subseteq Consumers /\ overtaken \subseteq Consumers

\* Whose challenge is still to be shown, and whose has been: a consumer is shown one
\* challenge for each of its attempts, and one more while it is asked or when it was refused.
Waits(c) == c \in Posted \cup Range(queue)
Left(c) == asks[c] = "denied" \/ (asks[c] = "asked" /\ ~Waits(c))
Showings ==
  {s \in Consumers \X (1..MaxAttempts) :
     s[2] <= attempts[s[1]] \/ (s[2] = attempts[s[1]] + 1 /\ Left(s[1]))}
Counted == generation <= Cardinality(Showings)

\* Who asks, or was refused, had an attempt left.
AskedBelow == \A c \in Consumers : asks[c] \in {"asked", "denied"} => attempts[c] < MaxAttempts

\* Nobody's callback waits while a solution is verified.
Verified == state = "Verifying" => currentCb = None

Resolver == ResolverTyped /\ CallbackOnce /\ NobodyForgotten /\ AskedBelow /\ Verified /\ Counted

\* CallbackOnce, and who has posted, in the terms of the lemmas on queued calls.
LEMMA OnceIs == CallbackOnce <=>
  /\ Once(mail) /\ IsInjective(queue) /\ Posted \cap Range(queue) = {}
  /\ currentCb \notin Posted \cup Range(queue)
  /\ \A c \in Posted \cup Range(queue) \cup ({currentCb} \ {None}) : asks[c] = "asked"
BY Zenon DEF CallbackOnce, Once

\* The calls of resolve() still queued, likewise.
LEMMA PostedIs == Posted = PostedIn(mail) /\ Posted' = PostedIn(mail')
BY Zenon DEF Posted, PostedIn

\* What a sequence over a set holds is in the set.
LEMMA RangeIs == ASSUME NEW S, NEW q \in Seq(S) PROVE Range(q) \subseteq S
BY DEF Range

\* Showings are finitely many.
LEMMA ShowingsFinite ==
  /\ IsFiniteSet(Consumers) /\ IsFiniteSet(Consumers \X (1..MaxAttempts))
  /\ Cardinality(Consumers) \in Nat
  /\ Cardinality(Consumers \X (1..MaxAttempts)) = Cardinality(Consumers) * MaxAttempts
<1>1. IsFiniteSet(Consumers)
  BY CaptchaAssumption, FS_AddElement DEF Consumers
<1>2. IsFiniteSet(1..MaxAttempts) /\ Cardinality(1..MaxAttempts) = MaxAttempts
  BY CaptchaAssumption, FS_Interval
<1> QED
  BY <1>1, <1>2, FS_Product, FS_CardinalityType

\* Showings are added, never taken away, and one for each challenge shown.
LEMMA ShowingsStep ==
  ASSUME ResolverTyped, Counted, AskedBelow',
         attempts' \in [Consumers -> 0..MaxAttempts], generation' \in {generation, generation + 1},
         \A c \in Consumers :
           \/ attempts'[c] = attempts[c] /\ (Left(c) => Left(c)')
           \/ attempts'[c] = attempts[c] + 1,
         generation' # generation =>
           \E c \in Consumers : ~Left(c) /\ Left(c)' /\ attempts'[c] = attempts[c]
  PROVE  Counted'
<1> DEFINE P == Consumers \X (1..MaxAttempts)
           A == Showings
           B == Showings'
<1>1. IsFiniteSet(P)
  BY ShowingsFinite
<1>2. A \subseteq P /\ B \subseteq P
  BY DEF Showings
<1>3. IsFiniteSet(A) /\ IsFiniteSet(B) /\ Cardinality(A) \in Nat /\ Cardinality(B) \in Nat
  BY <1>1, <1>2, FS_Subset, FS_CardinalityType
<1>4. \A c \in Consumers : attempts[c] \in Nat /\ attempts'[c] \in Nat
  BY CaptchaAssumption DEF ResolverTyped
<1>5. A \subseteq B
  <2> SUFFICES ASSUME NEW s \in A PROVE s \in B
    OBVIOUS
  <2> DEFINE c == s[1]
             k == s[2]
  <2>1. s \in P /\ c \in Consumers /\ k \in Nat /\ (k <= attempts[c] \/ (k = attempts[c] + 1 /\ Left(c)))
    BY <1>2 DEF Showings
  <2>2. k <= attempts'[c] \/ (k = attempts'[c] + 1 /\ Left(c)')
    BY <1>4, <2>1
  <2> QED
    BY <2>1, <2>2 DEF Showings
<1>6. Cardinality(A) <= Cardinality(B)
  BY <1>3, <1>5, FS_Subset
<1>7. CASE generation' = generation
  BY <1>3, <1>6, <1>7 DEF Counted, ResolverTyped
<1>8. CASE generation' # generation
  <2> PICK c \in Consumers : ~Left(c) /\ Left(c)' /\ attempts'[c] = attempts[c]
    BY <1>8
  <2> DEFINE s == <<c, attempts[c] + 1>>
  <2>1. asks'[c] \in {"asked", "denied"}
    BY DEF Left
  <2>2. attempts'[c] < MaxAttempts
    BY <2>1 DEF AskedBelow
  <2>3. attempts[c] + 1 \in 1..MaxAttempts
    BY <1>4, <2>2, CaptchaAssumption
  <2>4. s \in B
    BY <2>3, <1>4 DEF Showings
  <2>5. s \notin A
    BY <1>4 DEF Showings
  <2> HIDE DEF s, A, B
  <2>6. Cardinality(A \cup {s}) = Cardinality(A) + 1 /\ IsFiniteSet(A \cup {s})
    BY <1>3, <2>5, FS_AddElement
  <2>7. A \cup {s} \subseteq B
    BY <1>5, <2>4
  <2>8. Cardinality(A) + 1 <= Cardinality(B)
    BY <1>3, <2>6, <2>7, FS_Subset
  <2> QED
    BY <1>3, <1>8, <2>8 DEF Counted, ResolverTyped, A, B
<1> QED
  BY <1>7, <1>8

-----------------------------------------------------------------------------
(* The steps of the resolver.                                               *)

\* Nothing is asked, shown or solved at first.
LEMMA InitResolver == ResolverInit => Resolver
<1> SUFFICES ASSUME ResolverInit PROVE Resolver
  OBVIOUS
<1>1. DOMAIN mail = {} /\ DOMAIN queue = {} /\ Posted = {} /\ Range(queue) = {}
  BY DEF ResolverInit, Posted, Range
<1>2. ResolverTyped
  <2>1. mail \in Seq(Event(generation))
    <3> HIDE DEF Event
    <3> QED
      BY DEF ResolverInit
  <2>2. queue \in Seq(Consumers) /\ boxes \in Seq(Consumers) /\ generation \in Nat
    BY DEF ResolverInit
  <2>3. attempts \in [Consumers -> 0..MaxAttempts]
    BY CaptchaAssumption DEF ResolverInit
  <2> QED
    BY <2>1, <2>2, <2>3 DEF ResolverInit, ResolverTyped
<1>3. CallbackOnce
  BY <1>1 DEF CallbackOnce, IsInjective, ResolverInit
<1>4. \A c \in Consumers : asks[c] = "idle"
  BY DEF ResolverInit
<1>5. NobodyForgotten /\ AskedBelow /\ Verified
  BY <1>4 DEF NobodyForgotten, AskedBelow, Verified, ResolverInit
<1>6. Counted
  <2>1. Showings \subseteq Consumers \X (1..MaxAttempts)
    BY DEF Showings
  <2>2. Cardinality(Showings) \in Nat
    BY <2>1, ShowingsFinite, FS_Subset, FS_CardinalityType
  <2> QED
    BY <2>2 DEF Counted, ResolverInit
<1> QED
  BY <1>2, <1>3, <1>5, <1>6 DEF Resolver

\* What is queued for the dialog and for others grows with the count of showings.
LEMMA Later ==
  ASSUME NEW g \in Nat, NEW h \in Nat, g <= h, NEW m \in Seq(Event(g))
  PROVE  m \in Seq(Event(h))
<1>1. Event(g) \subseteq Event(h)
  BY EventIs
<1> HIDE DEF Event
<1> QED
  BY <1>1

\* A step that leaves the dialog alone, and queues or handles calls of others.
LEMMA MailStep ==
  ASSUME Resolver, UNCHANGED <<dialog, asks, attempts>>, dead \subseteq dead', dead' \subseteq Consumers,
         mail' \in Seq(Event(generation)), Once(mail'), PostedIn(mail') = PostedIn(mail)
  PROVE  Resolver'
<1> USE DEF dialog
<1>1. Posted' = Posted
  BY PostedIs
<1>2. ResolverTyped'
  BY DEF Resolver, ResolverTyped
<1>3. CallbackOnce'
  <2>1. /\ Once(mail') /\ IsInjective(queue') /\ Posted' \cap Range(queue') = {}
        /\ currentCb' \notin Posted' \cup Range(queue')
        /\ \A d \in Posted' \cup Range(queue') \cup ({currentCb'} \ {None}) : asks'[d] = "asked"
    BY <1>1, OnceIs DEF Resolver
  <2> QED
    BY <2>1, Zenon DEF CallbackOnce, Once
<1>4. NobodyForgotten' /\ AskedBelow' /\ Verified'
  BY <1>1 DEF Resolver, NobodyForgotten, AskedBelow, Verified
<1>5. Counted'
  <2>1. \A c \in Consumers : Left(c)' <=> Left(c)
    BY <1>1 DEF Left, Waits
  <2>2. attempts' \in [Consumers -> 0..MaxAttempts] /\ \A c \in Consumers : attempts'[c] = attempts[c]
    BY DEF Resolver, ResolverTyped
  <2> QED
    BY <1>4, <2>1, <2>2, ShowingsStep DEF Resolver
<1> QED
  BY <1>2, <1>3, <1>4, <1>5 DEF Resolver

\* A consumer asks for a challenge to be shown.
LEMMA AskStep ==
  ASSUME Resolver, UNCHANGED <<dialog, attempts, dead>>, NEW c \in Consumers,
         asks[c] \in {"idle", "solved"}, MayAsk(c), asks' = [asks EXCEPT ![c] = "asked"],
         NEW m \in Seq(Event(generation)), Once(m), PostedIn(m) = Posted, mail' = Append(m, <<"resolve", c>>)
  PROVE  Resolver'
<1> USE DEF dialog
<1>1. /\ CallbackOnce /\ Posted = PostedIn(mail) /\ Posted' = PostedIn(mail') /\ generation \in Nat
      /\ asks \in [Consumers -> {"idle", "asked", "solved", "denied", "ended"}]
  BY PostedIs DEF Resolver, ResolverTyped
<1>2. c \notin Posted /\ c \notin Range(queue) /\ c # currentCb
  <2>1. c # None
    BY CaptchaAssumption
  <2> QED
    BY <1>1, <2>1, OnceIs
<1>3. /\ mail' \in Seq(Event(generation)) /\ Once(mail') /\ Posted' = Posted \cup {c}
  <2> DEFINE e == <<"resolve", c>>
             E == Event(generation)
  <2>1. e \in E /\ e[1] = "resolve" /\ e[2] = c
    BY <1>1, EventIs
  <2>2. mail' = Append(m, e) /\ m \in Seq(E)
    OBVIOUS
  <2> HIDE DEF e
  <2>3. /\ Append(m, e) \in Seq(E) /\ PostedIn(Append(m, e)) = PostedIn(m) \cup {e[2]}
        /\ e[2] \notin PostedIn(m) => Once(Append(m, e))
    BY <1>1, <2>1, Pushed
  <2> HIDE DEF E
  <2>4. mail' \in Seq(E) /\ Once(mail') /\ PostedIn(mail') = Posted \cup {c}
    BY <1>2, <2>1, <2>2, <2>3
  <2>5. Posted' = PostedIn(mail')
    BY <1>1
  <2> QED
    BY <2>4, <2>5 DEF E
<1>4. /\ asks' \in [Consumers -> {"idle", "asked", "solved", "denied", "ended"}] /\ asks'[c] = "asked"
      /\ \A d \in Consumers : d # c => asks'[d] = asks[d]
  BY <1>1
<1>5. ResolverTyped'
  BY <1>3, <1>4 DEF Resolver, ResolverTyped
<1>6. Posted \subseteq Consumers /\ Range(queue) \subseteq Consumers /\ currentCb \in Consumers \cup {None}
  BY RangeIs DEF Posted, Resolver, ResolverTyped
<1>7. CallbackOnce'
  <2>1. /\ Once(mail') /\ IsInjective(queue') /\ Posted' \cap Range(queue') = {}
        /\ currentCb' \notin Posted' \cup Range(queue')
        /\ \A d \in Posted' \cup Range(queue') \cup ({currentCb'} \ {None}) : asks'[d] = "asked"
    BY <1>1, <1>2, <1>3, <1>4, <1>6, OnceIs
  <2> QED
    BY <2>1, Zenon DEF CallbackOnce, Once
<1>8. NobodyForgotten' /\ AskedBelow' /\ Verified'
  <2>1. NobodyForgotten'
    BY <1>3, <1>4 DEF Resolver, NobodyForgotten
  <2>2. AskedBelow'
    BY <1>4 DEF Resolver, AskedBelow, MayAsk
  <2>3. Verified'
    BY DEF Resolver, Verified
  <2> QED
    BY <2>1, <2>2, <2>3
<1>9. Counted'
  <2>1. \A d \in Consumers : Left(d) => Left(d)'
    BY <1>1, <1>3, <1>4 DEF Left, Waits
  <2>2. attempts' \in [Consumers -> 0..MaxAttempts] /\ \A d \in Consumers : attempts'[d] = attempts[d]
    BY DEF Resolver, ResolverTyped
  <2> QED
    BY <1>8, <2>1, <2>2, ShowingsStep DEF Resolver
<1> QED
  BY <1>5, <1>7, <1>8, <1>9 DEF Resolver

\* A consumer has its answer.
LEMMA EndStep ==
  ASSUME Resolver, UNCHANGED <<dialog, attempts>>, dead \subseteq dead', dead' \subseteq Consumers,
         NEW c \in Consumers, asks[c] \in {"idle", "solved"}, asks' = [asks EXCEPT ![c] = "ended"],
         mail' \in Seq(Event(generation)), Once(mail'), PostedIn(mail') = PostedIn(mail)
  PROVE  Resolver'
<1> USE DEF dialog
<1>1. /\ CallbackOnce /\ Posted = PostedIn(mail) /\ Posted' = Posted /\ generation \in Nat
      /\ asks \in [Consumers -> {"idle", "asked", "solved", "denied", "ended"}]
  BY PostedIs DEF Resolver, ResolverTyped
<1>2. c \notin Posted /\ c \notin Range(queue) /\ c # currentCb
  <2>1. c # None
    BY CaptchaAssumption
  <2> QED
    BY <1>1, <2>1, OnceIs
<1>3. /\ asks' \in [Consumers -> {"idle", "asked", "solved", "denied", "ended"}] /\ asks'[c] = "ended"
      /\ \A d \in Consumers : d # c => asks'[d] = asks[d]
  BY <1>1
<1>4. ResolverTyped'
  BY <1>3 DEF Resolver, ResolverTyped
<1>5. Posted \subseteq Consumers /\ Range(queue) \subseteq Consumers /\ currentCb \in Consumers \cup {None}
  BY RangeIs DEF Posted, Resolver, ResolverTyped
<1>6. CallbackOnce'
  <2>1. /\ Once(mail') /\ IsInjective(queue') /\ Posted' \cap Range(queue') = {}
        /\ currentCb' \notin Posted' \cup Range(queue')
        /\ \A d \in Posted' \cup Range(queue') \cup ({currentCb'} \ {None}) : asks'[d] = "asked"
    BY <1>1, <1>2, <1>3, <1>5, OnceIs
  <2> QED
    BY <2>1, Zenon DEF CallbackOnce, Once
<1>7. NobodyForgotten' /\ AskedBelow' /\ Verified'
  <2>1. NobodyForgotten'
    BY <1>1, <1>3 DEF Resolver, NobodyForgotten
  <2>2. AskedBelow'
    BY <1>3 DEF Resolver, AskedBelow
  <2>3. Verified'
    BY DEF Resolver, Verified
  <2> QED
    BY <2>1, <2>2, <2>3
<1>8. Counted'
  <2>1. \A d \in Consumers : Left(d) => Left(d)'
    BY <1>1, <1>3 DEF Left, Waits
  <2>2. attempts' \in [Consumers -> 0..MaxAttempts] /\ \A d \in Consumers : attempts'[d] = attempts[d]
    BY DEF Resolver, ResolverTyped
  <2> QED
    BY <1>7, <2>1, <2>2, ShowingsStep DEF Resolver
<1> QED
  BY <1>4, <1>6, <1>7, <1>8 DEF Resolver

\* What startNext leaves of the queue q: nothing, or all but the challenge it takes.
LEMMA StartIs ==
  ASSUME NEW q \in Seq(Consumers), IsInjective(q), NEW cb \in Consumers \cup {None}, NEW bs \in Seq(Consumers),
         StartNext(q, cb, bs), generation \in Nat, overtaken \subseteq Consumers
  PROVE  /\ state' \in {"Idle", "Waiting"} /\ modal' \in BOOLEAN /\ (state' = "Idle" <=> ~modal')
         /\ boxes' \in Seq(Consumers) /\ overtaken \subseteq overtaken' /\ overtaken' \subseteq Consumers
         /\ queue' \in Seq(Consumers) /\ IsInjective(queue')
         /\ \/ Range(q) = {} /\ Range(queue') = {} /\ currentCb' = cb /\ generation' = generation
            \/ \E h \in Range(q) :
                 /\ currentCb' = h /\ Range(queue') = Range(q) \ {h}
                 /\ {cb} \ {None} \subseteq overtaken' /\ generation' \in {generation, generation + 1}
<1>1. CASE q = <<>>
  <2>1. Range(q) = {}
    BY <1>1 DEF Range
  <2>2. /\ state' = "Idle" /\ queue' = q /\ currentCb' = cb /\ modal' = FALSE /\ boxes' = bs
        /\ generation' = generation /\ overtaken' = overtaken
    BY <1>1 DEF StartNext
  <2> QED
    BY <2>1, <2>2
<1>2. CASE q # <<>>
  <2>1. /\ Head(q) \in Consumers /\ Tail(q) \in Seq(Consumers) /\ IsInjective(Tail(q))
        /\ Head(q) \in Range(q) /\ Range(Tail(q)) = Range(q) \ {Head(q)}
    BY <1>2, QueueTail
  <2>2. /\ queue' = Tail(q) /\ currentCb' = Head(q) /\ overtaken' = overtaken \cup ({cb} \ {None})
        /\ \/ boxes' = bs /\ state' = "Waiting" /\ modal' = TRUE /\ generation' = generation + 1
           \/ boxes' = Append(bs, Head(q)) /\ state' = "Idle" /\ modal' = FALSE /\ generation' = generation
    BY <1>2 DEF StartNext
  <2>3. Append(bs, Head(q)) \in Seq(Consumers)
    BY <2>1
  <2>4. state' \in {"Idle", "Waiting"} /\ modal' \in BOOLEAN /\ (state' = "Idle" <=> ~modal') /\ boxes' \in Seq(Consumers)
    BY <2>2, <2>3
  <2>5. overtaken \subseteq overtaken' /\ overtaken' \subseteq Consumers /\ {cb} \ {None} \subseteq overtaken'
    BY <2>2
  <2>6. queue' \in Seq(Consumers) /\ IsInjective(queue') /\ Range(queue') = Range(q) \ {Head(q)}
    BY <2>1, <2>2
  <2>7. currentCb' = Head(q) /\ generation' \in {generation, generation + 1}
    BY <2>2
  <2> QED
    BY <2>1, <2>4, <2>5, <2>6, <2>7
<1> QED
  BY <1>1, <1>2

\* The next of those who wait is shown; the one shown before was refused, or has gone, or
\* cb keeps its callback.
LEMMA ShowStep ==
  ASSUME Resolver, NEW q \in Seq(Consumers), IsInjective(q), NEW cb \in {None, currentCb},
         NEW bs \in Seq(Consumers), StartNext(q, cb, bs),
         Posted' \cap Range(q) = {}, Posted' \cup Range(q) = Posted \cup Range(queue),
         mail' \in Seq(Event(generation)), Once(mail'), attempts' = attempts,
         dead \subseteq dead', dead' \subseteq Consumers,
         asks' \in [Consumers -> {"idle", "asked", "solved", "denied", "ended"}],
         \A d \in Consumers : d # currentCb => asks'[d] = asks[d],
         currentCb # None => asks'[currentCb] \in {"asked", "denied"},
         cb # None => asks'[cb] = "asked",
         currentCb # None /\ asks'[currentCb] = "asked" => currentCb \in dead' \cup {cb}
  PROVE  Resolver'
<1>1. /\ CallbackOnce /\ generation \in Nat /\ queue \in Seq(Consumers) /\ overtaken \subseteq Consumers
      /\ currentCb \in Consumers \cup {None} /\ attempts \in [Consumers -> 0..MaxAttempts]
      /\ asks \in [Consumers -> {"idle", "asked", "solved", "denied", "ended"}]
  BY DEF Resolver, ResolverTyped
<1>2. cb \in Consumers \cup {None}
  BY <1>1
<1>3. /\ state' \in {"Idle", "Waiting"} /\ modal' \in BOOLEAN /\ (state' = "Idle" <=> ~modal')
      /\ boxes' \in Seq(Consumers) /\ overtaken \subseteq overtaken' /\ overtaken' \subseteq Consumers
      /\ queue' \in Seq(Consumers) /\ IsInjective(queue')
      /\ \/ Range(q) = {} /\ Range(queue') = {} /\ currentCb' = cb /\ generation' = generation
         \/ \E h \in Range(q) :
              /\ currentCb' = h /\ Range(queue') = Range(q) \ {h}
              /\ {cb} \ {None} \subseteq overtaken' /\ generation' \in {generation, generation + 1}
  BY <1>1, <1>2, StartIs
<1>4. Range(q) \subseteq Consumers /\ Posted' \subseteq Consumers /\ None \notin Consumers
  BY RangeIs, CaptchaAssumption DEF Posted
<1>5. /\ currentCb \notin Posted \cup Range(queue)
      /\ \A c \in Posted \cup Range(queue) \cup ({currentCb} \ {None}) : asks[c] = "asked"
  BY <1>1, OnceIs
<1>6. \A c \in Posted' \cup Range(q) : c \in Consumers /\ c # currentCb /\ c # cb /\ asks[c] = "asked" /\ asks'[c] = "asked"
  BY <1>4, <1>5
<1>7. generation' \in Nat /\ generation <= generation'
  BY <1>1, <1>3
<1>8. ResolverTyped'
  <2>1. mail' \in Seq(Event(generation'))
    BY <1>1, <1>7, Later
  <2>2. currentCb' \in Consumers \cup {None}
    BY <1>2, <1>3, <1>4
  <2> QED
    BY <1>1, <1>3, <1>7, <2>1, <2>2 DEF ResolverTyped
<1>9. CallbackOnce'
  <2>1. /\ Posted' \cap Range(queue') = {} /\ currentCb' \notin Posted' \cup Range(queue')
        /\ \A d \in Posted' \cup Range(queue') \cup ({currentCb'} \ {None}) : asks'[d] = "asked"
    BY <1>3, <1>6
  <2> QED
    BY <1>3, <2>1, Zenon DEF CallbackOnce, Once
<1>10. NobodyForgotten'
  <2> SUFFICES ASSUME NEW c \in Consumers, c \notin dead', asks'[c] = "asked"
               PROVE  c \in Posted' \cup Range(queue') \cup {currentCb'} \cup overtaken'
    BY Zenon DEF NobodyForgotten
  <2>1. CASE c = currentCb
    <3>1. c = cb /\ c # None
      BY <1>4, <2>1
    <3> QED
      BY <1>3, <3>1
  <2>2. CASE c # currentCb
    <3>1. c \in Posted \cup Range(queue) \cup overtaken
      BY <2>2 DEF Resolver, NobodyForgotten
    <3> QED
      BY <1>3, <3>1
  <2> QED
    BY <2>1, <2>2
<1>11. AskedBelow' /\ Verified'
  <2>1. \A c \in Consumers : asks'[c] \in {"asked", "denied"} => asks[c] \in {"asked", "denied"}
    <3>1. \A c \in Consumers : c = currentCb => asks[c] = "asked"
      BY <1>4, <1>5
    <3> QED
      BY <3>1
  <2>2. AskedBelow'
    BY <2>1 DEF Resolver, AskedBelow
  <2>3. Verified'
    BY <1>3 DEF Verified
  <2> QED
    BY <2>2, <2>3
<1>12. Counted'
  <2>1. ASSUME NEW c \in Consumers, Left(c) PROVE Left(c)'
    <3>1. c \notin Posted' \cup Range(queue')
      BY <1>3, <1>6, <2>1 DEF Left, Waits
    <3>2. asks'[c] \in {"asked", "denied"}
      BY <1>4, <2>1 DEF Left
    <3> QED
      BY <3>1, <3>2 DEF Left, Waits
  <2>2. ASSUME generation' # generation
        PROVE  \E c \in Consumers : ~Left(c) /\ Left(c)' /\ attempts'[c] = attempts[c]
    <3> PICK h \in Range(q) : currentCb' = h /\ Range(queue') = Range(q) \ {h}
      BY <1>3, <2>2
    <3>1. h \in Consumers /\ asks[h] = "asked" /\ asks'[h] = "asked" /\ h \notin Posted' \cup Range(queue')
      BY <1>6
    <3>2. Left(h)'
      BY <3>1 DEF Left, Waits
    <3>3. ~Left(h)
      BY <3>1 DEF Left, Waits
    <3> QED
      BY <3>1, <3>2, <3>3
  <2>3. generation' \in {generation, generation + 1}
    BY <1>3
  <2> QED
    BY <1>1, <1>11, <2>1, <2>2, <2>3, ShowingsStep DEF Resolver
<1> QED
  BY <1>8, <1>9, <1>10, <1>11, <1>12 DEF Resolver

\* What a callback changes.
LEMMA CalledIs ==
  ASSUME ResolverTyped, NEW r \in {"solved", "denied"}, RunCallback(currentCb, r)
  PROVE  /\ asks' \in [Consumers -> {"idle", "asked", "solved", "denied", "ended"}]
         /\ DOMAIN attempts' = Consumers
         /\ \A d \in Consumers : d # currentCb => asks'[d] = asks[d] /\ attempts'[d] = attempts[d]
         /\ r = "denied" => attempts' = attempts
         /\ \/ currentCb \notin Consumers \ dead /\ asks' = asks /\ attempts' = attempts
            \/ /\ currentCb \in Consumers \ dead /\ asks'[currentCb] = r
               /\ r = "solved" => attempts'[currentCb] = attempts[currentCb] + 1
<1>1. /\ currentCb \in Consumers \cup {None} /\ attempts \in [Consumers -> 0..MaxAttempts]
      /\ asks \in [Consumers -> {"idle", "asked", "solved", "denied", "ended"}] /\ None \notin Consumers
  BY CaptchaAssumption DEF ResolverTyped
<1>2. CASE currentCb = None \/ currentCb \in dead
  <2>1. asks' = asks /\ attempts' = attempts
    BY <1>2 DEF RunCallback
  <2> QED
    BY <1>1, <1>2, <2>1
<1>3. CASE ~(currentCb = None \/ currentCb \in dead)
  <2>1. /\ asks' = [asks EXCEPT ![currentCb] = r]
        /\ attempts' = IF r = "solved" THEN [attempts EXCEPT ![currentCb] = @ + 1] ELSE attempts
    BY <1>3 DEF RunCallback
  <2>2. currentCb \in Consumers \ dead
    BY <1>1, <1>3
  <2>3. /\ asks' \in [Consumers -> {"idle", "asked", "solved", "denied", "ended"}] /\ asks'[currentCb] = r
        /\ \A d \in Consumers : d # currentCb => asks'[d] = asks[d]
    BY <1>1, <2>1, <2>2
  <2>4. CASE r = "solved"
    <3>1. attempts' = [attempts EXCEPT ![currentCb] = @ + 1]
      BY <2>1, <2>4
    <3> QED
      BY <1>1, <2>2, <2>3, <2>4, <3>1
  <2>5. CASE r = "denied"
    BY <1>1, <2>1, <2>2, <2>3, <2>5
  <2> QED
    BY <2>4, <2>5
<1> QED
  BY <1>2, <1>3

\* The one shown is refused, and the next is shown.
LEMMA RefuseStep ==
  ASSUME Resolver, RunCallback(currentCb, "denied"), NEW bs \in Seq(Consumers), StartNext(queue, None, bs),
         UNCHANGED mail, dead \subseteq dead', dead' \subseteq Consumers
  PROVE  Resolver'
<1>1. /\ CallbackOnce /\ ResolverTyped /\ Posted' = Posted /\ None \in {None, currentCb} /\ None \notin Consumers
      /\ queue \in Seq(Consumers) /\ mail' \in Seq(Event(generation)) /\ currentCb \in Consumers \cup {None}
  BY PostedIs, CaptchaAssumption DEF Resolver, ResolverTyped
<1>2. /\ Once(mail') /\ IsInjective(queue) /\ Posted' \cap Range(queue) = {}
      /\ currentCb # None => asks[currentCb] = "asked"
  BY <1>1, OnceIs
<1>3. /\ asks' \in [Consumers -> {"idle", "asked", "solved", "denied", "ended"}] /\ attempts' = attempts
      /\ \A d \in Consumers : d # currentCb => asks'[d] = asks[d]
      /\ \/ currentCb \notin Consumers \ dead /\ asks' = asks
         \/ currentCb \in Consumers \ dead /\ asks'[currentCb] = "denied"
  BY <1>1, CalledIs
<1>4. /\ currentCb # None => asks'[currentCb] \in {"asked", "denied"}
      /\ currentCb # None /\ asks'[currentCb] = "asked" => currentCb \in dead' \cup {None}
  BY <1>1, <1>2, <1>3
<1>5. Posted' \cup Range(queue) = Posted \cup Range(queue)
  BY <1>1
<1> QED
  BY <1>1, <1>2, <1>3, <1>4, <1>5, ShowStep

\* The one shown has solved its challenge.
LEMMA DeliverStep ==
  ASSUME Resolver, DeliverSolution, dead \subseteq dead', dead' \subseteq Consumers
  PROVE  Resolver'
<1>1. /\ state' = "Verifying" /\ currentCb' = None /\ RunCallback(currentCb, "solved") /\ state = "Waiting"
      /\ UNCHANGED <<mail, generation, queue, modal, boxes, overtaken>>
  BY DEF DeliverSolution, Moved
<1>2. /\ CallbackOnce /\ ResolverTyped /\ Posted' = Posted /\ None \notin Consumers
      /\ Posted \subseteq Consumers /\ Range(queue) \subseteq Consumers /\ currentCb \in Consumers \cup {None}
      /\ attempts \in [Consumers -> 0..MaxAttempts]
  BY <1>1, PostedIs, CaptchaAssumption, RangeIs DEF Resolver, ResolverTyped, Posted
<1>3. /\ Once(mail) /\ IsInjective(queue) /\ Posted \cap Range(queue) = {}
      /\ currentCb \notin Posted \cup Range(queue)
      /\ \A c \in Posted \cup Range(queue) \cup ({currentCb} \ {None}) : asks[c] = "asked"
  BY <1>2, OnceIs
<1>4. /\ asks' \in [Consumers -> {"idle", "asked", "solved", "denied", "ended"}]
      /\ DOMAIN attempts' = Consumers
      /\ \A d \in Consumers : d # currentCb => asks'[d] = asks[d] /\ attempts'[d] = attempts[d]
      /\ \/ currentCb \notin Consumers \ dead /\ asks' = asks /\ attempts' = attempts
         \/ /\ currentCb \in Consumers \ dead /\ asks'[currentCb] = "solved"
            /\ attempts'[currentCb] = attempts[currentCb] + 1
  BY <1>1, <1>2, CalledIs
<1>5. attempts' \in [Consumers -> 0..MaxAttempts]
  <2>1. \A c \in Consumers : attempts[c] \in Nat /\ attempts[c] <= MaxAttempts
    BY <1>2, CaptchaAssumption
  <2>2. currentCb \in Consumers => attempts[currentCb] < MaxAttempts
    BY <1>2, <1>3 DEF Resolver, AskedBelow
  <2>3. \A c \in Consumers : attempts'[c] \in 0..MaxAttempts
    BY <1>4, <2>1, <2>2, CaptchaAssumption
  <2>4. attempts' = [c \in Consumers |-> attempts'[c]]
    <3>1. CASE currentCb = None \/ currentCb \in dead
      BY <1>1, <1>2, <3>1 DEF RunCallback
    <3>2. CASE ~(currentCb = None \/ currentCb \in dead)
      <4>1. attempts' = [attempts EXCEPT ![currentCb] = @ + 1]
        BY <1>1, <3>2 DEF RunCallback
      <4> QED
        BY <1>2, <4>1
    <3> QED
      BY <3>1, <3>2
  <2> QED
    BY <2>3, <2>4
<1>6. ResolverTyped'
  BY <1>1, <1>2, <1>4, <1>5 DEF ResolverTyped
<1>7. CallbackOnce'
  <2>1. /\ Posted' \cap Range(queue') = {} /\ currentCb' \notin Posted' \cup Range(queue')
        /\ Once(mail') /\ IsInjective(queue')
        /\ \A d \in Posted' \cup Range(queue') \cup ({currentCb'} \ {None}) : asks'[d] = "asked"
    BY <1>1, <1>2, <1>3, <1>4
  <2> QED
    BY <2>1, Zenon DEF CallbackOnce, Once
<1>8. NobodyForgotten' /\ AskedBelow' /\ Verified'
  <2>1. NobodyForgotten'
    <3> SUFFICES ASSUME NEW c \in Consumers, c \notin dead', asks'[c] = "asked"
                 PROVE  c \in Posted' \cup Range(queue') \cup {currentCb'} \cup overtaken'
      BY Zenon DEF NobodyForgotten
    <3>1. c # currentCb /\ asks[c] = "asked"
      BY <1>4
    <3>2. c \in Posted \cup Range(queue) \cup overtaken
      BY <3>1 DEF Resolver, NobodyForgotten
    <3> QED
      BY <1>1, <1>2, <3>2
  <2>2. ASSUME NEW c \in Consumers, asks'[c] \in {"asked", "denied"} PROVE attempts'[c] < MaxAttempts
    <3>1. asks[c] = asks'[c] /\ attempts'[c] = attempts[c]
      BY <1>4, <2>2
    <3> QED
      BY <2>2, <3>1 DEF Resolver, AskedBelow
  <2>3. AskedBelow'
    BY <2>2 DEF AskedBelow
  <2>4. Verified'
    BY <1>1 DEF Verified
  <2> QED
    BY <2>1, <2>3, <2>4
<1>9. Counted'
  <2>1. ASSUME NEW c \in Consumers
        PROVE  (attempts'[c] = attempts[c] /\ (Left(c) => Left(c)')) \/ attempts'[c] = attempts[c] + 1
    <3>1. Range(queue)' = Range(queue)
      BY <1>1
    <3> QED
      BY <1>2, <1>4, <3>1 DEF Left, Waits
  <2>2. generation' = generation
    BY <1>1
  <2> QED
    BY <1>2, <1>5, <1>8, <2>1, <2>2, ShowingsStep DEF Resolver
<1> QED
  BY <1>6, <1>7, <1>8, <1>9 DEF Resolver

\* A request for a challenge reaches the dialog.
LEMMA ResolveStep ==
  ASSUME Resolver, OnResolve, dead \subseteq dead', dead' \subseteq Consumers
  PROVE  Resolver'
<1> PICK c : c = Head(mail)[2]
  OBVIOUS
<1>1. /\ mail # <<>> /\ Head(mail)[1] = "resolve" /\ mail' = Tail(mail) /\ asks' = asks /\ attempts' = attempts
      /\ \/ /\ state = "Verifying" /\ state' = "Waiting" /\ currentCb' = c /\ generation' = generation + 1
            /\ UNCHANGED <<queue, modal, boxes, overtaken>>
         \/ /\ state # "Idle" /\ queue' = Append(queue, c)
            /\ UNCHANGED <<state, generation, currentCb, modal, boxes, overtaken>>
         \/ StartNext(Append(queue, c), currentCb, boxes)
  BY DEF OnResolve, Received, Reusable
<1>2. /\ CallbackOnce /\ ResolverTyped /\ generation \in Nat /\ mail \in Seq(Event(generation))
      /\ queue \in Seq(Consumers) /\ currentCb \in Consumers \cup {None} /\ None \notin Consumers
      /\ asks \in [Consumers -> {"idle", "asked", "solved", "denied", "ended"}]
      /\ attempts \in [Consumers -> 0..MaxAttempts] /\ boxes \in Seq(Consumers)
      /\ Posted = PostedIn(mail) /\ Posted' = PostedIn(mail')
      /\ Posted \subseteq Consumers /\ Range(queue) \subseteq Consumers
  BY PostedIs, CaptchaAssumption, RangeIs DEF Resolver, ResolverTyped, Posted
<1>3. /\ Once(mail) /\ IsInjective(queue) /\ Posted \cap Range(queue) = {}
      /\ currentCb \notin Posted \cup Range(queue)
      /\ \A d \in Posted \cup Range(queue) \cup ({currentCb} \ {None}) : asks[d] = "asked"
  BY <1>2, OnceIs
<1>4. /\ mail' \in Seq(Event(generation)) /\ Once(mail') /\ c \in Posted /\ Posted' = Posted \ {c}
  BY <1>1, <1>2, <1>3, Popped
<1>5. c \in Consumers /\ c \notin Range(queue) /\ c # currentCb /\ asks[c] = "asked" /\ c \notin Posted'
  BY <1>2, <1>3, <1>4
<1>6. CASE StartNext(Append(queue, c), currentCb, boxes)
  <2>1. /\ Append(queue, c) \in Seq(Consumers) /\ IsInjective(Append(queue, c))
        /\ Range(Append(queue, c)) = Range(queue) \cup {c}
    BY <1>2, <1>3, <1>5, QueueAppend
  <2>2. /\ Posted' \cap Range(Append(queue, c)) = {}
        /\ Posted' \cup Range(Append(queue, c)) = Posted \cup Range(queue)
    BY <1>3, <1>4, <2>1
  <2>3. /\ currentCb # None => asks'[currentCb] \in {"asked", "denied"} /\ asks'[currentCb] = "asked"
        /\ currentCb \in {None, currentCb} /\ \A d \in Consumers : d # currentCb => asks'[d] = asks[d]
        /\ asks' \in [Consumers -> {"idle", "asked", "solved", "denied", "ended"}]
    BY <1>1, <1>2, <1>3
  <2> QED
    BY <1>1, <1>2, <1>4, <1>6, <2>1, <2>2, <2>3, ShowStep
<1>7. CASE /\ state = "Verifying" /\ state' = "Waiting" /\ currentCb' = c /\ generation' = generation + 1
           /\ UNCHANGED <<queue, modal, boxes, overtaken>>
  <2>1. currentCb = None /\ Range(queue') = Range(queue)
    BY <1>7 DEF Resolver, Verified
  <2>2. ResolverTyped'
    <3>1. mail' \in Seq(Event(generation')) /\ generation' \in Nat
      BY <1>2, <1>4, <1>7, Later
    <3> QED
      BY <1>1, <1>2, <1>5, <1>7, <3>1 DEF ResolverTyped
  <2>3. CallbackOnce'
    <3>1. /\ Posted' \cap Range(queue') = {} /\ currentCb' \notin Posted' \cup Range(queue')
          /\ IsInjective(queue')
          /\ \A d \in Posted' \cup Range(queue') \cup ({currentCb'} \ {None}) : asks'[d] = "asked"
      BY <1>1, <1>3, <1>4, <1>5, <1>7, <2>1
    <3> QED
      BY <1>4, <3>1, Zenon DEF CallbackOnce, Once
  <2>4. NobodyForgotten'
    <3> SUFFICES ASSUME NEW d \in Consumers, d \notin dead', asks'[d] = "asked"
                 PROVE  d \in Posted' \cup Range(queue') \cup {currentCb'} \cup overtaken'
      BY Zenon DEF NobodyForgotten
    <3>1. d \in Posted \cup Range(queue) \cup overtaken
      BY <1>1, <1>2, <2>1 DEF Resolver, NobodyForgotten
    <3> QED
      BY <1>4, <1>7, <2>1, <3>1
  <2>5. AskedBelow' /\ Verified'
    BY <1>1, <1>7 DEF Resolver, AskedBelow, Verified
  <2>6. Counted'
    <3>1. \A d \in Consumers : Left(d) => Left(d)'
      BY <1>1, <1>4, <2>1 DEF Left, Waits
    <3>2. ~Left(c) /\ Left(c)'
      <4>1. asks[c] = "asked" /\ asks'[c] = "asked" /\ c \in Posted /\ c \notin Posted' \cup Range(queue')
        BY <1>1, <1>4, <1>5, <2>1
      <4>2. ~Left(c)
        BY <4>1 DEF Left, Waits
      <4>3. Left(c)'
        BY <4>1 DEF Left, Waits
      <4> QED
        BY <4>2, <4>3
    <3>3. /\ attempts' \in [Consumers -> 0..MaxAttempts] /\ \A d \in Consumers : attempts'[d] = attempts[d]
          /\ generation' \in {generation, generation + 1}
      BY <1>1, <1>2, <1>7
    <3>4. \E d \in Consumers : ~Left(d) /\ Left(d)' /\ attempts'[d] = attempts[d]
      BY <1>5, <3>2, <3>3
    <3>5. Counted /\ ResolverTyped /\ AskedBelow'
      BY <1>2, <2>5 DEF Resolver
    <3>6. ASSUME NEW d \in Consumers
          PROVE  (attempts'[d] = attempts[d] /\ (Left(d) => Left(d)')) \/ attempts'[d] = attempts[d] + 1
      BY <3>1, <3>3
    <3> QED
      BY <3>3, <3>4, <3>5, <3>6, ShowingsStep
  <2> QED
    BY <2>2, <2>3, <2>4, <2>5, <2>6 DEF Resolver
<1>8. CASE /\ state # "Idle" /\ queue' = Append(queue, c)
           /\ UNCHANGED <<state, generation, currentCb, modal, boxes, overtaken>>
  <2>1. queue' \in Seq(Consumers) /\ IsInjective(queue') /\ Range(queue') = Range(queue) \cup {c}
    BY <1>2, <1>3, <1>5, <1>8, QueueAppend
  <2>2. ResolverTyped'
    BY <1>1, <1>2, <1>4, <1>8, <2>1 DEF ResolverTyped
  <2>3. CallbackOnce'
    <3>1. /\ Posted' \cap Range(queue') = {} /\ currentCb' \notin Posted' \cup Range(queue')
          /\ \A d \in Posted' \cup Range(queue') \cup ({currentCb'} \ {None}) : asks'[d] = "asked"
      BY <1>1, <1>3, <1>4, <1>5, <1>8, <2>1
    <3> QED
      BY <1>4, <2>1, <3>1, Zenon DEF CallbackOnce, Once
  <2>4. NobodyForgotten' /\ AskedBelow' /\ Verified'
    BY <1>1, <1>4, <1>8, <2>1 DEF Resolver, NobodyForgotten, AskedBelow, Verified
  <2>5. Counted'
    <3>1. \A d \in Consumers : Left(d) => Left(d)'
      BY <1>1, <1>4, <2>1 DEF Left, Waits
    <3>2. /\ attempts' \in [Consumers -> 0..MaxAttempts] /\ \A d \in Consumers : attempts'[d] = attempts[d]
          /\ generation' = generation
      BY <1>1, <1>2, <1>8
    <3> QED
      BY <1>2, <2>4, <3>1, <3>2, ShowingsStep DEF Resolver
  <2> QED
    BY <2>2, <2>3, <2>4, <2>5 DEF Resolver
<1> QED
  BY <1>1, <1>6, <1>7, <1>8

-----------------------------------------------------------------------------
(* The steps of the login, as the resolver sees them.                       *)

NoMessage(m) == \A i \in DOMAIN m : m[i][1] # "message"

\* Whether a call that is queued brings a message of the socket.
LEMMA MessagesAre ==
  ASSUME NEW S, NEW m \in Seq(S), NoMessage(m)
  PROVE  /\ m # <<>> => Head(m)[1] # "message" /\ NoMessage(Tail(m))
         /\ \A e \in S : e[1] # "message" => NoMessage(Append(m, e))
<1> DEFINE n == Len(m)
<1>1. n \in Nat /\ DOMAIN m = 1..n /\ \A i \in 1..n : m[i][1] # "message"
  BY DEF NoMessage
<1>2. ASSUME m # <<>> PROVE Head(m)[1] # "message" /\ NoMessage(Tail(m))
  <2>1. /\ n # 0 /\ Head(m) = m[1] /\ DOMAIN Tail(m) = 1..n - 1
        /\ \A i \in 1..n - 1 : Tail(m)[i] = m[i + 1] /\ i + 1 \in 1..n
    BY <1>2
  <2>2. 1 \in 1..n
    BY <1>1, <2>1
  <2> HIDE DEF n
  <2>3. \A i \in DOMAIN Tail(m) : Tail(m)[i][1] # "message"
    BY <1>1, <2>1
  <2> QED
    BY <1>1, <2>1, <2>2, <2>3, Zenon DEF NoMessage
<1>3. ASSUME NEW e \in S, e[1] # "message" PROVE NoMessage(Append(m, e))
  <2>1. /\ DOMAIN Append(m, e) = 1..n + 1 /\ Append(m, e)[n + 1] = e
        /\ \A i \in 1..n : Append(m, e)[i] = m[i]
    OBVIOUS
  <2>2. \A i \in 1..n + 1 : i \in 1..n \/ i = n + 1
    BY <1>1
  <2> HIDE DEF n
  <2>3. \A i \in DOMAIN Append(m, e) : Append(m, e)[i][1] # "message"
    BY <1>1, <1>3, <2>1, <2>2
  <2> QED
    BY <2>3, Zenon DEF NoMessage
<1> QED
  BY <1>2, <1>3

\* Who keeps the answers that wait, and brings no message, and who brings none at all.
Keeps(m) ==
  /\ NoAnswer(mail) => NoAnswer(m)
  /\ OneAnswer(mail) => OneAnswer(m)
Grows == dead \subseteq dead' /\ dead' \subseteq dead \cup {Login}

\* A step that leaves the queue of calls.
LEMMA QuietStep ==
  ASSUME Resolver, UNCHANGED <<dialog, mail, asks, attempts>>, Grows
  PROVE  Resolver'
<1>1. mail' \in Seq(Event(generation)) /\ Once(mail') /\ dead' \subseteq Consumers /\ PostedIn(mail') = PostedIn(mail)
  BY OnceIs DEF Resolver, ResolverTyped, Grows, Consumers
<1> QED
  BY <1>1, MailStep DEF Grows

\* One that queues a call.
LEMMA PostStep ==
  ASSUME Resolver, UNCHANGED <<dialog, asks, attempts>>, Grows,
         NEW e \in Event(generation), e[1] # "resolve", Post(e)
  PROVE  /\ Resolver' /\ (e[1] # "message" /\ NoMessage(mail) => NoMessage(mail'))
         /\ e[1] # "answer" => Keeps(mail')
         /\ e[1] = "answer" /\ NoAnswer(mail) => OneAnswer(mail')
<1>1. mail \in Seq(Event(generation)) /\ generation \in Nat /\ Once(mail) /\ mail' = Append(mail, e)
  BY OnceIs DEF Resolver, ResolverTyped, Post
<1>2. /\ mail' \in Seq(Event(generation)) /\ Once(mail') /\ PostedIn(mail') = PostedIn(mail)
      /\ e[1] # "answer" => Keeps(mail')
      /\ e[1] = "answer" /\ NoAnswer(mail) => OneAnswer(mail')
  BY <1>1, Pushed DEF Keeps
<1>3. e[1] # "message" /\ NoMessage(mail) => NoMessage(mail')
  BY <1>1, MessagesAre
<1>4. dead' \subseteq Consumers
  BY DEF Grows, Resolver, ResolverTyped, Consumers
<1> QED
  BY <1>2, <1>3, <1>4, MailStep DEF Grows

\* One that handles a call.
LEMMA TakeIs ==
  ASSUME Resolver, mail # <<>>, mail' = Tail(mail)
  PROVE  /\ Head(mail) \in Event(generation) /\ mail' \in Seq(Event(generation)) /\ Once(mail')
         /\ NoMessage(mail) => NoMessage(mail') /\ Head(mail)[1] # "message"
         /\ Head(mail)[1] # "answer" => Keeps(mail')
         /\ NoAnswer(mail) => Head(mail)[1] # "answer"
         /\ Head(mail)[1] = "answer" /\ OneAnswer(mail) => NoAnswer(mail')
         /\ Head(mail)[1] # "resolve" => PostedIn(mail') = PostedIn(mail)
<1>1. mail \in Seq(Event(generation)) /\ generation \in Nat /\ Once(mail)
  BY OnceIs DEF Resolver, ResolverTyped
<1>2. /\ Head(mail) \in Event(generation) /\ Tail(mail) \in Seq(Event(generation)) /\ Once(Tail(mail))
      /\ Head(mail)[1] # "resolve" => PostedIn(Tail(mail)) = PostedIn(mail)
      /\ NoAnswer(mail) => NoAnswer(Tail(mail)) /\ Head(mail)[1] # "answer"
      /\ OneAnswer(mail) => IF Head(mail)[1] = "answer" THEN NoAnswer(Tail(mail)) ELSE OneAnswer(Tail(mail))
  BY <1>1, Popped
<1>3. NoMessage(mail) => NoMessage(mail') /\ Head(mail)[1] # "message"
  BY <1>1, MessagesAre
<1> QED
  BY <1>2, <1>3 DEF Keeps

\* One that handles a call of another kind than resolve().
LEMMA TakeStep ==
  ASSUME Resolver, UNCHANGED <<dialog, asks, attempts>>, Grows,
         NEW k \in {"fail", "message", "conclude", "answer"}, Received(k)
  PROVE  /\ Resolver' /\ Head(mail) \in Event(generation)
         /\ NoMessage(mail) => NoMessage(mail') /\ k # "message"
         /\ k # "answer" => Keeps(mail')
<1>1. mail # <<>> /\ mail' = Tail(mail) /\ Head(mail)[1] = k
  BY DEF Received
<1>2. /\ Head(mail) \in Event(generation) /\ mail' \in Seq(Event(generation)) /\ Once(mail')
      /\ NoMessage(mail) => NoMessage(mail') /\ Head(mail)[1] # "message"
      /\ Head(mail)[1] # "answer" => Keeps(mail')
      /\ Head(mail)[1] # "resolve" => PostedIn(mail') = PostedIn(mail)
  BY <1>1, TakeIs
<1>3. dead' \subseteq Consumers
  BY DEF Grows, Resolver, ResolverTyped, Consumers
<1>4. Resolver'
  BY <1>1, <1>2, <1>3, MailStep DEF Grows
<1> QED
  BY <1>1, <1>2, <1>4

\* A step of the dialog.  Only who is shown, and still there, hears of it.
LEMMA DialogStep ==
  ASSUME Resolver, Grows, OnResolve \/ OnConcluded \/ DeliverSolution \/ CancelCurrent \/ CloseBox
  PROVE  /\ Resolver' /\ Keeps(mail') /\ (NoMessage(mail) => NoMessage(mail'))
         /\ asks'[Login] # asks[Login] => asks[Login] = "asked"
<1>1. /\ ResolverTyped /\ Login \in Consumers /\ Login # None /\ dead' \subseteq Consumers /\ dead \subseteq dead'
      /\ currentCb # None => asks[currentCb] = "asked"
  BY OnceIs, CaptchaAssumption DEF Resolver, ResolverTyped, Consumers, Grows
<1>2. mail' = mail => Keeps(mail') /\ (NoMessage(mail) => NoMessage(mail'))
  BY Zenon DEF Keeps
<1>3. CASE OnResolve
  <2>1. Resolver'
    BY <1>1, <1>3, ResolveStep
  <2>2. mail # <<>> /\ mail' = Tail(mail) /\ Head(mail)[1] = "resolve" /\ asks' = asks
    BY <1>3 DEF OnResolve, Received
  <2>3. Keeps(mail') /\ (NoMessage(mail) => NoMessage(mail'))
    BY <2>2, TakeIs
  <2> QED
    BY <2>1, <2>2, <2>3
<1>4. CASE OnConcluded
  <2>1. /\ mail # <<>> /\ mail' = Tail(mail) /\ Head(mail)[1] = "conclude" /\ asks' = asks /\ attempts' = attempts
        /\ Received("conclude")
        /\ (state = "Verifying" /\ StartNext(queue, None, boxes)) \/ UNCHANGED dialog
    BY <1>4 DEF OnConcluded, Concludes, Received
  <2>2. /\ mail' \in Seq(Event(generation)) /\ Once(mail') /\ PostedIn(mail') = PostedIn(mail)
        /\ Keeps(mail') /\ (NoMessage(mail) => NoMessage(mail'))
    BY <2>1, TakeIs
  <2>3. CASE UNCHANGED dialog
    BY <1>1, <2>1, <2>2, <2>3, MailStep
  <2>4. CASE state = "Verifying" /\ StartNext(queue, None, boxes)
    <3>1. currentCb = None /\ None \in {None, currentCb}
      BY <2>4 DEF Resolver, Verified
    <3>2. /\ queue \in Seq(Consumers) /\ boxes \in Seq(Consumers) /\ IsInjective(queue)
          /\ Posted \cap Range(queue) = {} /\ Posted' = Posted
          /\ asks' \in [Consumers -> {"idle", "asked", "solved", "denied", "ended"}]
      BY <1>1, <2>1, <2>2, OnceIs, PostedIs DEF Resolver, ResolverTyped
    <3>3. Posted' \cap Range(queue) = {} /\ Posted' \cup Range(queue) = Posted \cup Range(queue)
      BY <3>2
    <3>4. \A d \in Consumers : d # currentCb => asks'[d] = asks[d]
      BY <2>1
    <3>5. Resolver'
      BY <1>1, <2>1, <2>2, <2>4, <3>1, <3>2, <3>3, <3>4, ShowStep
    <3> QED
      BY <2>1, <2>2, <3>5
  <2> QED
    BY <2>1, <2>3, <2>4
<1>5. CASE DeliverSolution
  <2>1. Resolver'
    BY <1>1, <1>5, DeliverStep
  <2>2. RunCallback(currentCb, "solved") /\ mail' = mail
    BY <1>5 DEF DeliverSolution
  <2>3. asks'[Login] # asks[Login] => Login = currentCb
    BY <1>1, <2>2, CalledIs
  <2> QED
    BY <1>1, <1>2, <2>1, <2>2, <2>3
<1>6. CASE CancelCurrent \/ CloseBox
  <2>1. /\ RunCallback(currentCb, "denied") /\ mail' = mail
        /\ \E bs \in Seq(Consumers) : StartNext(queue, None, bs)
    <3>1. CASE CancelCurrent
      BY <1>1, <3>1 DEF CancelCurrent, ShowNext, ResolverTyped
    <3>2. CASE CloseBox
      <4>1. Front(boxes) \in Seq(Consumers)
        BY <1>1, <3>2, FrontIs DEF CloseBox, ResolverTyped
      <4> QED
        BY <3>2, <4>1 DEF CloseBox
    <3> QED
      BY <1>6, <3>1, <3>2
  <2>2. PICK bs \in Seq(Consumers) : StartNext(queue, None, bs)
    BY <2>1
  <2>3. Resolver'
    BY <1>1, <2>1, <2>2, RefuseStep
  <2>4. asks'[Login] # asks[Login] => Login = currentCb
    BY <1>1, <2>1, CalledIs
  <2> QED
    BY <1>1, <1>2, <2>1, <2>3, <2>4
<1> QED
  BY <1>3, <1>4, <1>5, <1>6

\* A step of another request.
LEMMA RequestsStep ==
  ASSUME Resolver, RequestStep
  PROVE  /\ Resolver' /\ Keeps(mail') /\ (NoMessage(mail) => NoMessage(mail'))
         /\ asks'[Login] = asks[Login] /\ dead \subseteq dead' /\ (Login \in dead' <=> Login \in dead)
<1> PICK c \in Callers \ dead : Challenged(c) \/ Concluded(c) \/ OwnerDeleted(c)
  BY DEF RequestStep
<1>1. /\ c \in Consumers /\ c # Login /\ Login \in Consumers /\ ResolverTyped /\ dead \subseteq Consumers
      /\ mail \in Seq(Event(generation)) /\ generation \in Nat /\ Once(mail) /\ Posted = PostedIn(mail)
      /\ asks \in [Consumers -> {"idle", "asked", "solved", "denied", "ended"}]
  BY OnceIs, PostedIs, CaptchaAssumption DEF Resolver, ResolverTyped, Consumers
<1>2. CASE Challenged(c)
  <2> DEFINE e == <<"resolve", c>>
  <2>1. /\ asks[c] \in {"idle", "solved"} /\ MayAsk(c) /\ mail' = Append(mail, e)
        /\ asks' = [asks EXCEPT ![c] = "asked"] /\ UNCHANGED <<dialog, attempts, dead>>
    BY <1>2 DEF Challenged, Resolve, Post
  <2>2. Resolver'
    BY <1>1, <2>1, AskStep
  <2>3. e \in Event(generation) /\ e[1] = "resolve"
    BY <1>1, EventIs
  <2> HIDE DEF e
  <2>4. Keeps(mail') /\ (NoMessage(mail) => NoMessage(mail'))
    <3>1. Keeps(mail')
      BY <1>1, <2>1, <2>3, Pushed DEF Keeps
    <3>2. NoMessage(mail) => NoMessage(mail')
      BY <1>1, <2>1, <2>3, MessagesAre
    <3> QED
      BY <3>1, <3>2
  <2> QED
    BY <1>1, <2>1, <2>2, <2>4
<1>3. CASE Concluded(c)
  <2> DEFINE e == <<"conclude", generation>>
  <2>1. /\ asks[c] \in {"idle", "solved"} /\ mail' = Append(mail, e)
        /\ asks' = [asks EXCEPT ![c] = "ended"] /\ UNCHANGED <<dialog, attempts, dead>>
    BY <1>3 DEF Concluded, NotifyConcluded, Post
  <2>2. e \in Event(generation) /\ e[1] = "conclude"
    <3>1. generation \in 0..generation
      BY <1>1
    <3> QED
      BY <1>1, <3>1, EventIs
  <2> HIDE DEF e
  <2>3. /\ mail' \in Seq(Event(generation)) /\ Once(mail') /\ PostedIn(mail') = PostedIn(mail)
        /\ Keeps(mail')
    BY <1>1, <2>1, <2>2, Pushed DEF Keeps
  <2>4. NoMessage(mail) => NoMessage(mail')
    BY <1>1, <2>1, <2>2, MessagesAre
  <2>5. Resolver'
    BY <1>1, <2>1, <2>3, EndStep
  <2> QED
    BY <1>1, <2>1, <2>3, <2>4, <2>5
<1>4. CASE OwnerDeleted(c)
  <2>1. dead' = dead \cup {c} /\ UNCHANGED <<dialog, mail, asks, attempts>>
    BY <1>4 DEF OwnerDeleted
  <2>2. Resolver'
    BY <1>1, <2>1, MailStep
  <2> QED
    BY <1>1, <2>1, <2>2, Zenon DEF Keeps
<1> QED
  BY <1>2, <1>3, <1>4

-----------------------------------------------------------------------------
(* The invariant of the login.                                              *)

LoginTyped ==
  /\ ui \in {"new", "open", "stopping", "gone"} /\ running \in BOOLEAN /\ curl \in BOOLEAN
  /\ npc \in {"none", "connect", "recv", "tail", "close", "exited"}
  /\ hb \in {"none", "wait", "exited"} /\ http \in {"none", "posting", "finished"}
  /\ timer \in BOOLEAN /\ ended \in {"no", "authenticated", "failed", "canceled"} /\ stage \in 0..6

\* The client's life, and what it says of the threads and of the end.
Phases ==
  /\ ui = "new" => ~running /\ npc = "none" /\ hb = "none"
  /\ ui = "open" => running \/ (done /\ npc = "none" /\ hb = "none")
  /\ ui \in {"stopping", "gone"} => done /\ ~running
  /\ ui = "stopping" => npc # "none"
  /\ running => npc # "none"
  /\ npc = "none" => hb = "none"
  /\ ended # "no" => done

\* Messages come from the network thread.
Silent == npc = "none" => NoMessage(mail)

\* Until the login ends, its exchange is in one of the states the HTTP thread, its answer
\* and the captcha dialog can be in together.
Exchange ==
  ~done =>
    /\ http = "none" => asks[Login] = "idle" /\ NoAnswer(mail)
    /\ http = "posting" => asks[Login] \in {"idle", "solved"} /\ NoAnswer(mail)
    /\ http = "finished" => \/ asks[Login] = "asked" /\ NoAnswer(mail)
                            \/ asks[Login] \in {"idle", "solved"} /\ OneAnswer(mail)

Auth == LoginTyped /\ Phases /\ Silent /\ NoThreadLeft
LoginIInv == Resolver /\ Auth /\ Exchange

\* The first end counts, and no later one.
LEMMA EndIs ==
  ASSUME NEW e, End(e)
  PROVE  /\ Grows /\ done' /\ ended' \in {ended, e}
         /\ done => ended' = ended /\ dead' = dead
BY DEF End, Grows, done

\* What leaves the HTTP thread, its answer and the login's challenge leaves the exchange,
LEMMA ExchangeKept ==
  ASSUME Exchange, dead \subseteq dead', Keeps(mail'), http' = http, asks'[Login] = asks[Login]
  PROVE  Exchange'
BY DEF Exchange, Keeps, done

\* and an end of the login is an end of what is said of it.
LEMMA ExchangeEnded == ASSUME done' PROVE Exchange'
BY DEF Exchange

\* The dialog and the life of its client.
LEMMA LifeStep ==
  ASSUME LoginIInv, Start \/ Close \/ Timeout \/ Deleted
  PROVE  LoginIInv'
<1>1. Resolver /\ LoginTyped /\ Phases /\ Silent /\ NoThreadLeft /\ Exchange
  BY DEF LoginIInv, Auth
<1>2. CASE Start
  <2>1. /\ Grows /\ UNCHANGED <<dialog, mail, asks, attempts, curl, hb, http, timer, stage>>
        /\ ui = "new" /\ ui' = "open"
        /\ \/ running' = TRUE /\ npc' = "connect" /\ UNCHANGED <<ended, dead>>
           \/ UNCHANGED <<running, npc>> /\ done' /\ ended' \in {ended, "failed"}
    BY <1>2, EndIs DEF Start, Grows
  <2>2. Resolver'
    BY <1>1, <2>1, QuietStep
  <2>3. LoginTyped' /\ Phases' /\ NoThreadLeft'
    <3>1. LoginTyped' /\ NoThreadLeft'
      BY <1>1, <2>1 DEF LoginTyped, NoThreadLeft
    <3>2. CASE running' = TRUE /\ npc' = "connect" /\ UNCHANGED <<ended, dead>>
      BY <1>1, <2>1, <3>1, <3>2 DEF Phases, done
    <3>3. CASE UNCHANGED <<running, npc>> /\ done' /\ ended' \in {ended, "failed"}
      BY <1>1, <2>1, <3>1, <3>3 DEF Phases, done
    <3> QED
      BY <2>1, <3>1, <3>2, <3>3
  <2>4. Silent' /\ Exchange'
    BY <1>1, <2>1 DEF Silent, Exchange, done, Phases
  <2> QED
    BY <2>2, <2>3, <2>4 DEF LoginIInv, Auth
<1>3. CASE Close
  <2>1. /\ Grows /\ UNCHANGED <<dialog, mail, asks, attempts, threads, http, timer, ended, stage>>
        /\ ui = "open" /\ ui' = (IF running THEN "stopping" ELSE "gone") /\ running' = FALSE /\ done'
    BY <1>3 DEF Close, Grows, done
  <2>2. Resolver'
    BY <1>1, <2>1, QuietStep
  <2>3. LoginTyped' /\ Phases' /\ NoThreadLeft'
    BY <1>1, <2>1 DEF LoginTyped, Phases, NoThreadLeft, done, Grows, threads
  <2>4. Silent' /\ Exchange'
    BY <1>1, <2>1, ExchangeEnded DEF Silent, threads
  <2> QED
    BY <2>2, <2>3, <2>4 DEF LoginIInv, Auth
<1>4. CASE Timeout
  <2>1. /\ Grows /\ UNCHANGED <<dialog, mail, asks, attempts, ui, running, threads, http, stage>>
        /\ timer' = FALSE /\ done' /\ ended' \in {ended, "failed"}
    BY <1>4, EndIs DEF Timeout
  <2>2. Resolver'
    BY <1>1, <2>1, QuietStep
  <2>3. LoginTyped' /\ Phases' /\ NoThreadLeft'
    BY <1>1, <2>1 DEF LoginTyped, Phases, NoThreadLeft, done, Grows, threads
  <2>4. Silent' /\ Exchange'
    BY <1>1, <2>1, ExchangeEnded DEF Silent, threads
  <2> QED
    BY <2>2, <2>3, <2>4 DEF LoginIInv, Auth
<1>5. CASE Deleted
  <2>1. /\ UNCHANGED <<dialog, asks, attempts, dead, running, threads, http, ended, stage>>
        /\ ui = "stopping" /\ ui' = "gone" /\ Joined /\ mail' = Remaining(mail) /\ timer' = FALSE
    BY <1>5 DEF Deleted
  <2>2. /\ mail \in Seq(Event(generation)) /\ generation \in Nat /\ Once(mail) /\ dead' \subseteq Consumers
    BY <1>1, <2>1, OnceIs DEF Resolver, ResolverTyped
  <2>3. mail' \in Seq(Event(generation)) /\ Once(mail') /\ PostedIn(mail') = PostedIn(mail)
    BY <2>1, <2>2, RemainingIs
  <2>4. Resolver'
    BY <1>1, <2>1, <2>2, <2>3, MailStep
  <2>5. LoginTyped' /\ Phases' /\ NoThreadLeft'
    BY <1>1, <2>1 DEF LoginTyped, Phases, NoThreadLeft, done, threads, Joined
  <2>6. done' /\ npc' # "none"
    BY <1>1, <2>1 DEF Phases, done, threads
  <2>7. Silent' /\ Exchange'
    BY <2>6, ExchangeEnded DEF Silent
  <2> QED
    BY <2>4, <2>5, <2>7 DEF LoginIInv, Auth
<1> QED
  BY <1>2, <1>3, <1>4, <1>5

\* The threads of the socket, and the end of the HTTP thread.
LEMMA ThreadStep ==
  ASSUME LoginIInv, NetConnect \/ NetMessage \/ NetClosed \/ NetStopped \/ NetTail \/ NetClose \/ HbWait
  PROVE  LoginIInv'
<1>1. Resolver /\ LoginTyped /\ Phases /\ Silent /\ NoThreadLeft /\ Exchange /\ generation \in Nat
  BY DEF LoginIInv, Auth, Resolver, ResolverTyped
<1>2. \/ UNCHANGED resolverVars
      \/ \E e \in Event(generation) : e[1] \in {"fail", "message"} /\ ToClient(e)
  <2>1. <<"fail", "">> \in Event(generation) /\ \A k \in 0..5 : \A m \in Messages(k) : <<"message", m>> \in Event(generation)
    BY <1>1, EventIs
  <2>2. ASSUME ToClient(<<"fail", "">>) PROVE \E e \in Event(generation) : e[1] \in {"fail", "message"} /\ ToClient(e)
    <3> DEFINE e == <<"fail", "">>
    <3>1. e \in Event(generation) /\ e[1] = "fail" /\ ToClient(e)
      BY <2>1, <2>2
    <3> HIDE DEF e
    <3> QED
      BY <3>1
  <2>3. CASE NetMessage
    <3> PICK m \in Messages(stage) : ToClient(<<"message", m>>)
      BY <2>3 DEF NetMessage
    <3>1. stage \in 0..5
      BY <1>1 DEF LoginTyped, Messages
    <3> DEFINE e == <<"message", m>>
    <3>2. e \in Event(generation) /\ e[1] = "message" /\ ToClient(e)
      BY <2>1, <3>1
    <3> HIDE DEF e
    <3> QED
      BY <3>2
  <2>4. CASE ToClient(<<"fail", "">>)
    BY <2>2, <2>4
  <2>5. CASE NetConnect \/ NetClosed \/ NetStopped \/ NetTail \/ NetClose \/ HbWait
    <3>1. UNCHANGED resolverVars \/ ToClient(<<"fail", "">>)
      BY <2>5, Zenon DEF NetConnect, NetClosed, NetStopped, NetTail, NetClose, HbWait, Quietly, TellsClose
    <3> QED
      BY <2>4, <3>1
  <2> QED
    BY <2>3, <2>5
<1>3. /\ Resolver' /\ Keeps(mail') /\ asks' = asks /\ dead' = dead
  <2>1. CASE UNCHANGED resolverVars
    <3>1. UNCHANGED <<dialog, mail, asks, attempts>> /\ Grows /\ asks' = asks /\ dead' = dead
      BY <2>1 DEF resolverVars, Grows
    <3>2. Keeps(mail')
      BY <3>1, Zenon DEF Keeps
    <3> QED
      BY <1>1, <3>1, <3>2, QuietStep
  <2>2. ASSUME NEW e \in Event(generation), e[1] \in {"fail", "message"}, ToClient(e)
        PROVE  Resolver' /\ Keeps(mail') /\ asks' = asks /\ dead' = dead
    <3>1. UNCHANGED <<dialog, asks, attempts>> /\ Grows /\ asks' = asks /\ dead' = dead /\ Post(e)
      BY <2>2 DEF ToClient, Grows
    <3> QED
      BY <1>1, <2>2, <3>1, PostStep
  <2> QED
    BY <1>2, <2>1, <2>2
<1>4. /\ npc # "none" /\ npc' # "none" /\ UNCHANGED <<ui, running, http, timer, ended>>
      /\ hb' = hb \/ (hb = "wait" /\ hb' = "exited")
      /\ npc' = npc \/ (npc \notin {"none", "exited"} /\ npc' \in {"connect", "recv", "tail", "close", "exited"})
      /\ curl' \in BOOLEAN /\ stage' \in 0..6
  <2>1. CASE NetMessage
    <3>1. PICK m \in Messages(stage) : stage' = IF m \in {"bad", "cancel"} THEN 6 ELSE stage + 1
      BY <2>1 DEF NetMessage
    <3>2. stage \in 0..5
      BY <1>1 DEF LoginTyped, Messages
    <3> QED
      BY <1>1, <2>1, <3>1, <3>2 DEF NetMessage, LoginTyped, threads
  <2>2. CASE HbWait
    BY <1>1, <2>2 DEF HbWait, LoginTyped, Phases
  <2>3. CASE NetConnect \/ NetClosed \/ NetStopped \/ NetTail \/ NetClose
    BY <1>1, <2>3 DEF NetConnect, NetClosed, NetStopped, NetTail, NetClose, LoginTyped
  <2> QED
    BY <2>1, <2>2, <2>3
<1>5. LoginTyped'
  BY <1>1, <1>4 DEF LoginTyped
<1>6. Phases' /\ NoThreadLeft'
  BY <1>1, <1>3, <1>4 DEF Phases, NoThreadLeft, done
<1>7. Silent'
  BY <1>4 DEF Silent
<1>8. Exchange'
  BY <1>1, <1>3, <1>4, ExchangeKept
<1> QED
  BY <1>3, <1>5, <1>6, <1>7, <1>8 DEF LoginIInv, Auth

\* The messages of the socket.
LEMMA MessageStep ==
  ASSUME LoginIInv, OnFail \/ OnMessage
  PROVE  LoginIInv'
<1>1. Resolver /\ LoginTyped /\ Phases /\ Silent /\ NoThreadLeft /\ Exchange
  BY DEF LoginIInv, Auth
<1>2. CASE OnFail
  <2>1. /\ Received("fail") /\ Grows /\ done' /\ ended' \in {ended, "failed"}
        /\ UNCHANGED <<dialog, asks, attempts, ui, running, threads, http, timer, stage>>
    BY <1>2, EndIs DEF OnFail
  <2>2. Resolver' /\ (NoMessage(mail) => NoMessage(mail'))
    BY <1>1, <2>1, TakeStep
  <2>3. LoginTyped' /\ Phases' /\ NoThreadLeft'
    BY <1>1, <2>1 DEF LoginTyped, Phases, NoThreadLeft, threads
  <2>4. Silent' /\ Exchange'
    BY <1>1, <2>1, <2>2, ExchangeEnded DEF Silent, threads
  <2> QED
    BY <2>2, <2>3, <2>4 DEF LoginIInv, Auth
<1>3. CASE OnMessage
  <2>1. /\ Received("message") /\ UNCHANGED <<dialog, asks, attempts, ui, running, curl, npc>>
        /\ timer' \in BOOLEAN /\ stage' \in 0..6 /\ hb' \in {hb, "wait"}
        /\ hb' # hb => ~done
        /\ \/ UNCHANGED <<http, ended, dead>>
           \/ ~done /\ http = "none" /\ http' = "posting" /\ UNCHANGED <<ended, dead>>
           \/ Grows /\ done' /\ ended' \in {ended, "canceled", "failed"} /\ UNCHANGED http
    BY <1>1, <1>3, EndIs DEF OnMessage, Hello, NonceProof, PendingLogin, LoginTyped
  <2>2. Grows
    BY <2>1 DEF Grows
  <2>3. /\ Resolver' /\ Keeps(mail') /\ ~NoMessage(mail)
    BY <1>1, <2>1, <2>2, TakeStep
  <2>4. npc # "none" /\ npc' # "none"
    BY <1>1, <2>1, <2>3 DEF Silent
  <2>5. LoginTyped'
    BY <1>1, <2>1 DEF LoginTyped
  <2>6. Phases' /\ NoThreadLeft'
    <3>1. done => done'
      BY <2>2 DEF Grows, done
    <3>2. ended' # "no" => done'
      BY <1>1, <2>1, <3>1 DEF Phases
    <3>3. ui \in {"stopping", "gone"} => hb' = hb
      BY <1>1, <2>1 DEF Phases
    <3> QED
      BY <1>1, <2>1, <2>4, <3>1, <3>2, <3>3 DEF Phases, NoThreadLeft
  <2>7. Exchange'
    <3>1. CASE UNCHANGED <<http, ended, dead>>
      BY <1>1, <2>1, <2>2, <2>3, <3>1, ExchangeKept DEF Grows
    <3>2. CASE ~done /\ http = "none" /\ http' = "posting" /\ UNCHANGED <<ended, dead>>
      BY <1>1, <2>1, <2>3, <3>2 DEF Exchange, Keeps, done
    <3>3. CASE done'
      BY <3>3, ExchangeEnded
    <3> QED
      BY <2>1, <3>1, <3>2, <3>3
  <2> QED
    BY <2>3, <2>4, <2>5, <2>6, <2>7 DEF LoginIInv, Auth, Silent
<1> QED
  BY <1>2, <1>3

\* The exchange of the ticket.
LEMMA AnswerStep ==
  ASSUME LoginIInv, HttpDone \/ OnAnswer
  PROVE  LoginIInv'
<1>1. /\ Resolver /\ LoginTyped /\ Phases /\ Silent /\ NoThreadLeft /\ Exchange /\ generation \in Nat
      /\ Login \in Consumers /\ dead \subseteq Consumers
      /\ asks \in [Consumers -> {"idle", "asked", "solved", "denied", "ended"}]
  BY DEF LoginIInv, Auth, Resolver, ResolverTyped, Consumers
<1>2. CASE HttpDone
  <2>1. /\ http = "posting" /\ http' = "finished" /\ \E r \in Answers : Post(<<"answer", r>>)
        /\ UNCHANGED <<dialog, asks, attempts, dead, ui, running, threads, timer, ended, stage>>
    BY <1>2 DEF HttpDone
  <2> PICK r \in Answers : Post(<<"answer", r>>)
    BY <2>1
  <2> DEFINE e == <<"answer", r>>
  <2>2. e \in Event(generation) /\ e[1] = "answer" /\ Post(e)
    BY <1>1, EventIs
  <2> HIDE DEF e
  <2>3. Grows
    BY <2>1 DEF Grows
  <2>4. Resolver' /\ (NoMessage(mail) => NoMessage(mail')) /\ (NoAnswer(mail) => OneAnswer(mail'))
    BY <1>1, <2>1, <2>2, <2>3, PostStep
  <2>5. LoginTyped' /\ Phases' /\ NoThreadLeft'
    BY <1>1, <2>1 DEF LoginTyped, Phases, NoThreadLeft, threads, done
  <2>6. Silent' /\ Exchange'
    BY <1>1, <2>1, <2>4 DEF Silent, Exchange, threads, done
  <2> QED
    BY <2>4, <2>5, <2>6 DEF LoginIInv, Auth
<1>3. CASE OnAnswer
  <2>1. mail # <<>> /\ Head(mail)[1] = "answer" /\ UNCHANGED <<dialog, attempts, login, http>>
    BY <1>3 DEF OnAnswer
  <2> DEFINE E == Event(generation)
             t == Tail(mail)
  <2>2. /\ t \in Seq(E) /\ Once(t) /\ PostedIn(t) = PostedIn(mail) /\ (OneAnswer(mail) => NoAnswer(t))
        /\ (NoMessage(mail) => NoMessage(t)) /\ ~NoAnswer(mail)
    <3>1. mail \in Seq(E) /\ Once(mail)
      BY <1>1, OnceIs DEF Resolver, ResolverTyped
    <3>2. /\ t \in Seq(E) /\ Once(t) /\ PostedIn(t) = PostedIn(mail) /\ ~NoAnswer(mail)
          /\ OneAnswer(mail) => NoAnswer(t)
      BY <1>1, <2>1, <3>1, Popped
    <3>3. NoMessage(mail) => NoMessage(t)
      BY <2>1, <3>1, MessagesAre
    <3> QED
      BY <3>2, <3>3
  <2> HIDE DEF t, E
  <2>3. CASE done /\ mail' = t /\ UNCHANGED <<asks, ended, dead>>
    <3>1. Resolver'
      BY <1>1, <2>1, <2>2, <2>3, MailStep DEF E
    <3>2. LoginTyped' /\ Phases' /\ NoThreadLeft'
      BY <1>1, <2>1, <2>3 DEF LoginTyped, Phases, NoThreadLeft, login, threads, done
    <3>3. done' /\ Silent'
      BY <1>1, <2>1, <2>2, <2>3 DEF Silent, done, login, threads
    <3> QED
      BY <3>1, <3>2, <3>3, ExchangeEnded DEF LoginIInv, Auth
  <2>4. ASSUME ~done PROVE asks[Login] \in {"idle", "solved"} /\ http = "finished" /\ NoAnswer(t)
    BY <1>1, <2>2, <2>4 DEF Exchange, LoginTyped
  <2>5. CASE /\ ~done /\ MayAsk(Login) /\ UNCHANGED <<ended, dead>>
             /\ mail' = Append(t, <<"resolve", Login>>) /\ asks' = [asks EXCEPT ![Login] = "asked"]
    <3> DEFINE e == <<"resolve", Login>>
    <3>1. e \in E /\ e[1] = "resolve" /\ mail' = Append(t, e)
      BY <1>1, <2>5, EventIs DEF E
    <3>2. Resolver'
      BY <1>1, <2>1, <2>2, <2>4, <2>5, AskStep, PostedIs DEF E
    <3> HIDE DEF e
    <3>3. NoAnswer(mail') /\ (NoMessage(mail) => NoMessage(mail'))
      <4>1. NoAnswer(Append(t, e))
        BY <1>1, <2>2, <2>4, <2>5, <3>1, Pushed DEF E
      <4>2. NoMessage(t) => NoMessage(Append(t, e))
        BY <2>2, <3>1, MessagesAre
      <4> QED
        BY <2>2, <3>1, <4>1, <4>2
    <3>4. LoginTyped' /\ Phases' /\ NoThreadLeft'
      BY <1>1, <2>1, <2>5 DEF LoginTyped, Phases, NoThreadLeft, login, threads, done
    <3>5. Silent'
      BY <1>1, <2>1, <3>3 DEF Silent, login, threads
    <3>6. asks'[Login] = "asked" /\ http' = "finished"
      BY <1>1, <2>1, <2>4, <2>5
    <3>7. Exchange'
      BY <3>3, <3>6 DEF Exchange
    <3> QED
      BY <3>2, <3>4, <3>5, <3>7 DEF LoginIInv, Auth
  <2>6. CASE /\ ~done /\ asks' = [asks EXCEPT ![Login] = "ended"]
             /\ mail' = t \o (IF attempts[Login] > 0 THEN <<<<"conclude", generation>>>> ELSE <<>>)
             /\ End("failed") \/ End("authenticated")
    <3>1. Grows /\ done' /\ ended' \in {ended, "failed", "authenticated"}
      BY <2>6, EndIs
    <3> DEFINE e == <<"conclude", generation>>
    <3>2. e \in E /\ e[1] = "conclude"
      <4>1. generation \in 0..generation
        BY <1>1
      <4> QED
        BY <1>1, <4>1, EventIs DEF E
    <3>3. mail' = t \o (IF attempts[Login] > 0 THEN <<e>> ELSE <<>>)
      BY <2>6
    <3> HIDE DEF e
    <3>4. mail' = t \/ mail' = Append(t, e)
      <4>1. t \o <<>> = t /\ t \o <<e>> = Append(t, e)
        BY <2>2, <3>2
      <4> QED
        BY <3>3, <4>1
    <3>5. /\ mail' \in Seq(E) /\ Once(mail') /\ PostedIn(mail') = PostedIn(mail)
          /\ NoMessage(mail) => NoMessage(mail')
      <4>1. Append(t, e) \in Seq(E) /\ Once(Append(t, e)) /\ PostedIn(Append(t, e)) = PostedIn(t)
        BY <1>1, <2>2, <3>2, Pushed DEF E
      <4>2. NoMessage(t) => NoMessage(Append(t, e))
        BY <2>2, <3>2, MessagesAre
      <4> QED
        BY <2>2, <3>4, <4>1, <4>2
    <3>6. dead \subseteq dead' /\ dead' \subseteq Consumers
      BY <1>1, <3>1 DEF Grows
    <3>7. Resolver'
      BY <1>1, <2>1, <2>4, <2>6, <3>5, <3>6, EndStep DEF E
    <3>8. LoginTyped' /\ Phases' /\ NoThreadLeft'
      BY <1>1, <2>1, <3>1 DEF LoginTyped, Phases, NoThreadLeft, login, threads
    <3>9. Silent'
      BY <1>1, <2>1, <3>5 DEF Silent, login, threads
    <3> QED
      BY <3>1, <3>7, <3>8, <3>9, ExchangeEnded DEF LoginIInv, Auth
  <2>7. \/ done /\ mail' = t /\ UNCHANGED <<asks, ended, dead>>
        \/ /\ ~done /\ MayAsk(Login) /\ UNCHANGED <<ended, dead>>
           /\ mail' = Append(t, <<"resolve", Login>>) /\ asks' = [asks EXCEPT ![Login] = "asked"]
        \/ /\ ~done /\ asks' = [asks EXCEPT ![Login] = "ended"]
           /\ mail' = t \o (IF attempts[Login] > 0 THEN <<<<"conclude", generation>>>> ELSE <<>>)
           /\ End("failed") \/ End("authenticated")
    BY <1>3, Zenon DEF OnAnswer, t
  <2> QED
    BY <2>3, <2>5, <2>6, <2>7
<1> QED
  BY <1>2, <1>3

\* The captcha dialog, whose callback may be the login's.
LEMMA CaptchaStep ==
  ASSUME LoginIInv, CaptchaQueued \/ CaptchaUser
  PROVE  LoginIInv'
<1>1. /\ Resolver /\ LoginTyped /\ Phases /\ Silent /\ NoThreadLeft /\ Exchange
      /\ LoginCalled /\ UNCHANGED login
      /\ OnResolve \/ OnConcluded \/ DeliverSolution \/ CancelCurrent \/ CloseBox
  BY Zenon DEF LoginIInv, Auth, CaptchaQueued, CaptchaUser
<1>2. \/ asks'[Login] = asks[Login] /\ UNCHANGED <<http, ended, dead>>
      \/ asks'[Login] # asks[Login] /\ asks'[Login] = "solved" /\ http' = "posting" /\ UNCHANGED <<ended, dead>>
      \/ End("failed") /\ UNCHANGED http
  BY <1>1, Zenon DEF LoginCalled, PostAgain
<1>3. Grows
  BY <1>2, EndIs DEF Grows
<1>4. /\ Resolver' /\ Keeps(mail') /\ (NoMessage(mail) => NoMessage(mail'))
      /\ asks'[Login] # asks[Login] => asks[Login] = "asked"
  BY <1>1, <1>3, DialogStep
<1>5. CASE asks'[Login] = asks[Login] /\ UNCHANGED <<http, ended, dead>>
  <2>1. LoginTyped' /\ Phases' /\ NoThreadLeft' /\ Silent'
    BY <1>1, <1>4, <1>5 DEF LoginTyped, Phases, NoThreadLeft, Silent, login, threads, done
  <2>2. Exchange'
    BY <1>1, <1>3, <1>4, <1>5, ExchangeKept DEF Grows
  <2> QED
    BY <1>4, <2>1, <2>2 DEF LoginIInv, Auth
<1>6. CASE asks'[Login] # asks[Login] /\ asks'[Login] = "solved" /\ http' = "posting" /\ UNCHANGED <<ended, dead>>
  <2>1. LoginTyped' /\ Phases' /\ NoThreadLeft' /\ Silent'
    BY <1>1, <1>4, <1>6 DEF LoginTyped, Phases, NoThreadLeft, Silent, login, threads, done
  <2>2. done' = done
    BY <1>6 DEF done
  <2>3. ASSUME ~done PROVE NoAnswer(mail')
    BY <1>1, <1>4, <1>6, <2>3 DEF Exchange, LoginTyped, Keeps
  <2>4. Exchange'
    BY <1>6, <2>2, <2>3 DEF Exchange
  <2> QED
    BY <1>4, <2>1, <2>4 DEF LoginIInv, Auth
<1>7. CASE End("failed") /\ UNCHANGED http
  <2>1. done' /\ ended' \in {ended, "failed"}
    BY <1>7, EndIs
  <2>2. LoginTyped' /\ Phases' /\ NoThreadLeft' /\ Silent'
    BY <1>1, <1>4, <1>7, <2>1 DEF LoginTyped, Phases, NoThreadLeft, Silent, login, threads
  <2> QED
    BY <1>4, <2>1, <2>2, ExchangeEnded DEF LoginIInv, Auth
<1> QED
  BY <1>2, <1>5, <1>6, <1>7

\* Every step keeps the invariant.
LEMMA LoginStep == LoginIInv /\ [LoginNext]_loginVars => LoginIInv'
<1> SUFFICES ASSUME LoginIInv, [LoginNext]_loginVars PROVE LoginIInv'
  OBVIOUS
<1>1. CASE RequestStep /\ UNCHANGED authVars
  <2>1. Resolver /\ LoginTyped /\ Phases /\ Silent /\ NoThreadLeft /\ Exchange
    BY DEF LoginIInv, Auth
  <2>2. /\ Resolver' /\ Keeps(mail') /\ (NoMessage(mail) => NoMessage(mail'))
        /\ asks'[Login] = asks[Login] /\ dead \subseteq dead' /\ (done' <=> done)
    BY <1>1, <2>1, RequestsStep DEF done
  <2>3. LoginTyped' /\ Phases' /\ NoThreadLeft' /\ Silent'
    BY <1>1, <2>1, <2>2 DEF LoginTyped, Phases, NoThreadLeft, Silent, authVars
  <2>4. Exchange'
    BY <1>1, <2>1, <2>2, ExchangeKept DEF authVars
  <2> QED
    BY <2>2, <2>3, <2>4 DEF LoginIInv, Auth
<1>2. CASE UNCHANGED loginVars
  <2>1. UNCHANGED <<dialog, mail, asks, attempts, dead>> /\ UNCHANGED authVars
    BY <1>2 DEF loginVars, resolverVars
  <2>2. Resolver' /\ Keeps(mail')
    BY <2>1, QuietStep, Zenon DEF Grows, LoginIInv, Keeps
  <2>3. Auth' /\ Exchange'
    BY <2>1 DEF LoginIInv, Auth, LoginTyped, Phases, Silent, NoThreadLeft, Exchange, authVars, done
  <2> QED
    BY <2>2, <2>3 DEF LoginIInv
<1>3. CASE LoginNext
  <2>1. \/ Start \/ Close \/ Timeout \/ Deleted
        \/ NetConnect \/ NetMessage \/ NetClosed \/ NetStopped \/ NetTail \/ NetClose \/ HbWait
        \/ OnFail \/ OnMessage \/ HttpDone \/ OnAnswer \/ CaptchaQueued \/ CaptchaUser
        \/ RequestStep /\ UNCHANGED authVars
    BY <1>3, Zenon DEF LoginNext, EventLoop, Mail
  <2> QED
    BY <1>1, <2>1, LifeStep, ThreadStep, MessageStep, AnswerStep, CaptchaStep
<1> QED
  BY <1>2, <1>3

\* A new dialog has it.
LEMMA LoginFirst == LoginInit => LoginIInv
<1> SUFFICES ASSUME LoginInit PROVE LoginIInv
  OBVIOUS
<1>1. Resolver /\ mail = <<>> /\ Login \in Consumers
  BY InitResolver DEF LoginInit, ResolverInit, Consumers
<1>2. NoAnswer(mail) /\ NoMessage(mail)
  BY <1>1 DEF NoAnswer, NoMessage
<1>3. ~done /\ asks[Login] = "idle"
  BY <1>1 DEF LoginInit, ResolverInit, done
<1>4. LoginTyped /\ Phases /\ NoThreadLeft
  <2>1. ~running /\ timer \in BOOLEAN /\ running \in BOOLEAN /\ curl \in BOOLEAN
    BY Zenon DEF LoginInit
  <2>2. /\ ui = "new" /\ npc = "none" /\ hb = "none" /\ http = "none" /\ ended = "no" /\ stage = 0
    BY DEF LoginInit
  <2> QED
    BY <2>1, <2>2 DEF LoginTyped, Phases, NoThreadLeft
<1>5. Silent /\ Exchange
  BY <1>2, <1>3 DEF LoginInit, Silent, Exchange
<1> QED
  BY <1>1, <1>4, <1>5 DEF LoginIInv, Auth

\* The count of showings bounds the challenges shown.
LEMMA ShownBounded == ASSUME Resolver PROVE generation \in 0 .. Cardinality(Consumers) * MaxAttempts
<1>1. Showings \subseteq Consumers \X (1..MaxAttempts)
  BY DEF Showings
<1>2. /\ Cardinality(Showings) <= Cardinality(Consumers) * MaxAttempts /\ Cardinality(Showings) \in Nat
      /\ Cardinality(Consumers) * MaxAttempts \in Nat
  BY <1>1, ShowingsFinite, FS_Subset, FS_CardinalityType
<1> HIDE DEF Showings
<1> DEFINE n == Cardinality(Consumers) * MaxAttempts
           k == Cardinality(Showings)
<1>3. k <= n /\ k \in Nat /\ n \in Nat /\ generation \in Nat /\ generation <= k
  BY <1>2 DEF Resolver, ResolverTyped, Counted
<1> HIDE DEF n, k
<1>4. generation \in 0..n
  BY <1>3
<1> QED
  BY <1>4 DEF n

\* It implies what is checked.
LEMMA LoginImplies == LoginIInv => LoginHeld
<1> SUFFICES ASSUME LoginIInv PROVE LoginHeld
  OBVIOUS
<1>1. Resolver /\ LoginTyped /\ NoThreadLeft /\ Exchange /\ ResolverTyped /\ CallbackOnce /\ NobodyForgotten
  BY DEF LoginIInv, Auth, Resolver
<1>2. LoginTypeOK
  <2>1. ResolverTypeOK
    BY <1>1, ShownBounded DEF ResolverTyped, ResolverTypeOK
  <2>2. mail \in Seq({<<"fail", "">>} \cup ({"resolve"} \X Consumers) \cup ({"conclude"} \X (0..generation))
                 \cup ({"message"} \X UNION {Messages(k) : k \in 0..5}) \cup ({"answer"} \X Answers))
    BY <1>1, Zenon DEF ResolverTyped, Event
  <2> QED
    BY <1>1, <2>1, <2>2, Zenon DEF LoginTyped, LoginTypeOK
<1>3. ExchangeHeld
  <2> SUFFICES ASSUME http = "finished", ~done
               PROVE  asks[Login] = "asked" \/ \E i \in DOMAIN mail : mail[i][1] = "answer"
    BY DEF ExchangeHeld
  <2> QED
    BY <1>1, Zenon DEF Exchange, OneAnswer
<1> QED
  BY <1>1, <1>2, <1>3 DEF LoginHeld

\* The login ends once, for a dialog that is there.
LEMMA EndsStep == LoginIInv /\ [LoginNext]_loginVars => (ended' # ended => ended = "no" /\ ui # "stopping" /\ ui' # "gone")
<1> SUFFICES ASSUME LoginIInv, [LoginNext]_loginVars, ended' # ended
             PROVE  ended = "no" /\ ui # "stopping" /\ ui' # "gone"
  OBVIOUS
<1>1. Phases /\ LoginTyped
  BY DEF LoginIInv, Auth
<1>2. ~done => ended = "no" /\ ui \notin {"stopping", "gone"}
  BY <1>1 DEF Phases
<1>3. \A e : End(e) => ~done
  BY EndIs
<1>4. ~done /\ ui' \in {ui, "open"}
  <2>1. CASE Start
    BY <1>3, <2>1, Zenon DEF Start
  <2>2. CASE Timeout
    BY <1>3, <2>2, Zenon DEF Timeout
  <2>3. CASE OnFail
    BY <1>3, <2>3, Zenon DEF OnFail
  <2>4. CASE OnMessage
    BY <1>3, <2>4, Zenon DEF OnMessage, Hello, NonceProof, PendingLogin
  <2>5. CASE OnAnswer
    BY <1>3, <2>5, Zenon DEF OnAnswer, login
  <2>6. CASE CaptchaQueued \/ CaptchaUser
    BY <1>3, <2>6, Zenon DEF CaptchaQueued, CaptchaUser, LoginCalled, login
  <2>7. CASE \/ Close \/ Deleted \/ HttpDone \/ (RequestStep /\ UNCHANGED authVars) \/ UNCHANGED loginVars
             \/ NetConnect \/ NetMessage \/ NetClosed \/ NetStopped \/ NetTail \/ NetClose \/ HbWait
    BY <2>7 DEF Close, Deleted, HttpDone, authVars, loginVars, NetConnect, NetMessage, NetClosed,
                NetStopped, NetTail, NetClose, HbWait
  <2> QED
    BY <2>1, <2>2, <2>3, <2>4, <2>5, <2>6, <2>7, Zenon DEF LoginNext, EventLoop, Mail
<1> QED
  BY <1>2, <1>4

\* When the dialog's callback has the login post again, the thread postLogin joins has
\* already posted its answer, and the answer has been handled: the join does not wait.
JoinReturns == ~done /\ asks[Login] = "asked" => http = "finished" /\ NoAnswer(mail)

\* What runs check of the login and of the captcha dialog holds for any finite set of callers
\* and any cap on attempts: no callback runs twice, nobody who waits is forgotten, no
\* exchange is lost, and no thread outlives the client.
THEOREM LoginInvariance == LoginSpec => []LoginHeld
<1>1. LoginSpec => []LoginIInv
  BY LoginFirst, LoginStep, PTL DEF LoginSpec
<1> QED
  BY <1>1, LoginImplies, PTL

\* fail, succeed and cancel, called by messages, timers, answers and captchas, give the
\* dialog one end, and none once it is being deleted.
THEOREM LoginEndsOnce == LoginSpec => EndsOnce
<1>1. LoginSpec => []LoginIInv
  BY LoginFirst, LoginStep, PTL DEF LoginSpec
<1>2. LoginIInv /\ [LoginNext]_loginVars => [ended' # ended => ended = "no" /\ ui # "stopping" /\ ui' # "gone"]_loginVars
  BY EndsStep
<1> QED
  BY <1>1, <1>2, PTL DEF LoginSpec, EndsOnce

\* postLogin, which joins the last HTTP thread on the UI thread, joins one that has nothing left
\* to do but to return.
THEOREM JoinIsShort == LoginSpec => []JoinReturns
<1>1. LoginSpec => []LoginIInv
  BY LoginFirst, LoginStep, PTL DEF LoginSpec
<1>2. LoginIInv => JoinReturns
  BY DEF LoginIInv, Auth, LoginTyped, Exchange, JoinReturns
<1> QED
  BY <1>1, <1>2, PTL

=============================================================================
