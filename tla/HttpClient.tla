----------------------------- MODULE HttpClient -----------------------------
(***************************************************************************)
(* The REST client: HttpClient on the UI thread and the worker thread of   *)
(* RequestWorker (src/Discord/HttpClient.cpp, RequestWorker.cpp).          *)
(*                                                                         *)
(* A request is a model value; which transfer fails, is rate limited or    *)
(* draws a captcha is the server's choice.  A completion posted by the     *)
(* worker is an event of the UI thread; completions of different requests  *)
(* are independent, so outcome keeps one per request.  Bodies, headers and *)
(* progress reports are left out.  The branch of submit() that rejects a   *)
(* request is left out too: every submit() runs on the UI thread, which is *)
(* inside ~HttpClient from the moment submissions are refused.             *)
(***************************************************************************)
EXTENDS Naturals, FiniteSets

CONSTANTS Requests,     \* the requests that may be made
          External,     \* those sent to another host (RequestDescriptor::external)
          MaxRetries,   \* kMaxRateLimitRetries
          MaxCaptchas   \* kMaxCaptchaAttempts

ASSUME HttpAssumption ==
  External \subseteq Requests /\ MaxRetries \in Nat /\ MaxCaptchas \in Nat

VARIABLES
  client,    \* HttpClient: "alive", then the stages of its destructor
  workerRunning, \* RequestWorker::running
  wpc,       \* where the worker thread is
  pending,   \* RequestWorker::pending
  active,    \* RequestWorker::active
  outcome,   \* per request: the completion queued to the UI thread, or "none"
  parked,    \* HttpClient::m_retryTimers, with the timers' own copies
  captcha,   \* requests whose challenge the resolver is showing
  retries,   \* per request: RequestDescriptor::retryCount
  captchas,  \* per request: RequestDescriptor::captchaAttempt
  asked,     \* the requests made
  calls      \* per request: how often its callback ran

workerVars == <<workerRunning, wpc>>
countVars  == <<retries, captchas>>
vars == <<client, workerVars, pending, active, outcome, parked, captcha, countVars, asked, calls>>

\* final: an answer for the caller, a success or a failure; limited: 429 with a
\* delay; challenge: 400 with a captcha.
Outcome == {"final", "limited", "challenge"}

TypeOK ==
  /\ client \in {"alive", "closing", "stopping", "destroyed"}
  /\ workerRunning \in BOOLEAN /\ wpc \in {"loop", "serve", "abort", "exited"}
  /\ pending \subseteq Requests /\ active \subseteq Requests
  /\ outcome \in [Requests -> Outcome \cup {"none"}]
  /\ parked \subseteq Requests /\ captcha \subseteq Requests
  /\ retries \in [Requests -> 0..MaxRetries] /\ captchas \in [Requests -> 0..MaxCaptchas]
  /\ asked \subseteq Requests /\ calls \in [Requests -> Nat]

Init ==
  /\ client = "alive" /\ workerRunning = TRUE /\ wpc = "loop"
  /\ pending = {} /\ active = {} /\ outcome = [r \in Requests |-> "none"]
  /\ parked = {} /\ captcha = {}
  /\ retries = [r \in Requests |-> 0] /\ captchas = [r \in Requests |-> 0]
  /\ asked = {} /\ calls = [r \in Requests |-> 0]

Completing == {r \in Requests : outcome[r] # "none"}

\* The callbacks of the requests in S run.
Call(S) == calls' = [r \in Requests |-> IF r \in S THEN calls[r] + 1 ELSE calls[r]]

\* dispatchCompletion for every request of S.
Dispatch(S, res) == outcome' = [r \in Requests |-> IF r \in S THEN res ELSE outcome[r]]

-----------------------------------------------------------------------------
(* UI thread.                                                              *)

\* get, post, patch, put, delete_, postMultipart, putExternal, putExternalFile: submit.
Ask(r) ==
  /\ client = "alive" /\ r \notin asked
  /\ asked' = asked \cup {r}
  /\ pending' = pending \cup {r}
  /\ UNCHANGED <<client, workerVars, active, outcome, parked, captcha, countVars, calls>>

\* putExternal, putExternalFile: an address that is not https, or a private host, is
\* answered in the call itself.
RefuseExternal(r) ==
  /\ client = "alive" /\ r \in External \ asked
  /\ asked' = asked \cup {r}
  /\ Call({r})
  /\ UNCHANGED <<client, workerVars, pending, active, outcome, parked, captcha, countVars>>

MayRetryForEver(r) == r \notin External   \* mutant: the attempts are not capped
MayRetry(r) == r \notin External /\ retries[r] < MaxRetries

\* onRequestComplete, first case: park a rate-limited request behind a timer.
Park(r) ==
  /\ client = "alive" /\ outcome[r] = "limited" /\ MayRetry(r)
  /\ outcome' = [outcome EXCEPT ![r] = "none"]
  /\ retries' = [retries EXCEPT ![r] = IF @ < MaxRetries THEN @ + 1 ELSE @]
  /\ parked' = parked \cup {r}
  /\ UNCHANGED <<client, workerVars, pending, active, captcha, captchas, asked, calls>>

\* Second case: the callback gets the response.
Deliver(r) ==
  /\ client = "alive"
  /\ \/ outcome[r] = "final"
     \/ outcome[r] = "limited" /\ ~MayRetry(r)
     \/ outcome[r] = "challenge" /\ captchas[r] >= MaxCaptchas
  /\ outcome' = [outcome EXCEPT ![r] = "none"]
  /\ Call({r})
  /\ UNCHANGED <<client, workerVars, pending, active, parked, captcha, countVars, asked>>

\* mutant: the caller is told of the challenge as well
ChallengeReported(r) ==
  /\ client = "alive" /\ outcome[r] = "challenge" /\ captchas[r] < MaxCaptchas
  /\ outcome' = [outcome EXCEPT ![r] = "none"]
  /\ captcha' = captcha \cup {r}
  /\ Call({r})
  /\ UNCHANGED <<client, workerVars, pending, active, parked, countVars, asked>>

\* Third case: the user is shown the captcha.
Challenge(r) ==
  /\ client = "alive" /\ outcome[r] = "challenge" /\ captchas[r] < MaxCaptchas
  /\ outcome' = [outcome EXCEPT ![r] = "none"]
  /\ captcha' = captcha \cup {r}
  /\ UNCHANGED <<client, workerVars, pending, active, parked, countVars, asked, calls>>

\* The retry timer fires: erase the parked entry and submit the timer's copy.
RetryTimer(r) ==
  /\ client = "alive" /\ r \in parked
  /\ parked' = parked \ {r}
  /\ pending' = pending \cup {r}
  /\ UNCHANGED <<client, workerVars, active, outcome, captcha, countVars, asked, calls>>

\* The resolver's answer: a solution is submitted, a refusal is reported.
CaptchaSolved(r) ==
  /\ client = "alive" /\ r \in captcha
  /\ captcha' = captcha \ {r}
  /\ captchas' = [captchas EXCEPT ![r] = @ + 1]
  /\ pending' = pending \cup {r}
  /\ UNCHANGED <<client, workerVars, active, outcome, parked, retries, asked, calls>>

CaptchaRefused(r) ==
  /\ client = "alive" /\ r \in captcha
  /\ captcha' = captcha \ {r}
  /\ Call({r})
  /\ UNCHANGED <<client, workerVars, pending, active, outcome, parked, countVars, asked>>

\* ~HttpClient: fail the parked requests ...
Destroy ==
  /\ client = "alive"
  /\ Call(parked) /\ parked' = {}
  /\ client' = "closing"
  /\ UNCHANGED <<workerVars, pending, active, outcome, captcha, countVars, asked>>

\* mutant: the join is reached with running still set
ShutdownKeepsRunning ==
  /\ client = "closing"
  /\ client' = "stopping"
  /\ UNCHANGED <<workerVars, pending, active, outcome, parked, captcha, countVars, asked, calls>>

\* ... RequestWorker::shutdown ...
Shutdown ==
  /\ client = "closing"
  /\ workerRunning' = FALSE /\ client' = "stopping"
  /\ UNCHANGED <<wpc, pending, active, outcome, parked, captcha, countVars, asked, calls>>

\* ... and its join.  Events still queued to the client die with it, and the
\* resolver's callback finds its guard cleared.
Join ==
  /\ client = "stopping" /\ wpc = "exited"
  /\ client' = "destroyed"
  /\ outcome' = [r \in Requests |-> "none"] /\ captcha' = {}
  /\ UNCHANGED <<workerVars, pending, active, parked, countVars, asked, calls>>

-----------------------------------------------------------------------------
(* Worker thread: RequestWorker::threadLoop.                               *)

\* mutant: a transfer that cannot be set up is dropped
DrainDropsFailed ==
  /\ wpc = "loop" /\ workerRunning
  /\ \E failed \in SUBSET pending : active' = active \cup (pending \ failed)
  /\ pending' = {} /\ wpc' = "serve"
  /\ UNCHANGED <<client, workerRunning, outcome, parked, captcha, countVars, asked, calls>>

\* drainSubmissions: the transfers that cannot be set up fail at once.
Drain ==
  /\ wpc = "loop" /\ workerRunning
  /\ \E failed \in SUBSET pending :
       /\ Dispatch(failed, "final")
       /\ active' = active \cup (pending \ failed)
  /\ pending' = {} /\ wpc' = "serve"
  /\ UNCHANGED <<client, workerRunning, parked, captcha, countVars, asked, calls>>

\* handleCompletion of one transfer: done, failed, timed out or cancelled.
Complete(r, res) ==
  /\ wpc = "serve" /\ r \in active
  /\ res # "final" => r \notin External
  /\ active' = active \ {r}
  /\ Dispatch({r}, res)
  /\ UNCHANGED <<client, workerVars, pending, parked, captcha, countVars, asked, calls>>

\* The poll returns, or the loop notices that it is to end.
Poll ==
  /\ \/ wpc = "serve" /\ wpc' = (IF workerRunning THEN "loop" ELSE "abort")
     \/ wpc = "loop" /\ ~workerRunning /\ wpc' = "abort"
  /\ UNCHANGED <<client, workerRunning, pending, active, outcome, parked, captcha,
                 countVars, asked, calls>>

\* abortAllInFlight.
Abort ==
  /\ wpc = "abort"
  /\ Dispatch(active \cup pending, "final")
  /\ active' = {} /\ pending' = {} /\ wpc' = "exited"
  /\ UNCHANGED <<client, workerRunning, parked, captcha, countVars, asked, calls>>

-----------------------------------------------------------------------------
Destroyed == client = "destroyed" /\ UNCHANGED vars

OnComplete(r) == Park(r) \/ Deliver(r) \/ Challenge(r)
Next ==
  \/ Destroy \/ Shutdown \/ Join \/ Drain \/ Poll \/ Abort \/ Destroyed
  \/ \E r \in Requests :
       \/ Ask(r) \/ RefuseExternal(r) \/ OnComplete(r) \/ RetryTimer(r) \/ CaptchaSolved(r) \/ CaptchaRefused(r)
       \/ \E res \in Outcome : Complete(r, res)

Spec == Init /\ [][Next]_vars

\* Threads and timers go on, and a transfer ends within its time limit.  The user
\* may leave a captcha unanswered.
Fairness ==
  /\ WF_vars(Shutdown) /\ WF_vars(Join) /\ WF_vars(Drain) /\ WF_vars(Poll) /\ WF_vars(Abort)
  /\ \A r \in Requests :
       /\ WF_vars(OnComplete(r)) /\ WF_vars(RetryTimer(r))
       /\ SF_vars(\E res \in Outcome : Complete(r, res))

FairSpec == Spec /\ Fairness

-----------------------------------------------------------------------------
\* A request is in one place at a time: no second owner could answer it again.
OneOwner ==
  /\ pending \cap (active \cup Completing \cup parked \cup captcha) = {}
  /\ active \cap (Completing \cup parked \cup captcha) = {}
  /\ Completing \cap (parked \cup captcha) = {}
  /\ parked \cap captcha = {}

Held == pending \cup active \cup Completing \cup parked \cup captcha

\* While the client lives, a request is either answered, once, or still held.
NeverLost ==
  client = "alive" => \A r \in asked : calls[r] = (IF r \in Held THEN 0 ELSE 1)

\* A retry parked behind its timer is answered when the client is destroyed.
ParkedAnswered == [][\A r \in parked : client' # "alive" => calls'[r] = 1]_vars

\* HttpClient implements its contract: one answer at most, from whichever of the
\* queues, timers and dialogs holds the request; the destructor answers the requests
\* that wait for a retry and gives up all others.
Contract == INSTANCE RequestContract WITH open <- client = "alive", waiting <- parked
ImplementsContract == Contract!Spec

\* However often the server limits it, a request is answered unless the client is
\* destroyed or the user leaves its captcha open.
EventuallyAnswered ==
  \A r \in Requests : r \in asked ~> (calls[r] = 1 \/ client # "alive" \/ r \in captcha)

\* ~HttpClient returns: the worker always ends.
DestroyReturns == client = "closing" ~> client = "destroyed"

\* A request is held in one place or was answered once, as long as the client lives.
Inv == TypeOK /\ OneOwner /\ NeverLost

=============================================================================
