--------------------------- MODULE CaptchaResolver ---------------------------
(***************************************************************************)
(* The captcha dialog all requests share (src/UI/BrowserCaptchaResolver.cpp) *)
(* and the HTTP requests that wait for it (src/Discord/HttpClient.cpp).      *)
(*                                                                         *)
(* One challenge is shown at a time.  A solution is verified by repeating    *)
(* the request that drew the challenge; the dialog stays open until that     *)
(* request concludes or draws the next challenge.  resolve() and             *)
(* notifyConcluded() are queued calls; callbacks are direct ones.  A server  *)
(* that cannot listen cancels the challenge at once, as the user could.      *)
(* The module has no Next of its own: RemoteAuth adds the login's callback.  *)
(***************************************************************************)
EXTENDS Naturals, FiniteSets, SequencesExt

CONSTANTS Callers,      \* HTTP requests that may draw challenges
          Login,        \* the QR login's request, which may too
          MaxAttempts   \* kMaxCaptchaAttempts

None == "none"
Consumers == Callers \cup {Login}

ASSUME CaptchaAssumption ==
  IsFiniteSet(Callers) /\ None \notin Consumers /\ Login \notin Callers /\ MaxAttempts \in Nat

VARIABLES
  mail,        \* calls and signals queued to the UI thread
  state,       \* Idle, Waiting for the user, Verifying a solution
  generation,  \* currentGeneration
  queue,       \* challenges not yet shown
  currentCb,   \* whose callback currentCb is
  modal,       \* the dialog is open
  boxes,       \* message boxes open: each is startNext inside a nested event loop
  asks,        \* per consumer: what became of its last challenge
  attempts,    \* per consumer: captchaAttempt
  dead,        \* consumers whose callbacks return at once
  overtaken    \* history: consumers whose callback was overwritten

dialog == <<state, generation, queue, currentCb, modal, boxes, overtaken>>
resolverVars == <<dialog, mail, asks, attempts, dead>>

ResolverTypeOK ==
  /\ state \in {"Idle", "Waiting", "Verifying"} /\ (state = "Idle" <=> ~modal)
  /\ generation \in 0 .. Cardinality(Consumers) * MaxAttempts
  /\ queue \in Seq(Consumers) /\ boxes \in Seq(Consumers)
  /\ currentCb \in Consumers \cup {None}
  /\ asks \in [Consumers -> {"idle", "asked", "solved", "denied", "ended"}]
  /\ attempts \in [Consumers -> 0..MaxAttempts]
  /\ dead \subseteq Consumers /\ overtaken \subseteq Consumers

ResolverInit ==
  /\ mail = <<>> /\ state = "Idle" /\ generation = 0 /\ queue = <<>> /\ currentCb = None
  /\ modal = FALSE /\ boxes = <<>> /\ overtaken = {} /\ dead = {}
  /\ asks = [c \in Consumers |-> "idle"] /\ attempts = [c \in Consumers |-> 0]

Post(e) == mail' = Append(mail, e)
Resolve(c) == Post(<<"resolve", c>>)
NotifyConcluded == Post(<<"conclude", generation>>)
Received(kind) == mail # <<>> /\ Head(mail)[1] = kind /\ mail' = Tail(mail)

-----------------------------------------------------------------------------
(* BrowserCaptchaResolver.                                                  *)

\* A callback runs, unless there is none or its owner is gone.
RunCallback(cb, r) ==
  IF cb = None \/ cb \in dead THEN UNCHANGED <<asks, attempts>>
  ELSE /\ asks' = [asks EXCEPT ![cb] = r]
       /\ attempts' = IF r = "solved" THEN [attempts EXCEPT ![cb] = @ + 1] ELSE attempts

\* startNext, of an idle dialog: the next challenge is shown or, if its service is not
\* supported, refused in a message box whose event loop runs inside the call.
StartNext(q, cb, bs) ==
  IF q = <<>>
  THEN /\ state' = "Idle" /\ queue' = q /\ currentCb' = cb /\ modal' = FALSE /\ boxes' = bs
       /\ UNCHANGED <<generation, overtaken>>
  ELSE /\ queue' = Tail(q) /\ currentCb' = Head(q)
       /\ overtaken' = overtaken \cup ({cb} \ {None})
       /\ \/ boxes' = bs /\ state' = "Waiting" /\ modal' = TRUE /\ generation' = generation + 1
          \/ boxes' = Append(bs, Head(q)) /\ state' = "Idle" /\ modal' = FALSE /\ UNCHANGED generation

\* The dialog of a rejected solution is reused for the next challenge.
Reusable == state = "Verifying"

\* resolve
OnResolve ==
  /\ Received("resolve") /\ UNCHANGED <<asks, attempts>>
  /\ LET c == Head(mail)[2] IN
     \/ /\ Reusable /\ state' = "Waiting" /\ currentCb' = c /\ generation' = generation + 1
        /\ UNCHANGED <<queue, modal, boxes, overtaken>>
     \/ /\ ~Reusable /\ state # "Idle" /\ queue' = Append(queue, c)
        /\ UNCHANGED <<state, generation, currentCb, modal, boxes, overtaken>>
     \/ ~Reusable /\ state = "Idle" /\ StartNext(Append(queue, c), currentCb, boxes)

\* Whether a conclusion is of the challenge being verified.
Concludes(g) == g = generation /\ state = "Verifying"

\* notifyConcluded: the dialog is closed, and the next challenge shown.
OnConcluded ==
  /\ Received("conclude") /\ UNCHANGED <<asks, attempts>>
  /\ IF Concludes(Head(mail)[2]) THEN StartNext(queue, None, boxes) ELSE UNCHANGED dialog

\* mutant: the callback is kept when it is called
Kept == currentCb

\* std::move(currentCb)
Moved == None

\* deliverSolution
DeliverSolution ==
  /\ state = "Waiting" /\ state' = "Verifying" /\ currentCb' = Moved
  /\ RunCallback(currentCb, "solved")
  /\ UNCHANGED <<mail, generation, queue, modal, boxes, overtaken>>

\* mutant: what is queued waits for the next call of resolve
ShowNoNext ==
  /\ state' = "Idle" /\ currentCb' = None /\ modal' = FALSE
  /\ UNCHANGED <<queue, boxes, generation, overtaken>>

\* After a cancellation the next challenge is shown.
ShowNext == StartNext(queue, None, boxes)

\* cancelCurrent: by the user, or by the error of the page the browser shows.
CancelCurrent == state # "Idle" /\ RunCallback(currentCb, "denied") /\ ShowNext /\ UNCHANGED mail

\* The two-minute timer, which runs only while the user is waited for.
TimesOut == state = "Waiting" /\ CancelCurrent

\* The rest of startNext once its message box is closed, which an open dialog blocks.
CloseBox ==
  /\ boxes # <<>> /\ ~modal /\ UNCHANGED mail
  /\ RunCallback(currentCb, "denied")
  /\ StartNext(queue, None, Front(boxes))

-----------------------------------------------------------------------------
(* HttpClient::onRequestComplete, for requests that drew a challenge.        *)

\* A challenge is shown a limited number of times.
MayAsk(c) == attempts[c] < MaxAttempts

\* The first answer, or that of the repeated request, is a challenge.
Challenged(c) ==
  /\ asks[c] \in {"idle", "solved"} /\ MayAsk(c)
  /\ Resolve(c) /\ asks' = [asks EXCEPT ![c] = "asked"]
  /\ UNCHANGED <<dialog, attempts, dead>>

\* The repeated request is answered for good.
Concluded(c) ==
  /\ asks[c] = "solved"
  /\ NotifyConcluded /\ asks' = [asks EXCEPT ![c] = "ended"]
  /\ UNCHANGED <<dialog, attempts, dead>>

\* ~HttpClient: nothing of a request that waits is heard any more.
OwnerDeleted(c) ==
  asks[c] \in {"asked", "solved"} /\ dead' = dead \cup {c} /\ UNCHANGED <<dialog, mail, asks, attempts>>

RequestStep == \E c \in Callers \ dead : Challenged(c) \/ Concluded(c) \/ OwnerDeleted(c)

-----------------------------------------------------------------------------
\* Whose resolve() is still under way.
Posted == {c \in Consumers : \E i \in DOMAIN mail : mail[i] = <<"resolve", c>>}

\* A callback is held in one place, and only for one who waits for it: it can run once
\* for each call of resolve().
CallbackOnce ==
  /\ \A i, j \in DOMAIN mail : mail[i] = mail[j] /\ mail[i][1] = "resolve" => i = j
  /\ IsInjective(queue) /\ Posted \cap Range(queue) = {} /\ currentCb \notin Posted \cup Range(queue)
  /\ \A c \in Posted \cup Range(queue) \cup ({currentCb} \ {None}) : asks[c] = "asked"

\* Nobody will conclude the challenge being verified: its owner has gone.
Stranded == state = "Verifying" /\ \A c \in Consumers : asks[c] = "solved" => c \in dead

=============================================================================
