----------------------------- MODULE RemoteAuth -----------------------------
(***************************************************************************)
(* The QR login (src/Discord/RemoteAuthClient.cpp, UI/Dialogs/QRLoginDialog): *)
(* a socket with a network and a heartbeat thread, the HTTP thread that       *)
(* exchanges the ticket for a token, and the captcha dialog it shares with    *)
(* the accounts' requests.  One dialog, opened and closed once.              *)
(*                                                                         *)
(* What the threads post to the client is dropped with it; the HTTP answer    *)
(* is posted to the application and looks for the client itself.  The phone,  *)
(* the server and the network are the environment.  done is Login \in dead.  *)
(***************************************************************************)
EXTENDS CaptchaResolver

VARIABLES
  ui,       \* the dialog's client: new, open, inside stop(), or gone
  running,  \* RemoteAuthClient::running
  curl,     \* the socket's handle is there
  npc,      \* the network thread
  hb,       \* the heartbeat thread
  http,     \* the HTTP thread: none, posting, or finished and not joined
  timer,    \* the timer of timeout_ms runs
  ended,    \* the signal the client ended with
  stage     \* how far the server is in its exchange with the client and the phone

authVars == <<ui, running, curl, npc, hb, http, timer, ended, stage>>
loginVars == <<resolverVars, authVars>>
threads == <<curl, npc, hb>>
login == <<ui, running, threads, timer, stage>>

\* The client has ended, or is being deleted.
done == Login \in dead

\* What the server sends at each stage; it waits for the client's answer at the others.
\* "shown" is pending_remote_init and pending_ticket, which change the dialog alone; "bad"
\* is a message that does not decrypt or does not match the key.
Messages(k) ==
  CASE k = 0 -> {"hello"} [] k = 2 -> {"nonce_proof", "bad"} [] k = 4 -> {"shown", "bad"}
    [] k = 5 -> {"pending_login", "cancel"} [] OTHER -> {}

\* What the exchange of the ticket may be answered with.
Answers == {"token", "challenge", "error"}

LoginTypeOK ==
  /\ ResolverTypeOK
  /\ mail \in Seq({<<"fail", "">>} \cup ({"resolve"} \X Consumers) \cup ({"conclude"} \X (0..generation))
                 \cup ({"message"} \X UNION {Messages(k) : k \in 0..5}) \cup ({"answer"} \X Answers))
  /\ ui \in {"new", "open", "stopping", "gone"} /\ running \in BOOLEAN /\ curl \in BOOLEAN
  /\ npc \in {"none", "connect", "recv", "tail", "close", "exited"}
  /\ hb \in {"none", "wait", "exited"} /\ http \in {"none", "posting", "finished"}
  /\ timer \in BOOLEAN /\ ended \in {"no", "authenticated", "failed", "canceled"} /\ stage \in 0..6

LoginInit ==
  /\ ResolverInit
  /\ ui = "new" /\ running = FALSE /\ curl = FALSE /\ npc = "none" /\ hb = "none" /\ http = "none"
  /\ timer = FALSE /\ ended = "no" /\ stage = 0

\* mutant: the end is not remembered
EndWith(e) == ended' = e /\ UNCHANGED dead

\* fail, succeed and cancel: the first one counts.
End(e) == IF done THEN UNCHANGED <<ended, dead>> ELSE ended' = e /\ dead' = dead \cup {Login}

-----------------------------------------------------------------------------
(* The UI thread: QRLoginDialog and the client's life.                       *)

\* start(), by showEvent.  No key can be made in one of its outcomes.
Start ==
  /\ ui = "new" /\ ui' = "open"
  /\ \/ running' = TRUE /\ npc' = "connect" /\ UNCHANGED <<ended, dead>>
     \/ End("failed") /\ UNCHANGED <<running, npc>>
  /\ UNCHANGED <<dialog, mail, asks, attempts, curl, hb, http, timer, stage>>

\* The dialog is gone and deletes its client: ~RemoteAuthClient runs stop().  The user
\* cannot close it under a captcha dialog, and no message box may be below it on the stack.
Close ==
  /\ ui = "open" /\ boxes = <<>> /\ (modal => ended = "authenticated")
  /\ ui' = IF running THEN "stopping" ELSE "gone"
  /\ running' = FALSE /\ dead' = dead \cup {Login}
  /\ UNCHANGED <<dialog, mail, asks, attempts, threads, http, timer, ended, stage>>

\* The joins of stop(); the HTTP thread is detached.
Joined == npc \in {"none", "exited"} /\ hb \in {"none", "exited"}

\* The calls queued to the application, without those to the client.
Remaining(events) ==
  LET rest[k \in 0..Len(events)] ==
        IF k = 0 THEN <<>>
        ELSE IF events[k][1] \in {"message", "fail"} THEN rest[k - 1] ELSE Append(rest[k - 1], events[k])
  IN rest[Len(events)]

\* stop() returns, and what was posted to the client is dropped.
Deleted ==
  /\ ui = "stopping" /\ Joined /\ ui' = "gone"
  /\ mail' = Remaining(mail) /\ timer' = FALSE
  /\ UNCHANGED <<dialog, asks, attempts, dead, running, threads, http, ended, stage>>

OnFail ==
  /\ Received("fail") /\ End("failed")
  /\ UNCHANGED <<dialog, asks, attempts, ui, running, threads, http, timer, stage>>

Timeout ==
  /\ timer /\ ui = "open" /\ timer' = FALSE /\ End("failed")
  /\ UNCHANGED <<dialog, mail, asks, attempts, ui, running, threads, http, stage>>

-----------------------------------------------------------------------------
(* The socket's messages, on the UI thread.                                  *)

\* handleHello: the heartbeat thread, the timer, and the key.
Hello ==
  /\ hb' = IF hb = "none" THEN "wait" ELSE hb
  /\ timer' \in BOOLEAN
  /\ stage' = IF curl THEN 2 ELSE stage
  /\ UNCHANGED <<http, ended, dead>>

\* handleNonceProof answers with the proof.
NonceProof == stage' = (IF curl THEN 4 ELSE stage) /\ UNCHANGED <<hb, http, timer, ended, dead>>

\* handlePendingLogin, postLogin: one exchange at a time.
PendingLogin == http' = (IF http = "none" THEN "posting" ELSE http) /\ UNCHANGED <<hb, timer, stage, ended, dead>>

\* handleMessage.
OnMessage ==
  /\ Received("message")
  /\ LET m == Head(mail)[2] IN
     \/ (done \/ m = "shown") /\ UNCHANGED <<hb, http, timer, stage, ended, dead>>
     \/ ~done /\ m = "hello" /\ Hello
     \/ ~done /\ m = "nonce_proof" /\ NonceProof
     \/ ~done /\ m = "pending_login" /\ PendingLogin
     \/ ~done /\ m = "cancel" /\ End("canceled") /\ UNCHANGED <<hb, http, timer, stage>>
     \/ ~done /\ m = "bad" /\ End("failed") /\ UNCHANGED <<hb, http, timer, stage>>
  /\ UNCHANGED <<dialog, asks, attempts, ui, running, curl, npc>>

-----------------------------------------------------------------------------
(* The exchange of the ticket.                                               *)

\* curl_easy_perform returns; with the client gone the detached thread ends the same way.
HttpDone ==
  /\ http = "posting" /\ http' = "finished"
  /\ \E r \in Answers : Post(<<"answer", r>>)
  /\ UNCHANGED <<dialog, asks, attempts, dead, ui, running, threads, timer, ended, stage>>

\* The answer: the next challenge, or an end.  A token may not decrypt.
OnAnswer ==
  /\ mail # <<>> /\ Head(mail)[1] = "answer"
  /\ LET r == Head(mail)[2] IN
     \/ done /\ mail' = Tail(mail) /\ UNCHANGED <<asks, ended, dead>>
     \/ /\ ~done /\ r = "challenge" /\ MayAsk(Login)
        /\ mail' = Append(Tail(mail), <<"resolve", Login>>) /\ asks' = [asks EXCEPT ![Login] = "asked"]
        /\ UNCHANGED <<ended, dead>>
     \/ /\ ~done /\ ~(r = "challenge" /\ MayAsk(Login))
        /\ mail' = Tail(mail) \o (IF attempts[Login] > 0 THEN <<<<"conclude", generation>>>> ELSE <<>>)
        /\ asks' = [asks EXCEPT ![Login] = "ended"]
        /\ End("failed") \/ (r = "token" /\ End("authenticated"))
  /\ UNCHANGED <<dialog, attempts, login, http>>

\* postLogin joins the thread that has posted its answer.
PostAgain == http' = "posting"

\* The login's callback: a solution is posted with the ticket, a refusal ends the login.
LoginCalled ==
  \/ asks'[Login] = asks[Login] /\ UNCHANGED <<http, ended, dead>>
  \/ /\ asks'[Login] # asks[Login]
     /\ \/ asks'[Login] = "solved" /\ PostAgain /\ UNCHANGED <<ended, dead>>
        \/ asks'[Login] = "denied" /\ End("failed") /\ UNCHANGED http

CaptchaQueued == (OnResolve \/ OnConcluded) /\ LoginCalled /\ UNCHANGED login
CaptchaUser == (DeliverSolution \/ CancelCurrent \/ CloseBox) /\ LoginCalled /\ UNCHANGED login
CaptchaExpires == TimesOut /\ LoginCalled /\ UNCHANGED login

-----------------------------------------------------------------------------
(* The network thread: networkLoop.                                          *)

ToClient(e) == Post(e) /\ UNCHANGED <<dialog, asks, attempts, dead>>
Quietly == UNCHANGED resolverVars

\* curl_easy_init and the connection, which stop() aborts.
NetConnect ==
  /\ npc = "connect"
  /\ \/ npc' = "recv" /\ curl' = TRUE /\ Quietly
     \/ npc' = "exited" /\ ToClient(<<"fail", "">>) /\ UNCHANGED curl
     \/ ~running /\ npc' = "exited" /\ Quietly /\ UNCHANGED curl
  /\ UNCHANGED <<ui, running, hb, http, timer, ended, stage>>

\* A message of the server is posted to the UI thread.
NetMessage ==
  /\ npc = "recv"
  /\ \E m \in Messages(stage) :
       ToClient(<<"message", m>>) /\ stage' = IF m \in {"bad", "cancel"} THEN 6 ELSE stage + 1
  /\ UNCHANGED <<ui, running, threads, http, timer, ended>>

\* An error or a close code from 4000 is told at once, another close code is not.
NetClosed ==
  /\ npc = "recv" /\ npc' = "tail" /\ (Quietly \/ ToClient(<<"fail", "">>))
  /\ UNCHANGED <<ui, running, curl, hb, http, timer, ended, stage>>

\* The loop's condition.
LoopEnds == ~running

NetStopped ==
  /\ npc = "recv" /\ LoopEnds /\ npc' = "tail"
  /\ Quietly /\ UNCHANGED <<ui, running, curl, hb, http, timer, ended, stage>>

\* mutant: only the errors are told
TellsNoClose == Quietly

\* Whatever ended the loop, a login that has not ended fails.
TellsClose == IF done THEN Quietly ELSE ToClient(<<"fail", "">>)

NetTail ==
  /\ npc = "tail" /\ npc' = "close" /\ TellsClose
  /\ UNCHANGED <<ui, running, curl, hb, http, timer, ended, stage>>

\* The handle is freed.  The wake-up that follows finds the heartbeat's predicate false.
NetClose ==
  /\ npc = "close" /\ npc' = "exited" /\ curl' = FALSE
  /\ Quietly /\ UNCHANGED <<ui, running, hb, http, timer, ended, stage>>

-----------------------------------------------------------------------------
(* The heartbeat thread: heartbeatLoop.                                      *)

\* The socket is still there to send on.
SocketThere == curl

\* After an interval, or at once for stop(), the thread looks at running and at the
\* socket, both of which go for good; a heartbeat that is sent changes nothing here.
HbWait ==
  /\ hb = "wait" /\ ~(running /\ SocketThere) /\ hb' = "exited"
  /\ Quietly /\ UNCHANGED <<ui, running, curl, npc, http, timer, ended, stage>>

-----------------------------------------------------------------------------
\* What the UI thread's event loop does, which stop() blocks.
Mail == OnFail \/ OnMessage \/ OnAnswer \/ CaptchaQueued
EventLoop == Mail \/ CaptchaUser \/ (RequestStep /\ UNCHANGED authVars)

LoginNext ==
  \/ Start \/ Close \/ Deleted \/ Timeout \/ HttpDone \/ (ui # "stopping" /\ EventLoop)
  \/ NetConnect \/ NetMessage \/ NetClosed \/ NetStopped \/ NetTail \/ NetClose
  \/ HbWait

LoginSpec == LoginInit /\ [][LoginNext]_loginVars

\* Threads run, waits and transfers have time limits, and the event loop handles what is
\* posted.  The user, the phone and the server need not do anything.
LoginFairSpec ==
  /\ LoginSpec
  /\ WF_loginVars(Deleted) /\ WF_loginVars(Timeout) /\ WF_loginVars(HttpDone)
  /\ WF_loginVars(NetConnect) /\ WF_loginVars(NetStopped) /\ WF_loginVars(NetTail \/ NetClose)
  /\ WF_loginVars(HbWait)
  /\ WF_loginVars(ui # "stopping" /\ Mail) /\ WF_loginVars(ui # "stopping" /\ CaptchaExpires)
  /\ \A c \in Callers : WF_loginVars(ui # "stopping" /\ asks[c] = "solved" /\ c \notin dead
                                  /\ (Challenged(c) \/ Concluded(c)) /\ UNCHANGED authVars)

-----------------------------------------------------------------------------
\* ~RemoteAuthClient leaves no thread that uses the object.
NoThreadLeft == ui = "gone" => npc \in {"none", "exited"} /\ hb \in {"none", "exited"}

\* While the login goes on, the answer of its finished HTTP thread is still to come, or
\* the login waits for a captcha: the exchange is never forgotten.
ExchangeHeld ==
  http = "finished" /\ ~done => asks[Login] = "asked" \/ \E i \in DOMAIN mail : mail[i][1] = "answer"

\* Whoever asked for a captcha waits in the queue or is the one shown, unless another
\* challenge came while the message box of his was open: overtaken names the callbacks
\* that startNext's nested event loop overwrote, which nobody will call.
NobodyForgotten ==
  \A c \in Consumers \ dead :
    asks[c] = "asked" => c \in Posted \cup Range(queue) \cup {currentCb} \cup overtaken

\* The dialog hears of one end of the login, and of none when the client is deleted.
EndsOnce == [][ended' # ended => ended = "no" /\ ui # "stopping" /\ ui' # "gone"]_loginVars

\* A closed socket, and a HELLO with a time limit, end the login at last: the dialog never
\* hangs on a server that has gone.
EndHeard == (timer \/ npc = "exited") ~> done

\* Closing the dialog always comes to an end, in every phase of the login.
CloseReturns == ui = "stopping" ~> ui = "gone"

\* The heartbeat thread does not outlive its socket until the dialog is closed.
HeartbeatEnds == (npc = "exited" /\ hb # "none") ~> hb = "exited"

\* A captcha that is asked for is solved or refused (CaptchaResolver.hpp:66, "cb is invoked
\* once").  The exceptions: whoever asked has gone; the dialog is left to nobody by a
\* consumer that has gone; the user leaves a message box open; and the code's own, a
\* callback overwritten by startNext while the message box of its challenge is open
\* (BrowserCaptchaResolver.cpp:167-177), which is never called.  That one stays within
\* its bounds: only the owner of the topmost message box can lose his callback.
CaptchaAnswered ==
  /\ \A c \in Consumers :
       asks[c] = "asked" ~> (asks[c] # "asked" \/ c \in dead \cup overtaken \/ Stranded \/ boxes # <<>>)
  /\ [][\A c \in overtaken' \ overtaken : boxes # <<>> /\ c = Last(boxes)]_loginVars

\* Every thread, exchange and caller of the login is accounted for.
LoginHeld == LoginTypeOK /\ CallbackOnce /\ NoThreadLeft /\ ExchangeHeld /\ NobodyForgotten

\* A login ends: for its dialog when the socket has gone, for the user who closes the
\* dialog, and for the threads with their socket.
LoginEnds == EndHeard /\ CloseReturns /\ HeartbeatEnds

=============================================================================
