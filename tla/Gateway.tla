------------------------------ MODULE Gateway ------------------------------
(***************************************************************************)
(* The main gateway connection (src/Discord/Gateway.cpp) together with the *)
(* slots of Client that turn its signals into the connection state shown   *)
(* to the user (src/Discord/Client.cpp).                                   *)
(*                                                                         *)
(* Four threads share the object: the UI thread (event loop, every handler *)
(* of a payload, start/stop/hardStop), the network thread (networkLoop),   *)
(* the heartbeat thread (heartbeatLoop) and the ingest worker.  One action *)
(* is one stretch of code between two points at which another thread may   *)
(* observe or change the shared atomics.  Signals that cross threads are   *)
(* queued: they go through uiQueue, in order.                              *)
(*                                                                         *)
(* Abstracted: payload contents, sequence numbers and the length of the    *)
(* backoff; connections are anonymous, because no handler looks at which   *)
(* connection a queued payload came from.                                  *)
(***************************************************************************)
EXTENDS Naturals, Sequences

CONSTANTS MaxFaults,   \* bound on the faults injected in a behaviour and on its races, together
          MaxQueue     \* bound on ingestQ and on uiQueue

ASSUME BoundsAssumption == MaxFaults \in Nat /\ MaxQueue \in Nat \ {0}

VARIABLES
  running,         \* Gateway::running
  wantToClose,     \* Gateway::wantToClose
  shouldReconnect, \* Gateway::shouldReconnect
  canResume,       \* Gateway::canResume
  isResuming,      \* Gateway::isResuming
  session,         \* whether Gateway::sessionId is non-empty
  curl,            \* whether the published handle Gateway::curl is non-null
  npc,             \* where the network thread is
  closeSent,       \* networkLoop's local closeSent
  hb,              \* where the heartbeat thread is; "none" = not joinable
  heartbeatAck,    \* Gateway::heartbeatAckReceived
  missed,          \* Gateway::missedHeartbeatAcks
  ingestOn,        \* IngestThread::running
  ingestQ,         \* IngestThread::queue, one entry per payload
  stream,          \* whether the worker holds a zlib context (streamActive)
  ui,              \* where the UI thread is inside a handler; "idle" = event loop
  handshake,       \* what handleHello decided to send; "none" outside it
  uiQueue,         \* events queued to the UI thread, oldest first
  clientState,     \* Client::state
  srvHello,        \* external: the server's HELLO has not been received yet
  srv,             \* external: the server's view of the current connection
  ackDue,          \* external: a heartbeat reached the server, its ACK is due
  races,           \* number of connects between the two halves of a skipped send
  faults           \* number of faults injected so far

flagVars   == <<running, wantToClose, shouldReconnect>>
resumeVars == <<canResume, isResuming, session>>
hbVars     == <<hb, heartbeatAck, missed>>
ingestVars == <<ingestOn, ingestQ, stream>>
uiVars     == <<ui, handshake, uiQueue, clientState>>
srvVars    == <<srvHello, srv, ackDue>>
netVars    == <<curl, npc, closeSent>>
vars == <<flagVars, resumeVars, netVars, hbVars, ingestVars, uiVars, srvVars, races, faults>>

Payload == {"hello", "ready", "resumed", "invalid", "invalidResumable", "reconnect", "ack"}
Signal  == {"decompError", "reconnecting", "fatalClose", "internalClose", "otherClose"}

\* Gateway::isFatalCloseCode splits the close codes; SESSION_NO_LONGER_VALID and
\* INVALID_SEQ are the non-fatal ones that also void the session.
CloseCode == {"fatal", "sessionDead", "other"}

\* The heartbeat thread exists and has not left its loop.
HeartbeatAlive == hb \in {"loop", "send", "recheck", "wait"}

\* One injected fault; every action the environment may refuse to take uses it.
Fault == faults + races < MaxFaults /\ faults' = faults + 1

\* A connect completes between the two halves of a send that was skipped.  The code
\* alone brings this about; it is counted to bound it, apart from the faults.
Race == faults + races < MaxFaults /\ races' = races + 1

\* Client::~Client is running or has run.
Destroying == ui \in {"joinNet", "joinHb", "destroyed"}

\* A queued signal; one posted to an object being destroyed is never delivered.
Post(e) == IF Destroying THEN UNCHANGED uiQueue
           ELSE Len(uiQueue) < MaxQueue /\ uiQueue' = Append(uiQueue, e)

FlagsTypeOK ==
  /\ running \in BOOLEAN /\ wantToClose \in BOOLEAN /\ shouldReconnect \in BOOLEAN
  /\ canResume \in BOOLEAN /\ isResuming \in BOOLEAN /\ session \in BOOLEAN
  /\ curl \in BOOLEAN /\ closeSent \in BOOLEAN /\ heartbeatAck \in BOOLEAN
  /\ ingestOn \in BOOLEAN /\ stream \in BOOLEAN
  /\ srvHello \in BOOLEAN /\ ackDue \in BOOLEAN

ControlTypeOK ==
  /\ npc \in {"none", "top", "connecting", "retryWait", "recv", "cleanup", "check", "clearSession",
              "join", "joining", "reset", "backoff", "while", "tail", "tailJoin", "exited", "joined"}
  /\ hb \in {"none", "loop", "send", "recheck", "wait", "done"}
  /\ ui \in {"idle", "hello", "handshake", "skipped", "failed", "unresume", "spawn",
             "joinNet", "joinHb", "destroyed"}
  /\ handshake \in {"none", "identify", "resume"}
  /\ clientState \in {"Disconnected", "Connecting", "Connected", "Disconnecting"}
  /\ srv \in {"none", "wait", "ready", "resumed", "invalid", "live", "kill", "silent"}

DataTypeOK ==
  /\ missed \in 0..2 /\ faults \in 0..MaxFaults /\ races \in 0..MaxFaults
  /\ ingestQ \in Seq(Payload) /\ uiQueue \in Seq(Payload \cup Signal)

TypeOK == FlagsTypeOK /\ ControlTypeOK /\ DataTypeOK

Init ==
  /\ running = FALSE /\ wantToClose = FALSE /\ shouldReconnect = FALSE
  /\ canResume = FALSE /\ isResuming = FALSE /\ session = FALSE
  /\ curl = FALSE /\ npc = "none" /\ closeSent = FALSE
  /\ hb = "none" /\ heartbeatAck = TRUE /\ missed = 0
  /\ ingestOn = FALSE /\ ingestQ = <<>> /\ stream = FALSE
  /\ ui = "idle" /\ handshake = "none" /\ uiQueue = <<>> /\ clientState = "Disconnected"
  /\ srvHello = FALSE /\ srv = "none" /\ ackDue = FALSE
  /\ races = 0 /\ faults = 0

-----------------------------------------------------------------------------
(* UI thread: calls made by the session.                                   *)

\* Client::start and Gateway::start on a fresh object (Session builds a new
\* Client for every connect, so the restart branch is never taken).
Start ==
  /\ ui = "idle" /\ npc = "none"
  /\ clientState' = "Connecting"
  /\ running' = TRUE /\ wantToClose' = FALSE
  /\ ingestOn' = TRUE
  /\ npc' = "top"
  /\ UNCHANGED <<shouldReconnect, resumeVars, curl, closeSent, hbVars, ingestQ, stream,
                 ui, handshake, uiQueue, srvVars, races, faults>>

\* Client::stop and Gateway::stop: ask for a close handshake, join the ingest
\* worker.  The session forgets a Client as soon as it reports Disconnected.
Stop ==
  /\ ui = "idle" /\ npc # "none" /\ ~wantToClose /\ clientState # "Disconnected"
  /\ clientState' = "Disconnecting"
  /\ wantToClose' = TRUE
  /\ ingestOn' = FALSE
  /\ UNCHANGED <<running, shouldReconnect, resumeVars, netVars, hbVars, ingestQ, stream,
                 ui, handshake, uiQueue, srvVars, races, faults>>

\* The session deletes the Client after stop() or once it reported Disconnected;
\* ~Client runs Gateway::hardStop, which first clears both flags ...
Destroy ==
  /\ ui = "idle" /\ npc # "none"
  /\ wantToClose \/ clientState = "Disconnected"
  /\ shouldReconnect' = FALSE /\ running' = FALSE
  /\ ui' = "joinNet" /\ uiQueue' = <<>>
  /\ UNCHANGED <<wantToClose, resumeVars, netVars, hbVars, ingestVars,
                 handshake, clientState, srvVars, races, faults>>

\* ... then joins the network thread ...
HardStopJoinNetwork ==
  /\ ui = "joinNet" /\ npc = "exited"
  /\ npc' = "joined" /\ ui' = "joinHb"
  /\ UNCHANGED <<flagVars, resumeVars, curl, closeSent, hbVars, ingestVars,
                 handshake, uiQueue, clientState, srvVars, races, faults>>

\* ... then the heartbeat thread, and stops the ingest worker.
HardStopJoinHeartbeat ==
  /\ ui = "joinHb" /\ ~HeartbeatAlive
  /\ hb' = "none" /\ ingestOn' = FALSE
  /\ ui' = "destroyed"
  /\ UNCHANGED <<flagVars, resumeVars, netVars, heartbeatAck, missed, ingestQ, stream,
                 handshake, uiQueue, clientState, srvVars, races, faults>>

-----------------------------------------------------------------------------
(* Sending: Gateway::sendPayload from any thread.                          *)

\* The server's reaction to a handshake payload; a second handshake on one
\* connection makes it close the connection.
SrvOnHandshake(kind) ==
  \/ /\ srv = "wait" /\ kind = "identify" /\ srv' = "ready" /\ UNCHANGED faults
  \/ /\ srv = "wait" /\ kind = "resume" /\ session /\ srv' = "resumed" /\ UNCHANGED faults
  \/ /\ srv = "wait" /\ kind = "resume" /\ session /\ srv' = "invalid" /\ Fault
  \/ /\ srv = "wait" /\ kind = "resume" /\ ~session /\ srv' = "invalid" /\ UNCHANGED faults
  \/ /\ srv \notin {"wait", "silent"} /\ srv' = "kill" /\ UNCHANGED faults
  \/ /\ srv = "silent" /\ UNCHANGED <<srv, faults>>

\* A send that fails: skipped while no handle is published, which is no fault, or
\* an error on a live one.
SendFails == \/ ~curl /\ ui' = "skipped" /\ UNCHANGED faults
             \/ curl /\ ui' = "failed" /\ Fault

\* A payload the user's actions send: presence, guild subscription, member or
\* forum request, voice state.  One that succeeds changes nothing here, and so does
\* a skipped one whose recheck no connect can precede.
UISend ==
  /\ ui = "idle" /\ npc # "none" /\ clientState # "Disconnected"
  /\ curl \/ (npc = "connecting" /\ faults + races < MaxFaults)
  /\ SendFails
  /\ UNCHANGED <<flagVars, resumeVars, netVars, hbVars, ingestVars,
                 handshake, uiQueue, clientState, srvVars, races>>

\* Client repeats the user's presence, if there is one, when a session begins.
RepeatPresence ==
  /\ \/ ui' = "idle" /\ UNCHANGED faults
     \/ SendFails
  /\ UNCHANGED races

\* sendPayload's second critical section: a failed send forces a reconnect if a
\* handle is published by now, even one that was published after it was skipped.
UISendRecheck ==
  /\ ui \in {"skipped", "failed"}
  /\ shouldReconnect' = (shouldReconnect \/ curl)
  /\ ui' = IF handshake = "none" THEN "idle" ELSE "unresume"
  /\ UNCHANGED <<running, wantToClose, resumeVars, netVars, hbVars, ingestVars,
                 handshake, uiQueue, clientState, srvVars, races, faults>>

-----------------------------------------------------------------------------
(* UI thread: Gateway::onPayloadReceived and its handlers.                 *)

Take(e) == ui = "idle" /\ uiQueue # <<>> /\ Head(uiQueue) = e /\ uiQueue' = Tail(uiQueue)

AcceptingWhileRunning == running   \* mutant: the test of wantToClose is lost
Accepting == running /\ ~wantToClose

\* A payload queued before stop() or hardStop() is dropped.
DropPayload ==
  /\ \E p \in Payload : Take(p)
  /\ ~Accepting
  /\ UNCHANGED <<flagVars, resumeVars, netVars, hbVars, ingestVars,
                 ui, handshake, clientState, srvVars, races, faults>>

\* handleHello, first part.
HandleHello ==
  /\ Take("hello") /\ Accepting
  /\ heartbeatAck' = TRUE
  /\ ui' = "hello"
  /\ UNCHANGED <<flagVars, resumeVars, netVars, hb, missed, ingestVars,
                 handshake, clientState, srvVars, races, faults>>

ResumeUnlessAsked == ~isResuming   \* mutant: the test is inverted
ResumeAsked == isResuming /\ canResume

\* handleHello chooses between RESUME and IDENTIFY.
ChooseHandshake ==
  /\ ui = "hello"
  /\ handshake' = IF ResumeAsked THEN "resume" ELSE "identify"
  /\ ui' = "handshake"
  /\ UNCHANGED <<flagVars, resumeVars, netVars, hbVars, ingestVars,
                 uiQueue, clientState, srvVars, races, faults>>

\* resume() or identify() sends on whatever handle is published.
SendHandshake ==
  /\ ui = "handshake"
  /\ \/ curl /\ SrvOnHandshake(handshake) /\ ui' = "unresume"
     \/ SendFails /\ UNCHANGED srv
  /\ UNCHANGED <<flagVars, resumeVars, netVars, hbVars, ingestVars,
                 handshake, uiQueue, clientState, srvHello, ackDue, races>>

ClearResuming ==
  /\ ui = "unresume"
  /\ isResuming' = FALSE
  /\ handshake' = "none" /\ ui' = "spawn"
  /\ UNCHANGED <<flagVars, canResume, session, netVars, hbVars, ingestVars,
                 uiQueue, clientState, srvVars, races, faults>>

\* handleHello starts the heartbeat thread unless one is joinable; it needs
\* heartbeatThreadMutex, which the network thread holds while it joins.
SpawnHeartbeat ==
  /\ ui = "spawn" /\ npc \notin {"joining", "tailJoin"}
  /\ hb' = IF hb = "none" THEN "loop" ELSE hb
  /\ ui' = "idle"
  /\ UNCHANGED <<flagVars, resumeVars, netVars, heartbeatAck, missed, ingestVars,
                 handshake, uiQueue, clientState, srvVars, races, faults>>

\* handleReady, then Client::onGatewayReady.
HandleReady ==
  /\ Take("ready") /\ Accepting
  /\ session' = TRUE /\ canResume' = TRUE
  /\ clientState' = "Connected"
  /\ RepeatPresence
  /\ UNCHANGED <<flagVars, isResuming, netVars, hbVars, ingestVars,
                 handshake, srvVars>>

\* handleResumed, then Client::onGatewayResumed.
HandleResumed ==
  /\ Take("resumed") /\ Accepting
  /\ clientState' = "Connected"
  /\ RepeatPresence
  /\ UNCHANGED <<flagVars, resumeVars, netVars, hbVars, ingestVars,
                 handshake, srvVars>>

\* The opcodes RECONNECT, INVALID_SESSION and HEARTBEAT_ACK.
HandleOpcode ==
  /\ Accepting
  /\ \/ /\ \E p \in {"reconnect", "invalidResumable"} : Take(p)
        /\ shouldReconnect' = TRUE
        /\ UNCHANGED <<canResume, session, heartbeatAck>>
     \/ /\ Take("invalid")
        /\ canResume' = FALSE /\ session' = FALSE /\ shouldReconnect' = TRUE
        /\ UNCHANGED heartbeatAck
     \/ /\ Take("ack")
        /\ heartbeatAck' = TRUE
        /\ UNCHANGED <<canResume, session, shouldReconnect>>
  /\ UNCHANGED <<running, wantToClose, isResuming, netVars, hb, missed, ingestVars,
                 ui, handshake, clientState, srvVars, races, faults>>

\* The queued lambda of decompressionError.
HandleDecompError ==
  /\ Take("decompError")
  /\ shouldReconnect' = TRUE
  /\ UNCHANGED <<running, wantToClose, resumeVars, netVars, hbVars, ingestVars,
                 ui, handshake, clientState, srvVars, races, faults>>

\* Client's slot for Gateway::reconnecting.
HandleReconnecting ==
  /\ Take("reconnecting")
  /\ clientState' = "Connecting"
  /\ UNCHANGED <<flagVars, resumeVars, netVars, hbVars, ingestVars,
                 ui, handshake, srvVars, races, faults>>

\* Client::onDisconnected.
HandleDisconnected ==
  /\ \E e \in {"fatalClose", "internalClose", "otherClose"} :
       /\ Take(e)
       /\ clientState' = IF e # "otherClose" \/ clientState = "Disconnecting"
                         THEN "Disconnected" ELSE clientState
  /\ UNCHANGED <<flagVars, resumeVars, netVars, hbVars, ingestVars,
                 ui, handshake, srvVars, races, faults>>

-----------------------------------------------------------------------------
(* Network thread: Gateway::networkLoop.                                   *)

\* Head of the do-while: forget earlier requests to reconnect.
NetTop ==
  /\ npc = "top"
  /\ shouldReconnect' = FALSE /\ npc' = "connecting"
  /\ UNCHANGED <<running, wantToClose, resumeVars, curl, closeSent, hbVars, ingestVars,
                 uiVars, srvVars, races, faults>>

\* curl_easy_init fails: the loop returns without joining the heartbeat thread.
NetInitFails ==
  /\ npc = "connecting" /\ Fault
  /\ running' = FALSE /\ ingestOn' = FALSE
  /\ Post("internalClose") /\ npc' = "exited"
  /\ UNCHANGED <<wantToClose, shouldReconnect, resumeVars, curl, closeSent, hbVars,
                 ingestQ, stream, ui, handshake, clientState, srvVars, races>>

NetConnectFails ==
  /\ npc = "connecting" /\ Fault
  /\ Post("reconnecting") /\ npc' = "retryWait"
  /\ UNCHANGED <<flagVars, resumeVars, curl, closeSent, hbVars, ingestVars,
                 ui, handshake, clientState, srvVars, races>>

\* The connection is up: publish the handle; the server owes a HELLO.  Somebody
\* may be between the two halves of sendPayload.
NetConnected ==
  /\ npc = "connecting"
  /\ IF ui = "skipped" \/ hb = "recheck" THEN Race ELSE UNCHANGED races
  /\ curl' = TRUE /\ closeSent' = FALSE /\ npc' = "recv"
  /\ srvHello' = TRUE /\ srv' = "wait" /\ ackDue' = FALSE
  /\ UNCHANGED <<flagVars, resumeVars, hbVars, ingestVars, uiVars, faults>>

\* waitInterruptible after a failed connect; `continue` goes to the loop's test.
NetRetryWait ==
  /\ npc = "retryWait"
  /\ \/ Accepting /\ shouldReconnect' = TRUE /\ npc' = "while"
     \/ ~Accepting /\ npc' = "tail" /\ UNCHANGED shouldReconnect
  /\ UNCHANGED <<running, wantToClose, resumeVars, curl, closeSent, hbVars, ingestVars,
                 uiVars, srvVars, races, faults>>

\* The receive loop's two tests.
NetLeaveRecv ==
  /\ npc = "recv" /\ (~running \/ shouldReconnect)
  /\ npc' = "cleanup"
  /\ UNCHANGED <<flagVars, resumeVars, curl, closeSent, hbVars, ingestVars,
                 uiVars, srvVars, races, faults>>

Receiving == npc = "recv" /\ running /\ ~shouldReconnect

\* stop() was called: send the close frame once.
NetSendClose ==
  /\ Receiving /\ wantToClose /\ ~closeSent
  /\ closeSent' = TRUE
  /\ UNCHANGED <<flagVars, resumeVars, curl, npc, hbVars, ingestVars,
                 uiVars, srvVars, races, faults>>

NetCloseTimeout ==
  /\ Receiving /\ closeSent
  /\ running' = FALSE
  /\ Post("internalClose") /\ npc' = "cleanup"
  /\ UNCHANGED <<wantToClose, shouldReconnect, resumeVars, curl, closeSent, hbVars,
                 ingestVars, ui, handshake, clientState, srvVars, races, faults>>

MayReconnectIfReady == ~wantToClose /\ canResume   \* mutant: only after a READY
MayReconnect == ~wantToClose

\* recv reports a dead socket (GOT_NOTHING or an error).
NetDeadSocket ==
  /\ Receiving /\ Fault
  /\ shouldReconnect' = MayReconnect
  /\ IF wantToClose THEN Post("internalClose") ELSE UNCHANGED uiQueue
  /\ npc' = "cleanup"
  /\ UNCHANGED <<running, wantToClose, resumeVars, curl, closeSent, hbVars, ingestVars,
                 ui, handshake, clientState, srvVars, races>>

\* A close frame: unprovoked, in answer to ours, or because of a protocol error.
NetCloseFrame(code) ==
  /\ Receiving
  /\ \/ code = "other" /\ (closeSent \/ srv = "kill") /\ UNCHANGED faults
     \/ Fault
  /\ Post(IF code = "fatal" THEN "fatalClose" ELSE "otherClose")
  /\ canResume' = (canResume /\ code # "sessionDead")
  /\ npc' = IF code = "sessionDead" THEN "clearSession" ELSE "cleanup"
  /\ shouldReconnect' = (code = "other" /\ MayReconnect)
  /\ UNCHANGED <<running, wantToClose, isResuming, session, curl, closeSent, hbVars,
                 ingestVars, ui, handshake, clientState, srvVars, races>>

\* The rest of the handling of codes 4006 and 4007, under sessionMutex.
NetClearSession ==
  /\ npc = "clearSession"
  /\ session' = FALSE
  /\ shouldReconnect' = (shouldReconnect \/ MayReconnect)
  /\ npc' = "cleanup"
  /\ UNCHANGED <<running, wantToClose, canResume, isResuming, curl, closeSent, hbVars,
                 ingestVars, uiVars, srvVars, races, faults>>

\* IngestThread::push; a stopped worker never reads the queue again.
Push(p) == IF ingestOn THEN Len(ingestQ) < MaxQueue /\ ingestQ' = Append(ingestQ, p)
           ELSE UNCHANGED ingestQ

\* A data frame arrives: first HELLO, then the answer to the handshake and the
\* ACKs of heartbeats; RECONNECT and a resumable INVALID_SESSION unprovoked.
NetData ==
  /\ Receiving
  /\ \/ /\ srvHello /\ srvHello' = FALSE /\ Push("hello")
        /\ UNCHANGED <<srv, ackDue, faults>>
     \/ /\ ~srvHello /\ srv \in {"ready", "resumed"} /\ srv' = "live" /\ Push(srv)
        /\ UNCHANGED <<srvHello, ackDue, faults>>
     \/ /\ ~srvHello /\ srv = "invalid" /\ srv' = "wait" /\ Push("invalid")
        /\ UNCHANGED <<srvHello, ackDue, faults>>
     \/ /\ ~srvHello /\ ackDue /\ ackDue' = FALSE /\ Push("ack")
        /\ UNCHANGED <<srvHello, srv, faults>>
     \/ /\ ~srvHello /\ srv = "live" /\ Fault
        /\ \E p \in {"reconnect", "invalidResumable"} : Push(p)
        /\ UNCHANGED <<srvHello, srv, ackDue>>
  /\ UNCHANGED <<flagVars, resumeVars, netVars, hbVars, ingestOn, stream, uiVars, races>>

\* The cleanup after the receive loop takes the handle away under curlMutex; the
\* loop's local closeSent ends with it.
NetCleanup ==
  /\ npc = "cleanup"
  /\ curl' = FALSE /\ closeSent' = FALSE /\ npc' = "check"
  /\ srvHello' = FALSE /\ srv' = "none" /\ ackDue' = FALSE
  /\ UNCHANGED <<flagVars, resumeVars, hbVars, ingestVars, uiVars, races, faults>>

\* `if (shouldReconnect && running)`, then the snapshot of canResume.
NetCheck ==
  /\ npc = "check"
  /\ \/ shouldReconnect /\ running /\ isResuming' = canResume /\ npc' = "join"
     \/ ~(shouldReconnect /\ running) /\ npc' = "while" /\ UNCHANGED isResuming
  /\ UNCHANGED <<flagVars, canResume, session, curl, closeSent, hbVars, ingestVars,
                 uiVars, srvVars, races, faults>>

\* mutant: the tail leaves running set, so the heartbeat thread goes on
NetLockRunning ==
  /\ npc \in {"join", "tail"} /\ npc' = IF npc = "join" THEN "joining" ELSE "tailJoin"
  /\ UNCHANGED <<flagVars, resumeVars, curl, closeSent, hbVars, ingestVars,
                 uiVars, srvVars, races, faults>>

\* Take heartbeatThreadMutex, here and in the loop's tail.
NetLockHeartbeat ==
  /\ \/ npc = "join" /\ npc' = "joining" /\ UNCHANGED running
     \/ npc = "tail" /\ npc' = "tailJoin" /\ running' = FALSE
  /\ UNCHANGED <<wantToClose, shouldReconnect, resumeVars, curl, closeSent, hbVars,
                 ingestVars, uiVars, srvVars, races, faults>>

\* heartbeatThread.join(), then release the mutex; the tail also stops ingest.
NetJoinHeartbeat ==
  /\ npc \in {"joining", "tailJoin"} /\ ~HeartbeatAlive
  /\ hb' = "none"
  /\ npc' = IF npc = "joining" THEN "reset" ELSE "exited"
  /\ ingestOn' = (ingestOn /\ npc = "joining")
  /\ UNCHANGED <<flagVars, resumeVars, curl, closeSent, heartbeatAck, missed,
                 ingestQ, stream, uiVars, srvVars, races, faults>>

\* IngestThread::reset, then announce the reconnect.
NetReset ==
  /\ npc = "reset"
  /\ ingestQ' = <<>> /\ stream' = FALSE
  /\ Post("reconnecting") /\ npc' = "backoff"
  /\ UNCHANGED <<flagVars, resumeVars, curl, closeSent, hbVars, ingestOn,
                 ui, handshake, clientState, srvVars, races, faults>>

NetBackoff ==
  /\ npc = "backoff"
  /\ \/ Accepting /\ npc' = "while" /\ UNCHANGED shouldReconnect
     \/ ~Accepting /\ npc' = "tail" /\ shouldReconnect' = FALSE
  /\ UNCHANGED <<running, wantToClose, resumeVars, curl, closeSent, hbVars, ingestVars,
                 uiVars, srvVars, races, faults>>

\* `while (shouldReconnect && running)`.
NetWhile ==
  /\ npc = "while"
  /\ npc' = IF shouldReconnect /\ running THEN "top" ELSE "tail"
  /\ UNCHANGED <<flagVars, resumeVars, curl, closeSent, hbVars, ingestVars,
                 uiVars, srvVars, races, faults>>

-----------------------------------------------------------------------------
(* Heartbeat thread: Gateway::heartbeatLoop.                               *)

ZombieLimit == 2           \* maxMissedHeartbeatAcks

OneMoreMissed == IF missed < ZombieLimit THEN missed + 1 ELSE ZombieLimit

\* The limit test comes before the beat is sent; missed counts up to the limit.
HbBeat ==
  /\ hb = "loop"
  /\ \/ /\ ~running /\ hb' = "done"
        /\ UNCHANGED <<heartbeatAck, missed, shouldReconnect>>
     \/ /\ running /\ heartbeatAck
        /\ heartbeatAck' = FALSE /\ missed' = 0 /\ hb' = "send"
        /\ UNCHANGED shouldReconnect
     \/ /\ running /\ ~heartbeatAck
        /\ missed' = OneMoreMissed
        /\ IF OneMoreMissed = ZombieLimit
             THEN hb' = "done" /\ shouldReconnect' = TRUE
             ELSE hb' = "send" /\ UNCHANGED shouldReconnect
        /\ UNCHANGED heartbeatAck
  /\ UNCHANGED <<running, wantToClose, resumeVars, netVars, ingestVars,
                 uiVars, srvVars, races, faults>>

\* sendPayload of the heartbeat.
HbSend ==
  /\ hb = "send"
  /\ \/ curl /\ hb' = "wait" /\ ackDue' = (srv # "silent") /\ UNCHANGED faults
     \/ curl /\ hb' = "recheck" /\ Fault /\ UNCHANGED ackDue
     \/ ~curl /\ hb' = "recheck" /\ UNCHANGED <<ackDue, faults>>
  /\ UNCHANGED <<flagVars, resumeVars, netVars, heartbeatAck, missed, ingestVars,
                 uiVars, srvHello, srv, races>>

HbRecheck ==
  /\ hb = "recheck"
  /\ shouldReconnect' = (shouldReconnect \/ curl) /\ hb' = "wait"
  /\ UNCHANGED <<running, wantToClose, resumeVars, netVars, heartbeatAck, missed,
                 ingestVars, uiVars, srvVars, races, faults>>

\* mutant: only an ACK ends the wait
HbWaitForAck ==
  /\ hb = "wait" /\ heartbeatAck /\ hb' = "loop"
  /\ UNCHANGED <<flagVars, resumeVars, netVars, heartbeatAck, missed, ingestVars,
                 uiVars, srvVars, races, faults>>

\* The wait for the next beat.  An ACK that takes longer than the interval is a
\* fault, except when the server is silent: then none will come.
HbWait ==
  /\ hb = "wait"
  /\ \/ (~running \/ shouldReconnect) /\ hb' = "done" /\ UNCHANGED faults
     \/ /\ running /\ ~shouldReconnect /\ hb' = "loop"
        /\ IF heartbeatAck \/ srv = "silent" THEN UNCHANGED faults ELSE Fault
  /\ UNCHANGED <<flagVars, resumeVars, netVars, heartbeatAck, missed, ingestVars,
                 uiVars, srvVars, races>>

-----------------------------------------------------------------------------
(* Ingest worker: IngestThread::threadLoop.                                *)

\* A payload inflates in the context its connection started: the first one opens
\* the stream, and any other needs the stream to be open.
Inflates(p) == stream <=> (p # "hello")

\* The worker takes the oldest chunk, inflates it, sets the ACK flag itself and queues
\* the payload to the UI thread.  One step: what the UI thread is handed is the same
\* whenever it is queued, and a reset() in between only puts it behind "reconnecting".
Ingest ==
  /\ ingestOn /\ ingestQ # <<>>
  /\ ingestQ' = Tail(ingestQ)
  /\ \/ /\ Inflates(Head(ingestQ)) /\ stream' = TRUE /\ Post(Head(ingestQ))
        /\ heartbeatAck' = (heartbeatAck \/ Head(ingestQ) = "ack")
        /\ UNCHANGED faults
     \* The segment is damaged, or a chunk before it was dropped.
     \/ /\ IF Inflates(Head(ingestQ)) THEN Fault ELSE UNCHANGED faults
        /\ stream' = FALSE /\ Post("decompError")
        /\ UNCHANGED heartbeatAck
  /\ UNCHANGED <<flagVars, resumeVars, netVars, hb, missed, ingestOn,
                 ui, handshake, clientState, srvVars, races>>

-----------------------------------------------------------------------------
\* external: the peer stops answering without closing the connection.
SrvFallsSilent ==
  /\ curl /\ srv # "silent" /\ Fault
  /\ srv' = "silent" /\ srvHello' = FALSE /\ ackDue' = FALSE
  /\ UNCHANGED <<flagVars, resumeVars, netVars, hbVars, ingestVars, uiVars, races>>

Destroyed == ui = "destroyed" /\ UNCHANGED vars

User == Start \/ Stop \/ Destroy \/ UISend
HardStop == HardStopJoinNetwork \/ HardStopJoinHeartbeat
UIStep == UISendRecheck \/ ChooseHandshake \/ SendHandshake \/ ClearResuming \/ SpawnHeartbeat
UIEvent ==
  \/ DropPayload \/ HandleHello \/ HandleReady \/ HandleResumed \/ HandleOpcode
  \/ HandleDecompError \/ HandleReconnecting \/ HandleDisconnected
NetStep ==
  \/ NetTop \/ NetConnected \/ NetRetryWait \/ NetLeaveRecv \/ NetSendClose
  \/ NetClearSession \/ NetCleanup \/ NetCheck \/ NetLockHeartbeat \/ NetJoinHeartbeat
  \/ NetReset \/ NetBackoff \/ NetWhile
NetFrame == NetData \/ \E code \in CloseCode : NetCloseFrame(code)
NetFault == NetInitFails \/ NetConnectFails \/ NetDeadSocket \/ SrvFallsSilent
HbStep == HbBeat \/ HbSend \/ HbRecheck \/ HbWait

Next == User \/ HardStop \/ UIStep \/ UIEvent \/ NetStep \/ NetFrame \/ NetCloseTimeout \/ NetFault
        \/ HbStep \/ Ingest \/ Destroyed

Spec == Init /\ [][Next]_vars

\* Threads keep running and timers fire; nothing forces a fault or a user's call.
\* The event loop serves the queue although the user keeps it busy, and the
\* server's answers and close frames get through although ACKs compete with them.
Reliably(A) == A /\ UNCHANGED faults
Fairness ==
  /\ WF_vars(Reliably(HardStop \/ UIStep)) /\ SF_vars(UIEvent)
  /\ WF_vars(Reliably(NetStep)) /\ WF_vars(NetCloseTimeout)
  /\ SF_vars(Reliably(NetCloseFrame("other")) /\ srv = "kill")
  /\ WF_vars(Reliably(NetData)) /\ SF_vars(Reliably(NetData) /\ srv' # srv)
  /\ WF_vars(Reliably(HbStep)) /\ WF_vars(Reliably(Ingest))

FairSpec == Spec /\ Fairness

-----------------------------------------------------------------------------
\* Once the user asked to stop, no payload still queued or in flight turns the
\* account back to Connected (the drop in onPayloadReceived).
NeverConnectedAfterStop == wantToClose => clientState # "Connected"

\* Undisturbed, the threads talk each other into a reconnect in one way only: a send
\* skipped for want of a handle rechecks after the connect has published one.  No
\* spurious zombie, decompression error or refused handshake, in whatever order.
NoSpontaneousReconnect == faults = 0 /\ races = 0 => ~shouldReconnect

\* When ~Client returns, no thread of the gateway is left to touch the freed
\* object, although HELLO may have started a heartbeat after the loop's tail.
JoinedOnDestroy == ui = "destroyed" => npc = "joined" /\ hb = "none" /\ ~ingestOn

\* After every failed or lost connection the client gets back to Connected unless
\* it is stopped, the loss was fatal, or the server accepts and falls silent.
Recovers ==
  clientState = "Connecting" ~>
    (clientState \in {"Connected", "Disconnected"} \/ wantToClose \/ Destroying \/ srv = "silent")

\* A connection whose server stopped answering is given up, as long as its
\* heartbeat thread is alive (zombie detection).
ZombieDetected == (srv = "silent" /\ HeartbeatAlive) ~> srv # "silent"

\* What stop() and ~Client promise: no account connected and no thread left afterwards.
Inv == TypeOK /\ NeverConnectedAfterStop /\ JoinedOnDestroy

\* Neither stop() nor ~Client waits for ever: after either the network thread ends
\* and no join is left under way, whatever the server does.
JoinsReturn ==
  (wantToClose \/ ui = "joinNet") ~>
    (npc \in {"exited", "joined"} /\ ui \notin {"joinNet", "joinHb"})

=============================================================================
