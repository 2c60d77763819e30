---------------------------- MODULE VoiceClient ----------------------------
(***************************************************************************)
(* One voice call's connection: VoiceGateway (its network and heartbeat    *)
(* threads) and the VoiceClient that owns it and lives on the voice        *)
(* thread (src/Discord/AV/VoiceGateway.cpp, VoiceClient.cpp,               *)
(* UdpTransport.cpp).  What the network thread reports is queued to the    *)
(* voice thread and handled later, whatever the connection has become.     *)
(*                                                                         *)
(* Abstracted: payload contents, the length of waits, speaking, the users  *)
(* of the call, RTP and DAVE.  VoiceGateway::stop has no caller, so        *)
(* wantToClose is always false and is left out, with the code it guards.   *)
(***************************************************************************)
EXTENDS Naturals, Sequences, SequencesExt

CONSTANTS MaxAttempts,   \* VoiceGateway::maxReconnectAttempts
          MaxFaults,     \* environment bound: faults other than failed connects
          MaxQueue       \* bound on q

ASSUME VoiceClientAssumption == MaxAttempts \in Nat /\ MaxFaults \in Nat /\ MaxQueue \in Nat \ {0}

VARIABLES
  gw,        \* VoiceGateway's atomics
  npc,       \* where the network thread is
  hb,        \* the heartbeat thread; "none" = not joinable, "done" = returned
  vpc,       \* where the voice thread is inside a call that others interleave with
  q,         \* events queued to the voice thread, oldest first
  vc,        \* VoiceClient's fields
  srv,       \* external: the voice server's view of the current connection
  wire,      \* external: frames of the server that were not received yet
  resumable, \* external: the server still holds the voice session
  keyed,     \* external: the client has the key of the server's voice session
  late,      \* history: a HELLO, READY or RESUMED was handled when its connection was lost
  faults     \* number of faults injected so far

netVars == <<gw, npc>>
srvVars == <<srv, wire, resumable, keyed>>
vars == <<gw, npc, hb, vpc, q, vc, srvVars, late, faults>>

Payload == {"HELLO", "READY", "RESUMED", "DESCRIPTION", "ACK"}
CloseCode == {"fatal", "invalid", "other"}
States == {"Disconnected", "Connecting", "Identifying", "DiscoveringIP", "WaitingForSession",
           "Connected"}

TypeOK ==
  /\ gw \in [running : BOOLEAN, shouldReconnect : BOOLEAN, canResume : BOOLEAN,
             isResuming : BOOLEAN, reconnectAttempts : 0..MaxAttempts, ack : BOOLEAN]
  /\ npc \in {"none", "top", "connecting", "retry", "recv", "check", "join", "while",
              "ending", "tail", "done"}
  /\ hb \in {"none", "wait", "done"}
  /\ vpc \in {"loop", "spawn", "joinNet", "joinHb", "crashed", "destroyed"}
  /\ q \in Seq(Payload \cup {"connected", "disconnected", "delete"})
  /\ vc \in [state : States, gateway : {"none", "live", "orphan", "gone"}, ssrc : BOOLEAN,
             udp : {"none", "asking", "bound"}, encryption : BOOLEAN,
             told : BOOLEAN, asked : BOOLEAN]
  /\ srv \in {"none", "open", "session", "closed", "silent"} /\ wire \in Seq(Payload \cup CloseCode)
  /\ resumable \in BOOLEAN /\ keyed \in BOOLEAN /\ late \in BOOLEAN /\ faults \in 0..MaxFaults

Init ==
  /\ gw = [running |-> FALSE, shouldReconnect |-> FALSE, canResume |-> FALSE,
           isResuming |-> FALSE, reconnectAttempts |-> 0, ack |-> TRUE]
  /\ npc = "none" /\ hb = "none" /\ vpc = "loop" /\ q = <<>>
  /\ vc = [state |-> "Disconnected", gateway |-> "none", ssrc |-> FALSE, udp |-> "none",
           encryption |-> FALSE, told |-> FALSE, asked |-> FALSE]
  /\ srv = "none" /\ wire = <<>> /\ resumable = FALSE /\ keyed = FALSE /\ late = FALSE /\ faults = 0

Fault == faults < MaxFaults /\ faults' = faults + 1
Post(e) == Len(q) < MaxQueue /\ q' = Append(q, e)

-----------------------------------------------------------------------------
(* The voice server, as the client sees it.                                *)

Frames(f) == wire' = Append(wire, f) /\ UNCHANGED keyed
Closes(code) == Frames(code) /\ srv' = "closed" /\ UNCHANGED resumable

\* What comes on a connection the server has closed, or fallen silent on, is lost.
Lost == srv \notin {"open", "session"} /\ UNCHANGED srvVars

\* IDENTIFY opens a session; a second one on a connection is a protocol error.
SrvIdentify ==
  \/ srv = "open" /\ srv' = "session" /\ wire' = Append(wire, "READY")
     /\ resumable' = TRUE /\ keyed' = FALSE
  \/ srv = "session" /\ Closes("other")
  \/ Lost

\* RESUME continues the session the server still holds; nothing is replayed,
\* because VoiceResumeData carries no sequence number.
SrvResume ==
  \/ srv = "open" /\ resumable /\ srv' = "session" /\ Frames("RESUMED") /\ UNCHANGED resumable
  \/ srv = "open" /\ ~resumable /\ Closes("invalid")
  \/ srv = "session" /\ Closes("other")
  \/ Lost

\* SELECT_PROTOCOL is answered with the description of the session, its key in it;
\* repeating it is harmless, but not before the handshake.
SrvSelect ==
  \/ srv = "session" /\ Frames("DESCRIPTION") /\ UNCHANGED <<srv, resumable>>
  \/ srv = "open" /\ Closes("other")
  \/ Lost

SrvCloses ==
  /\ srv \in {"open", "session"} /\ Fault
  /\ \/ Closes("other")
     \/ \E code \in {"fatal", "invalid"} : Frames(code) /\ srv' = "closed" /\ resumable' = FALSE
  /\ UNCHANGED <<late, gw, npc, hb, vpc, q, vc>>

SrvFallsSilent ==
  /\ srv \in {"open", "session"} /\ Fault
  /\ srv' = "silent" /\ wire' = <<>>
  /\ UNCHANGED <<late, gw, npc, hb, vpc, q, vc, resumable, keyed>>

SrvForgets ==
  /\ srv = "none" /\ resumable /\ Fault /\ resumable' = FALSE
  /\ UNCHANGED <<late, gw, npc, hb, vpc, q, vc, srv, wire, keyed>>

-----------------------------------------------------------------------------
(* Network thread: VoiceGateway::networkLoop.                              *)

NetTop ==
  /\ npc = "top"
  /\ IF gw.running
       THEN npc' = "connecting" /\ gw' = [gw EXCEPT !.shouldReconnect = FALSE]
       ELSE npc' = "ending" /\ UNCHANGED gw
  /\ UNCHANGED <<late, hb, vpc, q, vc, srvVars, faults>>

NetConnected ==
  /\ npc = "connecting"
  /\ npc' = "recv" /\ srv' = "open" /\ wire' = <<"HELLO">>
  /\ IF gw.running THEN Post("connected") ELSE UNCHANGED q
  /\ UNCHANGED <<late, gw, hb, vpc, vc, resumable, keyed, faults>>

MayRetry == gw.reconnectAttempts < MaxAttempts

\* A connect that fails needs no fault: the attempts bound it.
NetConnectFails ==
  /\ npc = "connecting"
  /\ IF MayRetry
       THEN /\ gw' = [gw EXCEPT !.reconnectAttempts = @ + 1]
            /\ npc' = "retry" /\ UNCHANGED q
       ELSE Post("disconnected") /\ npc' = "done" /\ UNCHANGED gw
  /\ UNCHANGED <<late, hb, vpc, vc, srvVars, faults>>

NetRetry ==
  /\ npc = "retry"
  /\ gw' = [gw EXCEPT !.shouldReconnect = gw.running] /\ npc' = "while"
  /\ UNCHANGED <<late, hb, vpc, q, vc, srvVars, faults>>

\* Leave the receive loop and release the handle.
Leave == npc' = "check" /\ srv' = "none" /\ wire' = <<>> /\ UNCHANGED <<resumable, keyed>>

NetLeaves ==
  /\ npc = "recv" /\ (gw.shouldReconnect \/ ~gw.running)
  /\ Leave
  /\ UNCHANGED <<late, gw, hb, vpc, q, vc, faults>>

\* curl_ws_recv reports a dead connection.
NetCut ==
  /\ npc = "recv" /\ gw.running /\ Fault
  /\ gw' = [gw EXCEPT !.shouldReconnect = TRUE]
  /\ Leave
  /\ UNCHANGED <<late, hb, vpc, q, vc>>

NetReceives ==
  /\ npc = "recv" /\ gw.running /\ ~gw.shouldReconnect
  /\ wire # <<>> /\ Head(wire) \in Payload
  /\ Post(Head(wire)) /\ wire' = Tail(wire)
  /\ UNCHANGED <<late, gw, npc, hb, vpc, vc, srv, resumable, keyed, faults>>

Recoverable(code) == code # "fatal" /\ (gw.canResume \/ code = "invalid")

NetCloseFrame ==
  /\ npc = "recv" /\ gw.running /\ ~gw.shouldReconnect
  /\ wire # <<>> /\ Head(wire) \in CloseCode
  /\ LET code == Head(wire) IN
       /\ gw' = [gw EXCEPT !.canResume = @ /\ code # "invalid",
                           !.isResuming = @ /\ code # "invalid",
                           !.shouldReconnect = Recoverable(code)]
       /\ IF Recoverable(code) THEN UNCHANGED q ELSE Post("disconnected")
  /\ Leave
  /\ UNCHANGED <<late, hb, vpc, vc, faults>>

\* After the loop: give up, reconnect, or fall through to the loop's condition.
NetCheck ==
  /\ npc = "check"
  /\ IF ~(gw.shouldReconnect /\ gw.running)
       THEN npc' = "while" /\ UNCHANGED <<gw, q>>
       ELSE IF MayRetry
         THEN /\ gw' = [gw EXCEPT !.reconnectAttempts = @ + 1, !.isResuming = gw.canResume]
              /\ npc' = "join" /\ UNCHANGED q
         ELSE /\ gw' = [gw EXCEPT !.shouldReconnect = FALSE]
              /\ Post("disconnected") /\ npc' = "ending"
  /\ UNCHANGED <<late, hb, vpc, vc, srvVars, faults>>

\* Join the heartbeat thread, holding heartbeatThreadMutex; then back off.
NetJoins ==
  /\ npc = "join" /\ hb # "wait"
  /\ hb' = "none" /\ npc' = "while"
  /\ UNCHANGED <<late, gw, vpc, q, vc, srvVars, faults>>

\* A voice thread that has not handled what it was sent when the back-off (a second
\* at least) is over is a fault.
NetWhile ==
  /\ npc = "while"
  /\ IF gw.shouldReconnect /\ gw.running
       THEN npc' = "top" /\ IF q = <<>> /\ vpc = "loop" THEN UNCHANGED faults ELSE Fault
       ELSE npc' = "ending" /\ UNCHANGED faults
  /\ UNCHANGED <<late, gw, hb, vpc, q, vc, srvVars>>

\* The end of the loop: clear running, take heartbeatThreadMutex ...
NetEnds ==
  /\ npc = "ending"
  /\ gw' = [gw EXCEPT !.running = FALSE] /\ npc' = "tail"
  /\ UNCHANGED <<late, hb, vpc, q, vc, srvVars, faults>>

\* ... and join the heartbeat thread.
NetTail ==
  /\ npc = "tail" /\ hb # "wait"
  /\ hb' = "none" /\ npc' = "done"
  /\ UNCHANGED <<late, gw, vpc, q, vc, srvVars, faults>>

-----------------------------------------------------------------------------
(* Heartbeat thread: VoiceGateway::heartbeatLoop.                          *)

HbEnds ==
  /\ hb = "wait" /\ (~gw.running \/ gw.shouldReconnect)
  /\ hb' = "done"
  /\ UNCHANGED <<late, gw, npc, vpc, q, vc, srvVars, faults>>

\* Everything received and on its way has been handled, and the network thread waits.
Idle == q = <<>> /\ wire = <<>> /\ vpc = "loop" /\ npc \in {"connecting", "retry", "recv", "done"}

\* An ACK that carries an older nonce is ignored: it is as good as gone, so that there is
\* one at most.
WithoutAck(s) == RemoveFirst(s, "ACK")

\* The interval (seconds) has passed.  That an ACK or a thread on its way takes longer
\* is a fault.
HbBeat ==
  /\ hb = "wait" /\ gw.running /\ ~gw.shouldReconnect
  /\ IF Idle THEN UNCHANGED faults ELSE Fault
  /\ IF gw.ack
       THEN /\ gw' = [gw EXCEPT !.ack = FALSE]
            /\ q' = WithoutAck(q)
            /\ wire' = WithoutAck(wire) \o (IF srv \in {"open", "session"} THEN <<"ACK">> ELSE <<>>)
            /\ UNCHANGED hb
       ELSE /\ gw' = [gw EXCEPT !.shouldReconnect = TRUE] /\ hb' = "done"
            /\ UNCHANGED <<q, wire>>
  /\ UNCHANGED <<late, npc, vpc, vc, srv, resumable, keyed>>

-----------------------------------------------------------------------------
(* Voice thread: VoiceClient and the handlers of VoiceGateway.             *)

\* VoiceClient::cleanupTransport.
Cleaned(c) == [c EXCEPT !.udp = "none", !.encryption = FALSE]

\* Discovery starts over from the stored READY data.
Discovering(c) == [Cleaned(c) EXCEPT !.state = "DiscoveringIP", !.udp = "asking"]

Start ==
  /\ vpc = "loop" /\ vc.gateway = "none" /\ ~vc.asked
  /\ vc' = [vc EXCEPT !.state = "Connecting", !.gateway = "live"]
  /\ gw' = [gw EXCEPT !.running = TRUE, !.reconnectAttempts = 0]
  /\ npc' = "top"
  /\ UNCHANGED <<late, hb, vpc, q, srvVars, faults>>

\* The end of VoiceClient::stop, once the gateway is joined.
Stopped(c) == [Cleaned(c) EXCEPT !.state = "Disconnected", !.ssrc = FALSE]

\* VoiceClient::stop up to VoiceGateway::hardStop's first join.
StopFrom(c) ==
  IF c.state = "Disconnected" THEN vc' = Cleaned(c) /\ UNCHANGED <<gw, vpc>>
  ELSE IF c.gateway = "live"
    THEN /\ vc' = c /\ vpc' = "joinNet"
         /\ gw' = [gw EXCEPT !.shouldReconnect = FALSE, !.running = FALSE]
    ELSE vc' = Stopped(c) /\ UNCHANGED <<gw, vpc>>

\* VoiceManager's queued call.
Stop ==
  /\ vpc = "loop" /\ ~vc.asked
  /\ StopFrom([vc EXCEPT !.asked = TRUE])
  /\ UNCHANGED <<late, npc, hb, q, srvVars, faults>>

\* VoiceManager deletes the client, after its stop() or, when quit() overtook the queued
\* call, without: ~VoiceClient stops a gateway that still runs.
Destroy ==
  /\ vpc = "loop"
  /\ q' = <<>>
  /\ IF vc.gateway = "none"
       THEN vpc' = "destroyed" /\ UNCHANGED <<gw, vc>>
       ELSE /\ gw' = [gw EXCEPT !.shouldReconnect = FALSE, !.running = FALSE]
            /\ vpc' = "joinNet" /\ vc' = [vc EXCEPT !.gateway = "gone"]
  /\ UNCHANGED <<late, npc, hb, srvVars, faults>>

JoinNetwork ==
  /\ vpc = "joinNet" /\ npc = "done" /\ vpc' = "joinHb"
  /\ UNCHANGED <<late, gw, npc, hb, q, vc, srvVars, faults>>

\* The heartbeat thread is joined; stop() leaves the gateway to deleteLater.
JoinHeartbeat ==
  /\ vpc = "joinHb" /\ hb # "wait" /\ hb' = "none"
  /\ IF vc.gateway = "gone" THEN vpc' = "destroyed" /\ UNCHANGED <<q, vc>>
     ELSE /\ vpc' = "loop" /\ q' = Append(q, "delete")
          /\ vc' = [Stopped(vc) EXCEPT !.gateway = "orphan"]
  /\ UNCHANGED <<late, gw, npc, srvVars, faults>>

\* The next event of the queue is e.
Handles(e) == vpc = "loop" /\ q # <<>> /\ Head(q) = e /\ q' = Tail(q)

\* mutant: the destructor trusts the join of hardStop
OnDeleteAtOnce ==
  /\ Handles("delete")
  /\ vc' = [vc EXCEPT !.gateway = "gone"]
  /\ UNCHANGED <<late, gw, npc, hb, vpc, srvVars, faults>>

\* ~VoiceGateway joins again: a HELLO handled since may have started a thread.
OnDelete ==
  /\ Handles("delete") /\ hb # "wait"
  /\ hb' = "none" /\ vc' = [vc EXCEPT !.gateway = "gone"]
  /\ UNCHANGED <<late, gw, npc, vpc, srvVars, faults>>

OnGatewayConnected ==
  /\ Handles("connected")
  /\ vc' = [vc EXCEPT !.state = "Identifying"]
  /\ UNCHANGED <<late, gw, npc, hb, vpc, srvVars, faults>>

OnGatewayDisconnected ==
  /\ Handles("disconnected")
  /\ vc' = [Cleaned(vc) EXCEPT !.state = "Disconnected",
                               !.told = @ \/ vc.state # "Disconnected"]
  /\ UNCHANGED <<late, gw, npc, hb, vpc, srvVars, faults>>

\* The connection of the event being handled is gone: there is none, or a newer one,
\* whose HELLO is on its way.
Orphaned == srv = "none" \/ "HELLO" \in ToSet(Tail(q) \o wire)

\* handleHello up to its lock.
OnHello ==
  /\ Handles("HELLO")
  /\ IF gw.isResuming /\ gw.canResume THEN SrvResume ELSE SrvIdentify
  /\ gw' = [gw EXCEPT !.ack = TRUE, !.isResuming = FALSE]
  /\ vpc' = "spawn" /\ late' = (late \/ Orphaned)
  /\ UNCHANGED <<npc, hb, vc, faults>>

\* The rest of it, under heartbeatThreadMutex, which the network thread holds
\* while it joins.
SpawnHeartbeat ==
  /\ vpc = "spawn" /\ npc \notin {"join", "tail"}
  /\ hb' = IF hb = "none" THEN "wait" ELSE hb
  /\ vpc' = "loop"
  /\ UNCHANGED <<late, gw, npc, q, vc, srvVars, faults>>

\* What handleReady and handleResumed do to the gateway.
Established == [gw EXCEPT !.canResume = TRUE, !.reconnectAttempts = 0]

\* onGatewayReady: no mode in common, or no socket to discover with, ends in stop().
OnReady ==
  /\ Handles("READY")
  /\ LET c == [vc EXCEPT !.ssrc = TRUE] IN
       \/ vc' = Discovering(c) /\ gw' = Established /\ UNCHANGED <<vpc, faults>>
       \/ /\ Fault
          /\ \E d \in {c, Discovering(c)} :
               LET stops == d.state # "Disconnected" /\ d.gateway = "live" IN
               /\ gw' = IF stops THEN [Established EXCEPT !.shouldReconnect = FALSE, !.running = FALSE]
                        ELSE Established
               /\ vpc' = IF stops THEN "joinNet" ELSE vpc
               /\ vc' = IF stops THEN d ELSE IF d.state = "Disconnected" THEN Cleaned(d) ELSE Stopped(d)
  /\ late' = (late \/ Orphaned)
  /\ UNCHANGED <<npc, hb, srvVars>>

\* mutant: only a lost socket makes the media path incomplete
SocketIncomplete == vc.udp = "none"
Incomplete == ~vc.encryption \/ vc.udp = "none"

\* mutant: a resumed session is only shown when it was complete
OnResumedPlain ==
  /\ Handles("RESUMED")
  /\ gw' = Established
  /\ vc' = IF Incomplete THEN vc ELSE [vc EXCEPT !.state = "Connected"]
  /\ late' = (late \/ Orphaned)
  /\ UNCHANGED <<npc, hb, vpc, srvVars, faults>>

OnResumed ==
  /\ Handles("RESUMED")
  /\ gw' = Established
  /\ vc' = IF ~vc.ssrc THEN vc
           ELSE IF Incomplete THEN Discovering(vc) ELSE [vc EXCEPT !.state = "Connected"]
  /\ late' = (late \/ Orphaned)
  /\ UNCHANGED <<npc, hb, vpc, srvVars, faults>>

OnSessionDescription ==
  /\ Handles("DESCRIPTION")
  /\ vc' = [vc EXCEPT !.encryption = TRUE, !.state = "Connected"]
  /\ keyed' = TRUE
  /\ UNCHANGED <<late, gw, npc, hb, vpc, srv, wire, resumable, faults>>

OnAck ==
  /\ Handles("ACK")
  /\ gw' = [gw EXCEPT !.ack = TRUE]
  /\ UNCHANGED <<late, npc, hb, vpc, vc, srvVars, faults>>

\* onIpDiscovered uses gateway whether or not stop() has cleared it.
OnIpDiscovered ==
  /\ vpc = "loop" /\ vc.udp = "asking"
  /\ IF vc.gateway = "live"
       THEN /\ vc' = [vc EXCEPT !.udp = "bound", !.state = "WaitingForSession"]
            /\ SrvSelect /\ UNCHANGED vpc
       ELSE vpc' = "crashed" /\ UNCHANGED <<vc, srvVars>>
  /\ UNCHANGED <<late, gw, npc, hb, q, faults>>

\* No answer in five seconds: UdpTransport's timer, onIpDiscoveryFailed.
OnIpDiscoveryFailed ==
  /\ vpc = "loop" /\ vc.udp = "asking" /\ Fault
  /\ StopFrom([vc EXCEPT !.udp = "bound"])
  /\ UNCHANGED <<late, npc, hb, q, srvVars>>

-----------------------------------------------------------------------------
NetStep == \/ NetTop \/ NetConnected \/ NetRetry \/ NetLeaves \/ NetReceives \/ NetCloseFrame
           \/ NetCheck \/ NetJoins \/ NetWhile \/ NetEnds \/ NetTail
HbStep == HbEnds \/ HbBeat
VoiceEvent == \/ OnDelete \/ OnGatewayConnected \/ OnGatewayDisconnected \/ OnHello \/ OnReady
              \/ OnResumed \/ OnSessionDescription \/ OnAck
VoiceStep == JoinNetwork \/ JoinHeartbeat \/ SpawnHeartbeat \/ VoiceEvent
Environment == SrvCloses \/ SrvFallsSilent \/ SrvForgets \/ NetCut \/ NetConnectFails
Over == vpc \in {"crashed", "destroyed"} /\ UNCHANGED vars

Next == \/ Start \/ Stop \/ Destroy \/ NetStep \/ HbStep \/ VoiceStep \/ OnIpDiscovered
        \/ OnIpDiscoveryFailed \/ Environment \/ Over

Spec == Init /\ [][Next]_vars

\* Threads run, timers fire and the media server answers; no fault and no call of
\* the manager is due.
Reliably(A) == A /\ UNCHANGED faults
Fairness == /\ WF_vars(Reliably(NetStep)) /\ WF_vars(Reliably(HbStep)) /\ WF_vars(Reliably(VoiceStep))
            /\ WF_vars(OnIpDiscovered)
FairSpec == Spec /\ Fairness

-----------------------------------------------------------------------------
\* A gateway that was deleted, by stop() or with its client, has left no thread
\* behind, although a HELLO handled after hardStop starts one.
NoThreadLeft ==
  vc.gateway = "gone" /\ vpc \notin {"joinNet", "joinHb"} => npc = "done" /\ hb = "none"

\* Nothing but heartbeats is on its way.
Quiet == WithoutAck(wire) = <<>> /\ WithoutAck(q) = <<>>

\* A call that shows itself connected on an established connection has a socket
\* and encrypts with the key of the server's session, whatever was lost, resumed or
\* begun again since.  (A READY or RESUMED handled late sets canResume for a session
\* the server has dropped, and a HELLO handled late clears isResuming, so that the next
\* one begins a session while the last can still be resumed: those are excepted.)
KeyCurrent ==
  ~late /\ vc.state = "Connected" /\ vc.gateway = "live" /\ srv = "session" /\ Quiet =>
    vc.encryption /\ vc.udp # "none" /\ keyed

\* Undisturbed, the threads never drop a connection that is up.
Undisturbed == faults = 0 /\ npc = "recv" => ~gw.shouldReconnect

\* When the network thread gives up by itself, the client reports the end.
EndTold == npc = "done" ~> (vc.told \/ vc.asked \/ vc.gateway # "live")

\* A call never stalls between connecting and connected: every loss ends in a
\* session or a reported end, unless the client was stopped (its gateway is gone)
\* or a server says nothing to a connection without a heartbeat thread.
Settles ==
  vc.state \notin {"Connected", "Disconnected"} ~>
    \/ vc.state \in {"Connected", "Disconnected"} \/ vc.gateway # "live"
    \/ srv = "silent" /\ hb # "wait"

\* The threads of a call neither outlive it nor break it by themselves.
Inv == TypeOK /\ NoThreadLeft /\ Undisturbed

\* Every loss is made good or reported, wherever it met the call.
LossSettled == EndTold /\ Settles

=============================================================================
