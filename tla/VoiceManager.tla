---------------------------- MODULE VoiceManager ----------------------------
(***************************************************************************)
(* Voice calls on the UI thread: VoiceManager (src/Core/AV/VoiceManager.cpp)*)
(* between the gateway, which says where everybody is and which voice      *)
(* server to use, and the voice thread, where a VoiceClient and an         *)
(* AudioPipeline live for one connection.                                  *)
(*                                                                         *)
(* A place is a guild and a channel of it.  The voice thread is a queue of *)
(* posted calls and a client that connects, ends, or stops without a word; *)
(* its signals are queued to the UI thread.  A token stands for a voice    *)
(* server with its token, numbered in the order the server gives them.     *)
(* silent stands for muted or deafened.  Left out: levels, devices and     *)
(* encoder settings, push to talk, the volume of single users, codes.      *)
(***************************************************************************)
EXTENDS Naturals, Sequences

CONSTANTS Guilds, Rooms, Users,
          Nowhere, None,
          MaxTokens,   \* bound on the voice servers given
          MaxMoves,    \* bound on the moves of the account and of the others
          MaxMutes,    \* bound on the account's (un)mutes
          MaxSignals   \* bound on the signals under way

VARIABLES
  at, userAt,   \* server: where the account and the others are
  mute,         \* server: the account's mute, as last sent
  token,        \* server: the newest voice server given
  reported,     \* voice server: the users it has told the client of
  moves, mutes, \* counted against their bounds
  events,       \* gateway events under way
  channel,      \* channelId and guildId, and whether there is a voiceSessionId
  silent,       \* selfMute || selfDeaf
  pending,      \* pending: its server update, if any, and hasStateUpdate
  known,        \* knownVoiceStates
  participants,
  conn,         \* voiceThread, voiceClient and audioPipeline, or None
  tasks,        \* calls posted to the voice thread
  capture,      \* the audio backend captures; it outlives the connections
  lost,         \* history: a connection ended without its queued stop()
  gone,         \* history: the last connection ended by itself
  signals       \* the client's signals under way to the UI thread

serverVars == <<at, userAt, mute, token, reported, moves, mutes>>
callVars == <<conn, tasks, capture, lost, gone, participants>>
vars == <<serverVars, events, channel, silent, pending, known, callVars, signals>>

Places == Guilds \X Rooms
Guild(place) == IF place = Nowhere THEN None ELSE place[1]
Tasks == {"start", "startMuted", "startCapture", "stopCapture"}
Phases == {"connecting", "connected", "renewed", "ended"}
\* mixed is history: handleVoiceServerUpdate paired the state of one guild with the
\* server update of another.
Conn == [place : Places, token : 1..MaxTokens, phase : Phases, started : BOOLEAN, mixed : BOOLEAN]
Half == [guild : Guilds, token : 1..MaxTokens]  \* what a server update brings
NoPending == [server |-> None, state |-> FALSE]
Event == [type : {"self"}, place : Places \cup {Nowhere}, mute : BOOLEAN]
         \cup [type : {"user"}, user : Users, place : Places \cup {Nowhere}]
         \cup [type : {"server"}, guild : Guilds, token : 0..MaxTokens]
Signal == [type : {"connected", "disconnected"}, live : BOOLEAN]
          \cup [type : {"joined", "left"}, user : Users, live : BOOLEAN]

ASSUME VoiceManagerAssumption ==
  /\ Nowhere \notin Places /\ None \notin Places \cup Guilds \cup Conn \cup Half
  /\ MaxTokens \in Nat /\ MaxMoves \in Nat /\ MaxMutes \in Nat /\ MaxSignals \in Nat

TypeOK ==
  /\ at \in Places \cup {Nowhere} /\ userAt \in [Users -> Places \cup {Nowhere}]
  /\ mute \in BOOLEAN /\ token \in 0..MaxTokens /\ reported \subseteq Users
  /\ moves \in 0..MaxMoves /\ mutes \in 0..MaxMutes
  /\ events \in Seq(Event) /\ signals \in Seq(Signal) /\ tasks \in Seq(Tasks)
  /\ channel \in Places \cup {Nowhere} /\ silent \in BOOLEAN
  /\ pending \in [server : Half \cup {None}, state : BOOLEAN]
  /\ known \in [Users -> Places \cup {Nowhere}]
  /\ participants \subseteq Users
  /\ conn \in Conn \cup {None} /\ (conn # None => channel # Nowhere)
  /\ capture \in BOOLEAN /\ lost \in BOOLEAN /\ gone \in BOOLEAN

Init ==
  /\ at = Nowhere /\ userAt = [u \in Users |-> Nowhere]
  /\ mute = FALSE /\ token = 0 /\ reported = {} /\ moves = 0 /\ mutes = 0
  /\ events = <<>> /\ signals = <<>> /\ tasks = <<>>
  /\ channel = Nowhere /\ silent = FALSE /\ pending = NoPending
  /\ known = [u \in Users |-> Nowhere] /\ participants = {}
  /\ conn = None /\ capture = FALSE /\ lost = FALSE /\ gone = FALSE

-----------------------------------------------------------------------------
(* The server, and the voice server.                                       *)

SelfEvent(place, m) == [type |-> "self", place |-> place, mute |-> m]
ServerEvent(g, t) == [type |-> "server", guild |-> g, token |-> t]

Moves == moves < MaxMoves /\ moves' = moves + 1

\* The account joins, moves or leaves.  Another guild is another voice server, told
\* before or after the state, and to join with the microphone on is what
\* joinVoiceChannel asks for.
SrvMove(p) ==
  /\ Moves /\ p # at /\ at' = p
  /\ mute' \in {mute, FALSE}
  /\ IF Guild(p) \in {Guild(at), None}
     THEN events' = Append(events, SelfEvent(p, mute')) /\ UNCHANGED token
     ELSE /\ token < MaxTokens /\ token' = token + 1
          /\ LET state == SelfEvent(p, mute')
                 server == ServerEvent(Guild(p), token')
             IN \/ events' = events \o <<state, server>>
                \/ events' = events \o <<server, state>>
  /\ UNCHANGED <<userAt, reported, mutes, channel, silent, pending, known, callVars, signals>>

\* The account is (un)muted or (un)deafened.
SrvMute ==
  /\ at # Nowhere /\ mutes < MaxMutes /\ mutes' = mutes + 1
  /\ mute' = ~mute /\ events' = Append(events, SelfEvent(at, mute'))
  /\ UNCHANGED <<at, userAt, token, reported, moves, channel, silent, pending, known, callVars,
                 signals>>

\* Another user moves.
SrvUser(u, p) ==
  /\ Moves /\ p # userAt[u] /\ userAt' = [userAt EXCEPT ![u] = p]
  /\ events' = Append(events, [type |-> "user", user |-> u, place |-> p])
  /\ UNCHANGED <<at, mute, token, reported, mutes, channel, silent, pending, known, callVars,
                 signals>>

\* The guild's voice server is replaced: its loss is told by a null endpoint.
SrvServer ==
  /\ at # Nowhere /\ token < MaxTokens /\ token' = token + 1
  /\ events' = events \o <<ServerEvent(Guild(at), 0), ServerEvent(Guild(at), token')>>
  /\ UNCHANGED <<at, userAt, mute, reported, moves, mutes, channel, silent, pending, known,
                 callVars, signals>>

Present(u) == userAt[u] = at
Online == conn # None /\ conn.phase \in {"connected", "renewed"} /\ Guild(conn.place) = Guild(at)

Signals(s) == Len(signals) < MaxSignals /\ signals' = Append(signals, s)
Posts(s) == tasks' = tasks \o s

\* The voice server tells the client who is in its channel.
SrvReport(u) ==
  /\ Online
  /\ \/ /\ Present(u) /\ u \notin reported /\ reported' = reported \cup {u}
        /\ Signals([type |-> "joined", user |-> u, live |-> TRUE])
     \/ /\ ~Present(u) /\ u \in reported /\ reported' = reported \ {u}
        /\ Signals([type |-> "left", user |-> u, live |-> TRUE])
  /\ UNCHANGED <<at, userAt, mute, token, moves, mutes, events, channel, silent, pending, known,
                 callVars>>

-----------------------------------------------------------------------------
(* The voice thread.                                                       *)

ThreadUnchanged == UNCHANGED <<at, userAt, mute, token, moves, mutes, events, channel, silent,
                               pending, known, lost, gone, participants>>

\* A session description: the first, or that of a new session (one is enough here).
ClientConnects ==
  /\ conn # None /\ conn.phase \in {"connecting", "connected"}
  /\ conn' = [conn EXCEPT !.phase = IF @ = "connecting" THEN "connected" ELSE "renewed"]
  /\ reported' = {}
  /\ Signals([type |-> "connected", live |-> TRUE])
  /\ ThreadUnchanged /\ UNCHANGED <<tasks, capture>>

\* A terminal close of the voice gateway; a stop() of the client's own is silent.
ClientEnds ==
  /\ conn # None /\ conn.phase # "ended"
  /\ conn' = [conn EXCEPT !.phase = "ended"]
  /\ \/ Signals([type |-> "disconnected", live |-> TRUE])
     \/ UNCHANGED signals
  /\ ThreadUnchanged /\ UNCHANGED <<reported, tasks, capture>>

\* What the posted calls do to the pipeline and the backend: AudioPipeline's start,
\* startCapture and stopCapture.
Does(audio, task) ==
  CASE task = "start"        -> [started |-> TRUE, capture |-> audio.capture \/ ~audio.started]
    [] task = "startMuted"   -> [audio EXCEPT !.started = TRUE]
    [] task = "startCapture" -> [audio EXCEPT !.capture = @ \/ audio.started]
    [] task = "stopCapture"  -> [audio EXCEPT !.capture = @ /\ ~audio.started]

Audio == [started |-> conn.started, capture |-> capture]

RunTask ==
  /\ conn # None /\ tasks # <<>>
  /\ LET audio == Does(Audio, Head(tasks)) IN
     conn' = [conn EXCEPT !.started = audio.started] /\ capture' = audio.capture
  /\ tasks' = Tail(tasks)
  /\ ThreadUnchanged /\ UNCHANGED <<reported, signals>>

-----------------------------------------------------------------------------
(* The UI thread.                                                          *)

\* What the first calls of ts make of the audio, for every number of them.
After(audio, ts) ==
  LET after[k \in 0..Len(ts)] == IF k = 0 THEN audio ELSE Does(after[k - 1], ts[k]) IN after

\* stopVoiceThread, with the calls ts still posted.  The thread runs them and the
\* queued stop(), or quit() ends its loop before that, after some of them.
Stops(ts) ==
  \/ /\ LET audio == After(Audio, ts)[Len(ts)] IN capture' = (audio.capture /\ ~audio.started)
     /\ UNCHANGED lost
  \/ /\ \E k \in 0..Len(ts) : capture' = After(Audio, ts)[k].capture
     /\ lost' = TRUE

\* Every guarded signal of the connection is from an earlier generation now.
Stale == [i \in DOMAIN signals |-> [signals[i] EXCEPT !.live = FALSE]]

StopVoiceThread(ts) ==
  /\ tasks' = <<>>
  /\ IF conn = None THEN UNCHANGED <<capture, lost>> ELSE Stops(ts)

\* connectToVoiceServer, with the calls ts still posted to the earlier thread.
Connect(t, ts, mixed) ==
  /\ StopVoiceThread(ts)
  /\ conn' = [place |-> channel', token |-> t, phase |-> "connecting", started |-> FALSE,
              mixed |-> mixed]
  /\ gone' = FALSE

Receives(type) == events # <<>> /\ Head(events).type = type /\ events' = Tail(events)

Populated(place) == {u \in Users : known[u] = place}

\* handleVoiceStateUpdate for the account, when it left ...
OnSelfLeft ==
  /\ Receives("self") /\ Head(events).place = Nowhere
  /\ channel' = Nowhere /\ pending' = NoPending /\ gone' = FALSE
  /\ StopVoiceThread(tasks) /\ conn' = None
  /\ IF conn = None THEN UNCHANGED <<participants, signals>>
     ELSE participants' = {} /\ signals' = Stale
  /\ UNCHANGED <<serverVars, silent, known>>

\* mutant: a change of the mute between two calls is not told to the pipeline
MuteWhileTalking(m) ==
  IF conn = None \/ m = silent \/ ~conn.started THEN <<>>
  ELSE IF m THEN <<"stopCapture">> ELSE <<"startCapture">>

\* The calls a change of the mute posts to the pipeline.
MutePosts(m) ==
  IF conn = None \/ m = silent THEN <<>> ELSE IF m THEN <<"stopCapture">> ELSE <<"startCapture">>

\* ... and when it is in a channel: a server update of that guild was waiting, or not.
OnSelfState ==
  /\ Receives("self") /\ Head(events).place # Nowhere
  /\ LET e == Head(events)
         ts == tasks \o MutePosts(e.mute)
         waiting == pending.server # None /\ pending.server.guild = Guild(e.place)
     IN
     /\ channel' = e.place /\ silent' = e.mute
     /\ IF waiting
        THEN /\ Connect(pending.server.token, ts, FALSE)
             /\ pending' = NoPending
             /\ signals' = IF conn = None THEN signals ELSE Stale
        ELSE /\ tasks' = ts /\ pending' = [pending EXCEPT !.state = TRUE]
             /\ UNCHANGED <<conn, capture, lost, gone, signals>>
     /\ participants' = IF waiting /\ conn # None THEN {}
                        ELSE IF e.place # channel THEN Populated(e.place) ELSE participants
  /\ UNCHANGED <<serverVars, known>>

\* mutant: the states of users in other channels are not cached
OnNearbyState ==
  /\ Receives("user")
  /\ LET e == Head(events) IN
     /\ known' = IF e.place \in {channel, Nowhere} THEN [known EXCEPT ![e.user] = e.place] ELSE known
     /\ participants' = CASE channel = Nowhere -> participants
                          [] e.place = channel -> participants \cup {e.user}
                          [] OTHER             -> participants \ {e.user}
  /\ UNCHANGED <<serverVars, channel, silent, pending, conn, tasks, capture, lost, gone, signals>>

\* handleVoiceStateUpdate for another user.
OnUserState ==
  /\ Receives("user")
  /\ LET e == Head(events) IN
     /\ known' = [known EXCEPT ![e.user] = e.place]
     /\ participants' = CASE channel = Nowhere -> participants
                          [] e.place = channel -> participants \cup {e.user}
                          [] OTHER             -> participants \ {e.user}
  /\ UNCHANGED <<serverVars, channel, silent, pending, conn, tasks, capture, lost, gone, signals>>

HasEndpoint(e) == e.token # 0

\* handleVoiceServerUpdate: no endpoint yet ...
OnNoEndpoint ==
  /\ Receives("server") /\ ~HasEndpoint(Head(events))
  /\ UNCHANGED <<serverVars, channel, silent, pending, known, callVars, signals>>

\* mutant: the update waits for a state, as it does for a new call
OnServerAwaited ==
  /\ Receives("server")
  /\ LET e == Head(events) IN
     /\ HasEndpoint(e) /\ conn # None /\ Guild(channel) = e.guild
     /\ pending' = [pending EXCEPT !.server = [guild |-> e.guild, token |-> e.token]]
  /\ UNCHANGED <<serverVars, channel, silent, known, callVars, signals>>

\* ... the voice server of the call is replaced: the pending data stays as it is ...
OnServerReplaced ==
  /\ Receives("server")
  /\ LET e == Head(events) IN
     /\ HasEndpoint(e) /\ conn # None /\ Guild(channel) = e.guild
     /\ UNCHANGED channel /\ Connect(e.token, tasks, FALSE)
  /\ participants' = {} /\ signals' = Stale
  /\ UNCHANGED <<serverVars, silent, pending, known>>

\* The server's half of a call, kept for the state's.
Remembered(e) == [pending EXCEPT !.server = [guild |-> e.guild, token |-> e.token]]

\* ... or it is the half of a new call, whose other half, the state, is there or not; the
\* guilds are not compared.
OnServerUpdate ==
  /\ Receives("server")
  /\ LET e == Head(events) IN
     /\ HasEndpoint(e) /\ ~(conn # None /\ Guild(channel) = e.guild)
     /\ UNCHANGED channel
     /\ IF pending.state /\ channel # Nowhere
        THEN /\ Connect(e.token, tasks, Guild(channel) # e.guild)
             /\ pending' = NoPending
             /\ IF conn = None THEN UNCHANGED <<participants, signals>>
                ELSE participants' = {} /\ signals' = Stale
        ELSE pending' = Remembered(e) /\ UNCHANGED <<callVars, signals>>
  /\ UNCHANGED <<serverVars, silent, known>>

\* A signal is dropped when it is of an earlier generation.
Delivers(type) ==
  /\ signals # <<>> /\ Head(signals).type = type /\ Head(signals).live
  /\ signals' = Tail(signals)

OnStaleSignal ==
  /\ signals # <<>> /\ ~Head(signals).live /\ signals' = Tail(signals)
  /\ UNCHANGED <<serverVars, events, channel, silent, pending, known, callVars>>

\* onVoiceClientConnected.
OnVoiceClientConnected ==
  /\ Delivers("connected")
  /\ Posts(IF silent THEN <<"startMuted">> ELSE <<"start">>)
  /\ participants' = participants \cup Populated(channel)
  /\ UNCHANGED <<serverVars, events, channel, silent, pending, known, conn, capture, lost, gone>>

\* mutant: a late end of an earlier connection ends this one
OnAnyDisconnected ==
  /\ signals # <<>> /\ Head(signals).type = "disconnected" /\ signals' = Tail(Stale)
  /\ StopVoiceThread(tasks) /\ conn' = None /\ participants' = {} /\ gone' = TRUE
  /\ UNCHANGED <<serverVars, events, channel, silent, pending, known>>

\* onVoiceClientDisconnected.
OnVoiceClientDisconnected ==
  /\ signals # <<>> /\ Head(signals).type = "disconnected" /\ Head(signals).live
  /\ signals' = Tail(Stale)
  /\ StopVoiceThread(tasks) /\ conn' = None /\ participants' = {} /\ gone' = TRUE
  /\ UNCHANGED <<serverVars, events, channel, silent, pending, known>>

\* The clientConnected and clientDisconnected handlers.
OnClientConnected ==
  /\ Delivers("joined") /\ participants' = participants \cup {Head(signals).user}
  /\ UNCHANGED <<serverVars, events, channel, silent, pending, known, conn, tasks, capture, lost,
                 gone>>

OnClientDisconnected ==
  /\ Delivers("left") /\ participants' = participants \ {Head(signals).user}
  /\ UNCHANGED <<serverVars, events, channel, silent, pending, known, conn, tasks, capture, lost,
                 gone>>

-----------------------------------------------------------------------------
Server ==
  \/ SrvMute \/ SrvServer
  \/ \E p \in Places \cup {Nowhere} : SrvMove(p) \/ \E u \in Users : SrvUser(u, p)
  \/ \E u \in Users : SrvReport(u)
OnEvent == OnSelfLeft \/ OnSelfState \/ OnUserState \/ OnNoEndpoint \/ OnServerReplaced
           \/ OnServerUpdate
OnSignal == OnStaleSignal \/ OnVoiceClientConnected \/ OnVoiceClientDisconnected
            \/ OnClientConnected \/ OnClientDisconnected
VoiceThread == ClientConnects \/ ClientEnds \/ RunTask

Next == Server \/ OnEvent \/ OnSignal \/ VoiceThread
Spec == Init /\ [][Next]_vars

-----------------------------------------------------------------------------
\* Every event, signal and posted call has been handled.
Settled == events = <<>> /\ signals = <<>> /\ tasks = <<>>

\* Who is shown in the call is who is in it, once the call is up and the gateway and
\* the voice server have said all they know: the two streams, the cache and the
\* generations agree, in whatever order they were handled.  A new session on the same
\* client only adds: who left while it began may stay.
ParticipantsTrue ==
  Settled /\ Online /\ (\A u \in Users : u \in reported <=> Present(u)) =>
    /\ \A u \in Users : Present(u) => u \in participants
    /\ conn.phase = "connected" => \A u \in participants : Present(u)

\* The connection is to the voice server given last, in whatever order the account's
\* state and the server update of a move come, and for the account's guild.  The one
\* exception is a server update that met the state of the guild left: VoiceManager.cpp:206
\* pairs them, and the call is made for the old guild at the new one's server.
ConnectionCurrent ==
  events = <<>> /\ conn # None =>
    conn.token = token /\ (conn.mixed \/ Guild(conn.place) = Guild(at))

\* An account in a channel has a connection, unless the last one ended by itself.
CallMade == events = <<>> /\ at # Nowhere => conn # None \/ gone

\* The microphone is on exactly when the call is up and the account is not muted: no
\* order of mutes, moves, reconnections and late signals leaves it on.
MicFollowsMute ==
  Settled /\ ~lost =>
    capture = (conn # None /\ conn.started /\ ~silent)

\* Only the end of the connection itself, or an event of the account, ends a call.
NoStrayTeardown == [][conn # None /\ OnSignal /\ conn' = None => conn.phase = "ended"]_vars

\* The account in a channel has its call, on the voice server it was given last.
Inv == TypeOK /\ ConnectionCurrent /\ CallMade

=============================================================================
