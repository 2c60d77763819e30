------------------------------ MODULE ReadState ------------------------------
(***************************************************************************)
(* Read states: ReadStateManager (src/Core/ReadStateManager.cpp) with the   *)
(* server it reports to.                                                   *)
(*                                                                         *)
(* The server keeps a read cursor per channel; the client keeps its own,   *)
(* moves it as the user reads, and acknowledges over REST.  The server     *)
(* answers with MESSAGE_ACK events in the gateway's order, on its own      *)
(* account for other devices.  Ids are 1, 2, ... per channel.  Left out:   *)
(* mutes and notification levels, forum posts, guild removal, and the      *)
(* number behind the badge (counted says that it is not zero).             *)
(***************************************************************************)
EXTENDS Naturals, Sequences

CONSTANTS Channels,
          NoChannel,   \* no channel is active
          Kinds,       \* what messages the server sends: "other", "mention", "own"
          MaxMessages, \* bound on the ids of a channel
          MaxEvents,   \* bound on the gateway events under way
          MaxReadies   \* bound on the sessions begun anew

ASSUME ReadStateAssumption ==
  /\ NoChannel \notin Channels /\ Kinds \subseteq {"other", "mention", "own"}
  /\ MaxMessages \in Nat /\ MaxEvents \in Nat /\ MaxReadies \in Nat

VARIABLES
  newest,    \* server: the newest message of each channel, 0 if it has none
  serverAck, \* server: the read cursor of each channel
  events,    \* the gateway events under way
  acks,      \* the acknowledgements on their way to the server
  failed,    \* the acknowledgements that were not accepted
  readies,   \* how many sessions were begun anew
  entry,     \* channelReadStates: the entry's lastMessageId; None: no entry
  last,      \* channelLastMessageIds, 0 for none
  counted,   \* the channels in unreadMessageCounts
  active,    \* activeChannelId
  pending,   \* activeChannelAckPending
  seen,      \* history: the newest message of each channel the user read here
  rewound    \* history: the channels whose cursor READY took back before the timer's
             \* acknowledgement was sent, and that were not read since

serverVars == <<newest, serverAck, readies>>
clientVars == <<entry, last, counted, active, pending, seen, rewound>>
vars == <<serverVars, events, acks, failed, clientVars>>

Id == 1..MaxMessages
None == 0
Invalid == MaxMessages + 1   \* an entry without lastMessageId: the largest Snowflake
Ack == [channel : Channels, id : Id]
Event == [type : {"create"}, channel : Channels, id : Id, kind : Kinds]
         \cup [type : {"ack"}, channel : Channels, id : Id]
         \cup [type : {"ready"}, cursor : [Channels -> 0..MaxMessages],
               newest : [Channels -> 0..MaxMessages]]

TypeOK ==
  /\ newest \in [Channels -> 0..MaxMessages] /\ serverAck \in [Channels -> 0..MaxMessages]
  /\ events \in Seq(Event) /\ acks \subseteq Ack /\ failed \subseteq Ack
  /\ readies \in 0..MaxReadies
  /\ entry \in [Channels -> 0..Invalid]
  /\ last \in [Channels -> 0..MaxMessages]
  /\ counted \subseteq Channels
  /\ active \in Channels \cup {NoChannel} /\ pending \in BOOLEAN
  /\ pending => active # NoChannel
  /\ seen \in [Channels -> 0..MaxMessages] /\ rewound \subseteq Channels

\* Field::hasValue of an entry's lastMessageId, and effectiveAckId: without it
\* nothing counts as read.
HasCursor(c) == entry[c] \in Id
Cursor(c) == IF HasCursor(c) THEN entry[c] ELSE 0
IsUnread(c, id) == id > Cursor(c)

Init ==
  /\ newest = [c \in Channels |-> 0] /\ serverAck = [c \in Channels |-> 0]
  /\ events = <<>> /\ acks = {} /\ failed = {} /\ readies = 0
  /\ entry = [c \in Channels |-> None] /\ last = [c \in Channels |-> 0]
  /\ counted = {} /\ active = NoChannel /\ pending = FALSE
  /\ seen = [c \in Channels |-> 0] /\ rewound = {}

Larger(a, b) == IF a > b THEN a ELSE b

-----------------------------------------------------------------------------
(* The server.                                                             *)

Sends(e) == Len(events) < MaxEvents /\ events' = Append(events, e)

\* A message; the account's own, sent from any device, moves its cursor.
SrvMessage(c, kind) ==
  /\ newest[c] < MaxMessages
  /\ newest' = [newest EXCEPT ![c] = @ + 1]
  /\ serverAck' = IF kind = "own" THEN [serverAck EXCEPT ![c] = newest[c] + 1] ELSE serverAck
  /\ Sends([type |-> "create", channel |-> c, id |-> newest[c] + 1, kind |-> kind])
  /\ UNCHANGED <<acks, failed, readies, clientVars>>

\* Another device reads the channel.
SrvRemoteRead(c) ==
  /\ serverAck[c] < newest[c]
  /\ serverAck' = [serverAck EXCEPT ![c] = newest[c]]
  /\ Sends([type |-> "ack", channel |-> c, id |-> newest[c]])
  /\ UNCHANGED <<newest, acks, failed, readies, clientVars>>

\* An acknowledgement arrives, in any order, or is refused.
SrvAck(a) ==
  /\ a \in acks /\ acks' = acks \ {a}
  /\ \/ /\ serverAck' = [serverAck EXCEPT ![a.channel] = Larger(@, a.id)]
        /\ Sends([type |-> "ack", channel |-> a.channel, id |-> a.id])
        /\ UNCHANGED failed
     \/ failed' = failed \cup {a} /\ UNCHANGED <<serverAck, events>>
  /\ UNCHANGED <<newest, readies, clientVars>>

\* The session is lost with its events, and a new one begins with READY.
SrvReady ==
  /\ readies < MaxReadies /\ readies' = readies + 1
  /\ events' = << [type |-> "ready", cursor |-> serverAck, newest |-> newest] >>
  /\ UNCHANGED <<newest, serverAck, acks, failed, clientVars>>

-----------------------------------------------------------------------------
(* The client.                                                             *)

Receives(type) == events # <<>> /\ Head(events).type = type /\ events' = Tail(events)

\* updateLocalReadState.
ReadLocally(c, id) ==
  /\ entry' = [entry EXCEPT ![c] = id]
  /\ counted' = counted \ {c}
  /\ seen' = [seen EXCEPT ![c] = id]
  /\ rewound' = rewound \ {c}

\* loadFromReady, and the channels' last messages; nothing else is reset, so that an
\* acknowledgement still pending is sent for the cursor READY brings.
OnReady ==
  /\ Receives("ready")
  /\ LET r == Head(events) IN
     /\ entry' = r.cursor
     /\ last' = [c \in Channels |-> Larger(last[c], r.newest[c])]
     /\ rewound' = IF pending /\ r.cursor[active] < seen[active] THEN rewound \cup {active}
                   ELSE rewound
  /\ UNCHANGED <<serverVars, acks, failed, counted, active, pending, seen>>

\* handleMessageCreated, in the active channel ...
OnActiveMessage ==
  /\ Receives("create")
  /\ LET m == Head(events) IN
     /\ m.channel = active
     /\ last' = [last EXCEPT ![m.channel] = Larger(@, m.id)]
     /\ ReadLocally(m.channel, m.id)
  /\ pending' = TRUE
  /\ UNCHANGED <<serverVars, acks, failed, active>>

\* ... an own message elsewhere ...
OnOwnMessage ==
  /\ Receives("create")
  /\ LET m == Head(events) IN
     /\ m.channel # active /\ m.kind = "own"
     /\ last' = [last EXCEPT ![m.channel] = Larger(@, m.id)]
     /\ entry' = [entry EXCEPT ![m.channel] = m.id]
  /\ UNCHANGED <<serverVars, acks, failed, counted, active, pending, seen, rewound>>

\* ... and any other message: a mention makes an entry to count it in.
OnOtherMessage ==
  /\ Receives("create")
  /\ LET m == Head(events) IN
     /\ m.channel # active /\ m.kind # "own"
     /\ last' = [last EXCEPT ![m.channel] = Larger(@, m.id)]
     /\ entry' = IF m.kind = "mention" /\ entry[m.channel] = None
                 THEN [entry EXCEPT ![m.channel] = Invalid] ELSE entry
     /\ counted' = counted \cup {m.channel}
  /\ UNCHANGED <<serverVars, acks, failed, active, pending, seen, rewound>>

AnyAck(c, id) == entry[c] # Invalid   \* mutant: an older echo moves the cursor back

\* A new entry is made, or the larger id taken; Invalid is larger than any.
AckAdvances(c, id) == entry[c] = None \/ id > entry[c]

\* onMessageAck.
OnMessageAck ==
  /\ Receives("ack")
  /\ LET a == Head(events) IN
     /\ entry' = IF AckAdvances(a.channel, a.id) THEN [entry EXCEPT ![a.channel] = a.id] ELSE entry
     /\ counted' = counted \ {a.channel}
  /\ UNCHANGED <<serverVars, acks, failed, last, active, pending, seen, rewound>>

Request(S) == acks' = acks \cup S

\* What leaving the active channel, and its timer, acknowledge.
Flush == IF pending /\ HasCursor(active) THEN {[channel |-> active, id |-> entry[active]]} ELSE {}

NoFlush == {}   \* mutant: leaving a channel drops its pending acknowledgement

LeavingAcks == Flush

\* Opening a channel: setActiveChannel, then markChannelAsRead.  (Every caller of
\* setActiveChannel opens a channel; none passes an invalid one.)
Select(c) ==
  LET read == last[c] > 0 /\ IsUnread(c, last[c])
      leaves == active # c
  IN
  /\ Request((IF leaves THEN LeavingAcks ELSE {})
             \cup (IF read THEN {[channel |-> c, id |-> last[c]]} ELSE {}))
  /\ active' = c
  /\ pending' = (pending /\ ~leaves)
  /\ entry' = IF read THEN [entry EXCEPT ![c] = last[c]] ELSE entry
  /\ counted' = IF leaves \/ read THEN counted \ {c} ELSE counted
  /\ seen' = IF read THEN [seen EXCEPT ![c] = last[c]] ELSE seen
  /\ rewound' = IF read THEN rewound \ {c} ELSE rewound
  /\ UNCHANGED <<serverVars, events, failed, last>>

\* markChannelsAsRead from the channel list.
MarkRead(c) ==
  /\ last[c] > 0 /\ IsUnread(c, last[c])
  /\ Request({[channel |-> c, id |-> last[c]]})
  /\ ReadLocally(c, last[c])
  /\ UNCHANGED <<serverVars, events, failed, last, active, pending>>

\* activeChannelAckTimer.
AckTimer ==
  /\ pending /\ pending' = FALSE
  /\ Request(Flush)
  /\ UNCHANGED <<serverVars, events, failed, entry, last, counted, active, seen, rewound>>

-----------------------------------------------------------------------------
Handle == OnReady \/ OnActiveMessage \/ OnOwnMessage \/ OnOtherMessage \/ OnMessageAck

Next ==
  \/ SrvReady \/ Handle \/ AckTimer
  \/ \E c \in Channels : \/ SrvRemoteRead(c) \/ Select(c) \/ MarkRead(c)
                         \/ \E kind \in Kinds : SrvMessage(c, kind)
  \/ \E a \in acks : SrvAck(a)

Spec == Init /\ [][Next]_vars

-----------------------------------------------------------------------------
\* Whatever the user read here is acknowledged, unless the server refuses: a message
\* read beyond the server's cursor has its acknowledgement under way, or the timer will
\* send it.  One exception: a READY handled while the timer waits brings the server's
\* older cursor (ReadStateManager.cpp:41), and the timer acknowledges that one.
ReadIsAcknowledged ==
  \A c \in Channels : seen[c] > serverAck[c] =>
    \/ \E a \in acks \cup failed : a.channel = c /\ a.id >= seen[c]
    \/ pending /\ active = c /\ Cursor(c) >= seen[c]
    \/ c \in rewound

\* No message counts as read that nobody read: a cursor is where the user read to
\* here, or no further than the server's.
NothingSkipped == \A c \in Channels : Cursor(c) <= Larger(seen[c], serverAck[c])

\* With no event under way the client knows the newest messages and is not behind
\* the server's cursors (an entry without a cursor apart: it ignores every acknowledgement).
CaughtUp ==
  events = <<>> => \A c \in Channels :
    last[c] = newest[c] /\ (entry[c] # Invalid => Cursor(c) >= serverAck[c])

\* A cursor moves back only to what a new session says: late echoes of older
\* acknowledgements do not mark a channel unread again.
CursorMonotone ==
  [][(\A c \in Channels : Cursor(c)' >= Cursor(c)) \/ OnReady]_vars

\* Client and server know of each other what was read.
Inv == TypeOK /\ ReadIsAcknowledged /\ NothingSkipped /\ CaughtUp

=============================================================================
