---------------------------- MODULE Permissions ----------------------------
(***************************************************************************)
(* What the user may do in the channels of a guild, and whether the composer *)
(* is open (src/Core/PermissionManager.cpp, src/Core/PermissionComputer.cpp, *)
(* the handlers of src/Core/ClientInstance.cpp, src/UI/MainWindow.cpp).      *)
(*                                                                         *)
(* Permissions are computed from the roles, the user's membership and the    *)
(* channel's overwrites in the cache database, and kept until an event       *)
(* invalidates them.  Events come in the gateway's order.  The user's own    *)
(* membership is written by two kinds of events, and one of them invalidates *)
(* nothing.  All of it runs on the UI thread.                                *)
(***************************************************************************)
EXTENDS Integers, Sequences

CONSTANTS Channels,
          Roles,           \* other than @everyone
          Perms,           \* the permission bits
          Grants,          \* sets of bits a role may carry
          Overwrites,      \* a channel's overwrites: [Targets -> [deny, allow]]
          Plain,           \* the one without any
          NotYet, Gone,    \* a channel not created yet, and a deleted one
          Absent,          \* no entry in the cache
          Nowhere,         \* no channel is open
          MaxChanges,      \* changes of the guild
          MaxWire,         \* events under way
          MaxSessions      \* sessions after the first

Everyone == "everyone"
Me == "me"                       \* the target of an overwrite for the user
Send == "send"                   \* SEND_MESSAGES
Administrator == "administrator"

Targets == Roles \cup {Everyone, Me}

ASSUME PermAssumption ==
  /\ {Everyone, Me} \cap Roles = {}
  /\ {Send, Administrator} \subseteq Perms
  /\ Grants \subseteq SUBSET Perms /\ {{}, {Send}} \subseteq Grants
  /\ Plain \in Overwrites /\ Overwrites \subseteq [Targets -> [deny : SUBSET Perms, allow : SUBSET Perms]]
  /\ NotYet # Gone /\ {NotYet, Gone} \cap Overwrites = {}
  /\ \A p \in SUBSET Perms : p # Absent
  /\ Nowhere \notin Channels
  /\ {MaxChanges, MaxWire, MaxSessions} \subseteq Nat

\* The rows permissions are made of.
Guild == [roles : [Roles \cup {Everyone} -> Grants], mine : SUBSET Roles,
          over : [Channels -> Overwrites \cup {NotYet, Gone}]]

RoleEvents == [kind : {"role"}, role : Roles \cup {Everyone}, grants : Grants]
ChannelEvents == [kind : {"channel"}, channel : Channels, over : Overwrites \cup {Gone}]
MemberEvents == [kind : {"member", "list"}, mine : SUBSET Roles]
ReadyEvents == [kind : {"ready"}, guild : Guild]
Events == RoleEvents \cup ChannelEvents \cup MemberEvents \cup ReadyEvents

VARIABLES
  srv,       \* the guild as the server has it
  wire,      \* events under way
  db,        \* the guild as the cache database has it
  cache,     \* permissionCache
  open,      \* the active channel
  enabled,   \* whether the composer takes input
  hushed,    \* history: open's entry changed without a signal
  changes, sessions

permVars == <<srv, wire, db, cache, open, enabled, hushed, changes, sessions>>
bounds == <<changes, sessions>>
screen == <<open, enabled, hushed>>

PermTypeOK ==
  /\ srv \in Guild /\ db \in Guild
  /\ wire \in Seq(Events)
  /\ cache \in [Channels -> {Absent} \cup SUBSET Perms]
  /\ open \in Channels \cup {Nowhere} /\ enabled \in BOOLEAN /\ hushed \in BOOLEAN
  /\ changes \in 0..MaxChanges /\ sessions \in 0..MaxSessions

-----------------------------------------------------------------------------
(* PermissionComputer.                                                      *)

Exists(g, c) == g.over[c] \notin {NotYet, Gone}

\* computeBasePermissionsWithMap, before the test for administrators.
Base(g) == g.roles[Everyone] \cup UNION {g.roles[r] : r \in g.mine}

Overwritten(perms, deny, allow) == (perms \ deny) \cup allow

\* computeOverwrites: @everyone's, all the roles' at once, the user's own.
WithOverwrites(g, o) ==
  LET common == Overwritten(Base(g), o[Everyone].deny, o[Everyone].allow)
      byRole == Overwritten(common, UNION {o[r].deny : r \in g.mine}, UNION {o[r].allow : r \in g.mine})
  IN  Overwritten(byRole, o[Me].deny, o[Me].allow)

\* computeChannelPermissions for a member who does not own the guild.
Computed(g, c) ==
  IF ~Exists(g, c) THEN {}
  ELSE IF Administrator \in Base(g) THEN Perms ELSE WithOverwrites(g, g.over[c])

-----------------------------------------------------------------------------
(* PermissionManager and the composer.                                      *)

\* getChannelPermissions in a database g.
Answer(g, held, c) == IF held[c] = Absent THEN Computed(g, c) ELSE held[c]

\* onChannelPermissionsChanged, when the signal names the active channel.
Reshown(g, held) ==
  /\ cache' = [held EXCEPT ![open] = Answer(g, held, open)]
  /\ enabled' = (Send \in Answer(g, held, open))
  /\ hushed' = FALSE /\ UNCHANGED open

\* invalidateUserGuildCache, for the stored channels: it signals those it had an entry for.
InvalidateGuild(g) ==
  LET cleared == [c \in Channels |-> IF Exists(g, c) THEN Absent ELSE cache[c]]
  IN  IF open # Nowhere /\ Exists(g, open) /\ cache[open] # Absent
      THEN Reshown(g, cleared)
      ELSE cache' = cleared /\ UNCHANGED screen

\* invalidateChannelCache: it signals in any case.
InvalidateChannel(g, c) ==
  LET cleared == [cache EXCEPT ![c] = Absent]
  IN  IF open = c THEN Reshown(g, cleared) ELSE cache' = cleared /\ UNCHANGED screen

-----------------------------------------------------------------------------
(* The handlers.                                                            *)

Received(kind) == wire # <<>> /\ Head(wire).kind = kind /\ wire' = Tail(wire) /\ UNCHANGED <<srv, bounds>>

\* onGuildRoleCreated, onGuildRoleUpdated, onGuildRoleDeleted: a role that is gone grants nothing.
OnGuildRole ==
  /\ Received("role")
  /\ db' = [db EXCEPT !.roles[Head(wire).role] = Head(wire).grants]
  /\ InvalidateGuild(db')

\* onGuildMemberUpdate for the user.
OnGuildMemberUpdate ==
  /\ Received("member") /\ db' = [db EXCEPT !.mine = Head(wire).mine]
  /\ InvalidateGuild(db')

\* onGuildMemberListUpdate: the rows of the list are saved, the user's too.
OnGuildMemberListUpdate ==
  /\ Received("list") /\ db' = [db EXCEPT !.mine = Head(wire).mine]
  /\ UNCHANGED <<cache, screen>>

\* onChannelCreated saves and invalidates nothing; onChannelUpdated and onChannelDeleted do both.
OnChannel ==
  /\ Received("channel")
  /\ LET c == Head(wire).channel IN
       /\ db' = [db EXCEPT !.over[c] = Head(wire).over]
       /\ IF db.over[c] = NotYet THEN UNCHANGED <<cache, screen>> ELSE InvalidateChannel(db', c)

\* mutant: READY leaves what was cached before the new session
KeepsCached(g) == cache

\* precomputeGuildPermissions: the channels of READY; nothing is signalled.
Precomputed(g) == [c \in Channels |-> IF Exists(g, c) THEN Computed(g, c) ELSE cache[c]]

\* READY: saveGuild for the guild; channels it does not name keep their rows.
OnReady ==
  /\ Received("ready")
  /\ LET g == Head(wire).guild IN
       /\ cache' = Precomputed(g)
       /\ db' = [g EXCEPT !.over = [c \in Channels |-> IF Exists(g, c) THEN g.over[c] ELSE db.over[c]]]
  /\ hushed' = TRUE /\ UNCHANGED <<open, enabled>>

-----------------------------------------------------------------------------
(* The user interface.                                                      *)

\* The channel list, a menu or a message asks, of a channel that was stored once: what was
\* deleted meanwhile is answered, and kept, as no permissions.
Ask(c) ==
  /\ db.over[c] # NotYet /\ cache' = [cache EXCEPT ![c] = Answer(db, cache, c)]
  /\ UNCHANGED <<srv, wire, db, screen, bounds>>

\* insertIntoCache drops the least recently used entry, for a channel of any guild.
Evict(c) ==
  /\ cache[c] # Absent /\ cache' = [cache EXCEPT ![c] = Absent]
  /\ hushed' = (hushed \/ c = open)
  /\ UNCHANGED <<srv, wire, db, open, enabled, bounds>>

\* applyChannelChrome, for a text channel.
SelectChannel(c) ==
  /\ Exists(db, c) /\ open' = c
  /\ cache' = [cache EXCEPT ![c] = Answer(db, cache, c)]
  /\ enabled' = (Send \in Answer(db, cache, c)) /\ hushed' = FALSE
  /\ UNCHANGED <<srv, wire, db, bounds>>

-----------------------------------------------------------------------------
(* The guild changes on the server, which tells.                            *)

Tell(events) ==
  /\ Len(wire) + Len(events) <= MaxWire /\ wire' = wire \o events
  /\ changes < MaxChanges /\ changes' = changes + 1
  /\ UNCHANGED <<db, cache, screen, sessions>>

MemberEvent(kind, mine) == [kind |-> kind, mine |-> mine]

SrvRole(r, g) ==
  /\ srv.roles[r] # g /\ srv' = [srv EXCEPT !.roles[r] = g]
  /\ Tell(<<[kind |-> "role", role |-> r, grants |-> g]>>)

\* A role is deleted; who had it is told of that, too.
SrvRoleDeleted(r) ==
  LET mine == srv.mine \ {r} IN
  /\ r \in srv.mine \/ srv.roles[r] # {}
  /\ srv' = [srv EXCEPT !.roles[r] = {}, !.mine = mine]
  /\ Tell(<<[kind |-> "role", role |-> r, grants |-> {}], MemberEvent("member", mine)>>)

\* The user's roles change; if the member list shows the user, the list tells it as well.
SrvMember(mine) ==
  /\ srv.mine # mine /\ srv' = [srv EXCEPT !.mine = mine]
  /\ \/ Tell(<<MemberEvent("member", mine)>>)
     \/ Tell(<<MemberEvent("list", mine), MemberEvent("member", mine)>>)
     \/ Tell(<<MemberEvent("member", mine), MemberEvent("list", mine)>>)

SrvChannel(c, o) ==
  /\ srv.over[c] \notin {Gone, o} /\ (srv.over[c] = NotYet => o # Gone)
  /\ srv' = [srv EXCEPT !.over[c] = o]
  /\ Tell(<<[kind |-> "channel", channel |-> c, over |-> o]>>)

\* A new session: what was under way is lost.
SrvSession ==
  /\ sessions < MaxSessions /\ sessions' = sessions + 1
  /\ wire' = <<[kind |-> "ready", guild |-> srv]>>
  /\ UNCHANGED <<srv, db, cache, screen, changes>>

-----------------------------------------------------------------------------
\* A guild where everyone may write.
PermInit ==
  /\ srv \in {[roles |-> [r \in Roles \cup {Everyone} |-> IF r = Everyone THEN {Send} ELSE {}],
               mine |-> {}, over |-> o] : o \in [Channels -> {NotYet, Plain}]}
  /\ db = srv /\ cache = [c \in Channels |-> Absent]
  /\ open = Nowhere /\ enabled = FALSE /\ hushed = FALSE
  /\ wire = <<[kind |-> "ready", guild |-> srv]>> /\ changes = 0 /\ sessions = 0

\* Everything but a new session.
GuildStep ==
  \/ OnGuildRole \/ OnGuildMemberUpdate \/ OnGuildMemberListUpdate \/ OnChannel \/ OnReady
  \/ \E c \in Channels :
       Ask(c) \/ Evict(c) \/ SelectChannel(c) \/ \E o \in Overwrites \cup {Gone} : SrvChannel(c, o)
  \/ \E r \in Roles \cup {Everyone}, g \in Grants : SrvRole(r, g)
  \/ \E r \in Roles : SrvRoleDeleted(r)
  \/ \E mine \in SUBSET Roles : SrvMember(mine)

PermNext == GuildStep \/ SrvSession

PermSpec == PermInit /\ [][PermNext]_permVars

-----------------------------------------------------------------------------
\* A stale answer is kept only while the event that drops it is under way, although the
\* member list changes the rows behind the cache.
StaleNotForLong ==
  \A c \in Channels :
    Exists(srv, c) /\ cache[c] \notin {Absent, Computed(db, c)} =>
      \E i \in DOMAIN wire : wire[i].kind \in {"member", "ready"}

\* Once all events are handled the answers for the guild's channels are the server's.
QuietTrue == wire = <<>> => \A c \in Channels : Exists(srv, c) => cache[c] \in {Absent, Computed(srv, c)}

\* Then the composer is open just when the server lets the user write in the open channel,
\* unless a new session or the cache's limit replaced its entry without a signal.
ComposerTrue ==
  wire = <<>> /\ open # Nowhere /\ ~hushed =>
    (Exists(srv, open) => enabled = (Send \in Computed(srv, open)))

\* Neither the answers nor the composer stay behind the guild.
PermissionsHold == PermTypeOK /\ StaleNotForLong /\ QuietTrue /\ ComposerTrue

=============================================================================
