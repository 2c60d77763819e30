---------------------------- MODULE DaveSession ----------------------------
(***************************************************************************)
(* End-to-end encryption of a voice call: DaveSession, and the part of     *)
(* VoiceClient that creates it, feeds it and keeps the table of who speaks *)
(* under which SSRC (src/Discord/AV/DaveSession.cpp, VoiceClient.cpp).     *)
(* Everything here runs on the voice thread; what is hard is that the      *)
(* voice server's messages and the datagrams of the other members come in  *)
(* any order.                                                              *)
(*                                                                         *)
(* The MLS library is external: a group is the number of the key material  *)
(* it exports, a new number for every commit or welcome it accepts.  Of    *)
(* the ratchets of a decryptor only the newest is kept (libdave tries the  *)
(* older ones for ten seconds more).  Transition ids matter only by being  *)
(* 0 or not: pendingTransitionId is written and never read.                *)
(***************************************************************************)
EXTENDS Naturals

CONSTANTS Users, Ssrcs,
          Nobody,    \* no user: the 0 of ssrcToUserIdMap.value(ssrc, 0)
          NoDec,     \* no decryptor for the SSRC
          Unkeyed,   \* a decryptor without a key ratchet
          MaxEpoch   \* bound on issued

ASSUME DaveAssumption ==
  /\ MaxEpoch \in Nat
  /\ Nobody \notin Users
  /\ NoDec \notin Users \X (Nat \ {0}) /\ Unkeyed \notin Users \X (Nat \ {0}) /\ NoDec # Unkeyed

VARIABLES
  dave,      \* DaveSession's fields
  dec,       \* daveDecryptors: of each SSRC, whose key of which group it holds
  ssrcMap,   \* VoiceClient::ssrcToUserIdMap, which DaveSession reads by reference
  connected, \* VoiceClient::connectedUserIds
  issued,    \* external: the number of the last group the MLS library entered
  silent,    \* history: SSRCs a CLIENT_CONNECT gave to a user under a decryptor that
             \* already existed, and that nothing has keyed since
  behind     \* history: SSRCs left in the map by a user who went with another SSRC

daveVars == <<dave, dec, ssrcMap, connected, issued, silent, behind>>

Versions == {0, 1}
Ids == {"zero", "other"}
Groups == 0..MaxEpoch            \* 0: the library is in no group
Keys == Users \X (1..MaxEpoch)

DaveTypeOK ==
  /\ dave \in [exists : BOOLEAN, version : Versions, pendingVersion : Versions,
               enabled : BOOLEAN, downgraded : BOOLEAN, ready : BOOLEAN,
               group : Groups, encryptor : Groups, users : SUBSET Users]
  /\ dec \in [Ssrcs -> Keys \cup {NoDec, Unkeyed}]
  /\ ssrcMap \in [Ssrcs -> Users \cup {Nobody}]
  /\ connected \in SUBSET Users
  /\ issued \in Groups
  /\ silent \in SUBSET Ssrcs /\ behind \in SUBSET Ssrcs

NoSession == [exists |-> FALSE, version |-> 0, pendingVersion |-> 0, enabled |-> FALSE,
              downgraded |-> FALSE, ready |-> FALSE, group |-> 0, encryptor |-> 0, users |-> {}]
NoDecryptors == [s \in Ssrcs |-> NoDec]

DaveInit ==
  /\ dave = NoSession
  /\ dec = NoDecryptors
  /\ ssrcMap = [s \in Ssrcs |-> Nobody]
  /\ connected \in SUBSET Users
  /\ issued = 0
  /\ silent = {} /\ behind = {}

-----------------------------------------------------------------------------

(* Whose ratchet the library exports of its group for a user: none without a group. *)
Ratchet(d, u, old) == IF u # Nobody /\ d.group # 0 THEN <<u, d.group>> ELSE old

\* Mutant of Reinit: the transition stays pending.
StillReady(d) == [d EXCEPT !.enabled = FALSE, !.downgraded = FALSE, !.group = 0, !.encryptor = 0]

\* DaveSession::reinit: a new library session, no decryptors, an encryptor without a key.
Reinit(d) == [d EXCEPT !.enabled = FALSE, !.downgraded = FALSE, !.ready = FALSE,
                       !.group = 0, !.encryptor = 0]

\* DaveSession::completeTransition with a commit or welcome pending.
Complete(d) == [d EXCEPT !.ready = FALSE, !.encryptor = d.group, !.enabled = TRUE,
                         !.downgraded = IF d.enabled THEN @ ELSE FALSE]
Rekeyed(d) == [s \in Ssrcs |-> IF dec[s] = NoDec THEN NoDec ELSE Ratchet(d, ssrcMap[s], dec[s])]

Completes(d) == /\ dave' = Complete(d)
                /\ dec' = Rekeyed(d)
                /\ silent' = {}

StartsOver(d) == /\ dave' = Reinit(d)
                 /\ dec' = NoDecryptors
                 /\ silent' = {}

-----------------------------------------------------------------------------
(* VoiceClient: the session's life and the users of the call. *)

\* ensureDaveSession: on SESSION_DESCRIPTION or, in a call without one, PREPARE_EPOCH.
Created(v) == StartsOver([NoSession EXCEPT !.exists = TRUE, !.version = v,
                                           !.pendingVersion = v, !.users = connected])

EnsureDaveSession(v) ==
  /\ v > 0 /\ ~dave.exists
  /\ Created(v)
  /\ UNCHANGED <<ssrcMap, connected, issued, behind>>

\* cleanupTransport: the session goes, what is known of the users stays.
CleanupTransport ==
  /\ dave.exists
  /\ dave' = NoSession
  /\ dec' = NoDecryptors
  /\ silent' = {}
  /\ UNCHANGED <<ssrcMap, connected, issued, behind>>

\* stop() of a call that is up: the users are forgotten too; the next call seeds its own.
StopCall ==
  /\ dave' = NoSession
  /\ dec' = NoDecryptors
  /\ silent' = {}
  /\ ssrcMap' = [s \in Ssrcs |-> Nobody] /\ behind' = {}
  /\ connected' \in SUBSET Users
  /\ UNCHANGED issued

\* Of the SSRCs left behind, those of others: u is in the call.
BehindOf(u) == {s \in behind : ssrcMap[s] # u}

Joins(u) == /\ connected' = connected \cup {u}
            /\ dave' = IF dave.exists THEN [dave EXCEPT !.users = @ \cup {u}] ELSE dave

\* Mutant of Applied: SPEAKING only fills the map.
NotApplied(s, u) == dec

\* applyKeyRatchetForSsrc
Applied(s, u) == [dec EXCEPT ![s] = IF @ = NoDec THEN NoDec ELSE Ratchet(dave, u, @)]

OnSpeaking(s, u) ==
  /\ Joins(u)
  /\ ssrcMap' = [ssrcMap EXCEPT ![s] = u]
  /\ dec' = Applied(s, u)
  /\ silent' = silent \ {s} /\ behind' = BehindOf(u) \ {s}
  /\ UNCHANGED issued

OnClientsConnect(u) ==
  /\ Joins(u) /\ behind' = BehindOf(u)
  /\ UNCHANGED <<dec, ssrcMap, issued, silent>>

\* Unlike SPEAKING it gives an existing decryptor no key.
OnClientConnect(s, u) ==
  /\ Joins(u)
  /\ ssrcMap' = [ssrcMap EXCEPT ![s] = u]
  /\ silent' = IF dec[s] # NoDec /\ ssrcMap[s] # u THEN silent \cup {s} ELSE silent
  /\ behind' = BehindOf(u) \ {s}
  /\ UNCHANGED <<dec, issued>>

\* Mutant of OnClientDisconnect: the map entry goes first.
MapFirst(u) ==
  /\ connected' = connected \ {u}
  /\ dave' = [dave EXCEPT !.users = @ \ {u}]
  /\ ssrcMap' = [s \in Ssrcs |-> IF ssrcMap[s] = u THEN Nobody ELSE ssrcMap[s]]
  /\ UNCHANGED <<dec, issued, silent, behind>>

\* removeConnectedUser drops the decryptor of one SSRC of the user, then the map its entry:
\* both loops break at the first, and the user's other SSRCs stay.
OnClientDisconnect(u) ==
  /\ connected' = connected \ {u}
  /\ dave' = [dave EXCEPT !.users = @ \ {u}]
  /\ \/ /\ \A s \in Ssrcs : ssrcMap[s] # u
        /\ UNCHANGED <<dec, ssrcMap, silent, behind>>
     \/ \E s \in Ssrcs :
          /\ ssrcMap[s] = u
          /\ dec' = [dec EXCEPT ![s] = NoDec]
          /\ ssrcMap' = [ssrcMap EXCEPT ![s] = Nobody]
          /\ silent' = silent \ {s}
          /\ behind' = (behind \cup {t \in Ssrcs : ssrcMap[t] = u}) \ {s}
  /\ UNCHANGED issued

-----------------------------------------------------------------------------
(* DaveSession: the voice server's messages. *)

\* The library accepted a commit or a welcome: a new group, and a transition pending.
Accepted == [dave EXCEPT !.group = issued + 1, !.ready = TRUE]

Accepts(id) ==
  /\ issued < MaxEpoch
  /\ issued' = issued + 1
  /\ IF id = "zero" THEN Completes(Accepted)
     ELSE dave' = Accepted /\ UNCHANGED <<dec, silent>>
  /\ UNCHANGED <<ssrcMap, connected, behind>>

\* One it fails or ignores changes nothing but pendingTransitionId.
OnAnnounceCommitTransition(id) == dave.exists /\ Accepts(id)

\* ProcessWelcome refuses a client that is in a group, and a roster with strangers.
OnWelcome(id, roster) ==
  /\ dave.exists /\ dave.group = 0 /\ roster \subseteq dave.users
  /\ Accepts(id)

OnPrepareTransition(v) ==
  /\ dave.exists
  /\ dave' = [dave EXCEPT !.pendingVersion = v]
  /\ UNCHANGED <<dec, ssrcMap, connected, issued, silent, behind>>

OnExecuteTransition(id) ==
  LET d == [dave EXCEPT !.version = dave.pendingVersion] IN
  /\ dave.exists
  /\ \/ /\ dave.pendingVersion = 0 /\ dave.version # 0
        /\ dave' = [d EXCEPT !.enabled = FALSE, !.downgraded = TRUE]
        /\ UNCHANGED <<dec, silent>>
     \/ /\ dave.pendingVersion # 0 \/ dave.version = 0
        /\ \/ d.ready /\ Completes(d)
           \/ /\ ~d.ready /\ id = "zero" /\ ~d.downgraded
              /\ dave' = d /\ UNCHANGED <<dec, silent>>
           \/ /\ ~d.ready /\ (id # "zero" \/ d.downgraded)
              /\ StartsOver(d)
  /\ UNCHANGED <<ssrcMap, connected, issued, behind>>

\* Of the epochs only 1, a new group, does anything.
OnPrepareEpoch(v) ==
  /\ \/ dave.exists /\ StartsOver([dave EXCEPT !.version = v])
     \/ ~dave.exists /\ v > 0 /\ Created(v)
  /\ UNCHANGED <<ssrcMap, connected, issued, behind>>

-----------------------------------------------------------------------------
\* A datagram that is not silence: onDatagram asks for the decryptor of its SSRC.
OnDatagram(s) ==
  /\ dave.exists /\ dave.enabled /\ dec[s] = NoDec
  /\ dec' = [dec EXCEPT ![s] = Ratchet(dave, ssrcMap[s], Unkeyed)]
  /\ UNCHANGED <<dave, ssrcMap, connected, issued, silent, behind>>

DaveNext ==
  \/ \E v \in Versions : EnsureDaveSession(v) \/ OnPrepareTransition(v) \/ OnPrepareEpoch(v)
  \/ CleanupTransport \/ StopCall
  \/ \E s \in Ssrcs, u \in Users : OnSpeaking(s, u) \/ OnClientConnect(s, u)
  \/ \E u \in Users : OnClientsConnect(u) \/ OnClientDisconnect(u)
  \/ \E id \in Ids : OnAnnounceCommitTransition(id) \/ OnExecuteTransition(id)
  \/ \E id \in Ids, roster \in SUBSET Users : OnWelcome(id, roster)
  \/ \E s \in Ssrcs : OnDatagram(s)

DaveSpec == DaveInit /\ [][DaveNext]_daveVars

-----------------------------------------------------------------------------
(* A session that encrypts holds a key of the group it is in: of the       *)
(* group itself, unless a commit waits for its EXECUTE_TRANSITION.         *)
(* Whatever comes between a commit and its execution (a downgrade, a new   *)
(* epoch, another commit), no transition completes without a group, which  *)
(* would leave an encryptor every frame fails in, and none leaves the      *)
(* session both enabled and downgraded.                                    *)
EnabledKeyed ==
  dave.enabled =>
    /\ dave.exists /\ ~dave.downgraded
    /\ dave.group # 0 /\ dave.encryptor # 0
    /\ ~dave.ready => dave.encryptor = dave.group

(* Outside a transition the decryptor of every speaker the client knows    *)
(* holds that speaker's key of the current group, however SPEAKING, the    *)
(* first datagram, commits and executions were ordered.  A CLIENT_CONNECT  *)
(* handled after the first datagram is the exception (see silent).         *)
SpeakersKeyed ==
  dave.enabled /\ ~dave.ready =>
    \A s \in Ssrcs \ silent :
      dec[s] # NoDec /\ ssrcMap[s] # Nobody => dec[s] = <<ssrcMap[s], dave.group>>

(* A key is held only for an SSRC that has an owner, and it is the key of   *)
(* one who is in the call: whoever left cannot be heard again under a      *)
(* forgotten decryptor (removeConnectedUser runs before the map entry      *)
(* goes, VoiceClient.cpp:584).  Two exceptions: a user who leaves with two *)
(* SSRCs keeps one entry and its decryptor, as both loops break at the     *)
(* first (VoiceClient.cpp:587-592, DaveSession.cpp:299-304; behind); and a *)
(* decryptor that CLIENT_CONNECT gave to another user has the key of the   *)
(* former one until something keys it (silent).                            *)
LeftUnheard ==
  \A s \in Ssrcs : dec[s] \in Keys =>
    /\ dave.exists /\ ssrcMap[s] # Nobody
    /\ s \notin silent \cup behind => dec[s][1] \in connected

(* The users the session accepts in a welcome are those the client knows,  *)
(* in whatever order it was created and they came and went.                *)
SameUsers == dave.exists => dave.users = connected

\* The session knows who is in the call and, up to the two exceptions, holds the keys of
\* nobody else.
MembersTrue == DaveTypeOK /\ LeftUnheard /\ SameUsers

=============================================================================
