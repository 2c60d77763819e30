------------------------------- MODULE Session -------------------------------
(***************************************************************************)
(* Session (src/Core/Session.cpp): which client instance stands for an     *)
(* account, and the life of the account's cache database connection.       *)
(*                                                                         *)
(* Everything here runs on the UI thread, one event at a time; an instance *)
(* handles the events posted to it, and its own DeferredDelete, in the     *)
(* order of posting.  Of the gateway and the REST client only the kind of  *)
(* event they post matters (modules Gateway and HttpClient have the rest). *)
(* A cache connection is named after its account: an instance has no       *)
(* handle of its own, it finds the connection registered or not.           *)
(***************************************************************************)
EXTENDS Naturals, Sequences

CONSTANTS Accounts,
          Instances,   \* the ClientInstance objects the session may create
          Nobody,      \* no instance; no account
          MaxMail      \* bound on the events queued for an instance

ASSUME SessionAssumption ==
  Nobody \notin Accounts /\ Nobody \notin Instances /\ MaxMail \in Nat

VARIABLES
  clients,   \* Session::clients
  cacheOpen, \* the accounts whose cache connection is registered
  shown,     \* AccountsModel: the state shown per account
  down,      \* the session was shut down
  owner,     \* per instance: its account, Nobody before it is created
  life,      \* per instance: "none", "live", "dying" (deleteLater), "gone"
  state,     \* per instance: Client::state
  closer,    \* the instances whose destroyed signal closes the cache
  stopped,   \* the instances whose gateway was told to stop
  netDone,   \* the instances whose gateway has ended by itself
  mail       \* per instance: the events queued for it

tableVars == <<clients, cacheOpen, shown, down>>
instanceVars == <<owner, life, state, closer, stopped, netDone, mail>>
sessionVars == <<tableVars, instanceVars>>

State == {"Disconnected", "Connecting", "Connected", "Disconnecting"}

\* What an instance's threads post to it.  ready: READY or RESUMED; response: a
\* REST answer to be cached; retry: reconnecting; lost and fatal: disconnected.
Post == {"ready", "response", "retry", "lost", "fatal"}

SessionTypeOK ==
  /\ clients \in [Accounts -> Instances \cup {Nobody}]
  /\ cacheOpen \subseteq Accounts
  /\ shown \in [Accounts -> State] /\ down \in BOOLEAN
  /\ owner \in [Instances -> Accounts \cup {Nobody}]
  /\ life \in [Instances -> {"none", "live", "dying", "gone"}]
  /\ \A i \in Instances : owner[i] = Nobody <=> life[i] = "none"
  /\ state \in [Instances -> State]
  /\ closer \subseteq Instances /\ stopped \subseteq Instances /\ netDone \subseteq Instances
  /\ mail \in [Instances -> Seq(Post \cup {"delete"})]

SessionInit ==
  /\ clients = [a \in Accounts |-> Nobody] /\ cacheOpen = {}
  /\ shown = [a \in Accounts |-> "Disconnected"] /\ down = FALSE
  /\ owner = [i \in Instances |-> Nobody] /\ life = [i \in Instances |-> "none"]
  /\ state = [i \in Instances |-> "Disconnected"]
  /\ closer = {} /\ stopped = {} /\ netDone = {}
  /\ mail = [i \in Instances |-> <<>>]

Exists(i) == life[i] \in {"live", "dying"}

-----------------------------------------------------------------------------

\* connectAccount: refused while an instance is registered that is not
\* Disconnected.  (None ever is, see OneClientPerAccount: the branch that
\* replaces a dead instance is not reached.)
ConnectAccount(a, i) ==
  /\ ~down /\ life[i] = "none"
  /\ clients[a] = Nobody
  /\ clients' = [clients EXCEPT ![a] = i]
  /\ cacheOpen' = cacheOpen \cup {a}
  /\ owner' = [owner EXCEPT ![i] = a]
  /\ life' = [life EXCEPT ![i] = "live"]
  /\ state' = [state EXCEPT ![i] = "Connecting"]
  /\ shown' = [shown EXCEPT ![a] = "Connecting"]
  /\ UNCHANGED <<down, closer, stopped, netDone, mail>>

\* disconnectAccount: the instance stops at once and is deleted by the event loop;
\* its cache is closed when it is destroyed.
DisconnectAccount(a) ==
  LET i == clients[a] IN
  /\ ~down /\ i # Nobody
  /\ clients' = [clients EXCEPT ![a] = Nobody]
  /\ stopped' = stopped \cup {i}
  /\ state' = [state EXCEPT ![i] = "Disconnecting"]
  /\ shown' = [shown EXCEPT ![a] = "Disconnecting"]
  /\ closer' = closer \cup {i}
  /\ life' = [life EXCEPT ![i] = "dying"]
  /\ mail' = [mail EXCEPT ![i] = Append(@, "delete")]
  /\ UNCHANGED <<cacheOpen, down, owner, netDone>>

\* The threads of an instance post to it.  Its gateway ends after a fatal close, or
\* once it was told to stop.
Posts(i, e) ==
  /\ Exists(i) /\ Len(mail[i]) < MaxMail
  /\ i \in netDone => e = "response"
  /\ mail' = [mail EXCEPT ![i] = Append(@, e)]
  /\ netDone' = IF e = "fatal" \/ (e = "lost" /\ i \in stopped) THEN netDone \cup {i} ELSE netDone
  /\ UNCHANGED <<tableVars, owner, life, state, closer, stopped>>

HasMail(i) == mail[i] # <<>> /\ Exists(i)

-----------------------------------------------------------------------------
(* An instance handles its next event.                                     *)

\* Client's state changes and Session's handler passes it on.
Becomes(i, s) ==
  /\ state' = [state EXCEPT ![i] = s]
  /\ shown' = IF state[i] = s THEN shown ELSE [shown EXCEPT ![owner[i]] = s]

\* mutant: the handler does not ask which instance is registered
ReplacesAny(i) == clients[owner[i]] # Nobody

\* The handler of stateChanged(Disconnected) acts for the registered instance only.
Registered(i) == clients[owner[i]] = i

\* mutant: the instance stays registered
UnregisterLater(i) ==
  /\ cacheOpen' = cacheOpen \ {owner[i]}
  /\ life' = [life EXCEPT ![i] = "dying"]
  /\ mail' = [mail EXCEPT ![i] = Append(Tail(@), "delete")]
  /\ UNCHANGED clients

Unregister(i) ==
  /\ clients' = [clients EXCEPT ![owner[i]] = Nobody]
  /\ cacheOpen' = cacheOpen \ {owner[i]}
  /\ life' = [life EXCEPT ![i] = "dying"]
  /\ mail' = [mail EXCEPT ![i] = Append(Tail(@), "delete")]

\* onGatewayReady: not after stop(), which makes the gateway drop payloads.
HandleReady(i) ==
  /\ HasMail(i) /\ Head(mail[i]) = "ready"
  /\ IF i \in stopped THEN UNCHANGED <<state, shown>> ELSE Becomes(i, "Connected")
  /\ mail' = [mail EXCEPT ![i] = Tail(@)]
  /\ UNCHANGED <<clients, cacheOpen, down, owner, life, closer, stopped, netDone>>

\* A response is cached through the connection of that name, if there is one.
HandleResponse(i) ==
  /\ HasMail(i) /\ Head(mail[i]) = "response"
  /\ mail' = [mail EXCEPT ![i] = Tail(@)]
  /\ UNCHANGED <<tableVars, owner, life, state, closer, stopped, netDone>>

HandleRetry(i) ==
  /\ HasMail(i) /\ Head(mail[i]) = "retry"
  /\ Becomes(i, "Connecting")
  /\ mail' = [mail EXCEPT ![i] = Tail(@)]
  /\ UNCHANGED <<clients, cacheOpen, down, owner, life, closer, stopped, netDone>>

Ends(i) == \/ Head(mail[i]) = "fatal"
           \/ Head(mail[i]) = "lost" /\ state[i] = "Disconnecting"

\* onDisconnected: a fatal close, or the one that was asked for ...
HandleEnd(i) ==
  /\ HasMail(i) /\ Ends(i)
  /\ Becomes(i, "Disconnected")
  /\ IF Registered(i) /\ state[i] # "Disconnected"
     THEN Unregister(i)
     ELSE mail' = [mail EXCEPT ![i] = Tail(@)] /\ UNCHANGED <<clients, cacheOpen, life>>
  /\ UNCHANGED <<down, owner, closer, stopped, netDone>>

\* ... or one the gateway will recover from.
HandleLost(i) ==
  /\ HasMail(i) /\ Head(mail[i]) = "lost" /\ ~Ends(i)
  /\ mail' = [mail EXCEPT ![i] = Tail(@)]
  /\ UNCHANGED <<tableVars, owner, life, state, closer, stopped, netDone>>

\* ~ClientInstance: what is still queued for it dies with it; then destroyed().
HandleDelete(i) ==
  /\ HasMail(i) /\ Head(mail[i]) = "delete"
  /\ life' = [life EXCEPT ![i] = "gone"]
  /\ mail' = [mail EXCEPT ![i] = <<>>]
  /\ cacheOpen' = IF i \in closer THEN cacheOpen \ {owner[i]} ELSE cacheOpen
  /\ UNCHANGED <<clients, shown, down, owner, state, closer, stopped, netDone>>

\* shutdown, after the event loop has ended and run the pending deletes.
Shutdown ==
  /\ ~down /\ \A i \in Instances : life[i] # "dying"
  /\ down' = TRUE
  /\ clients' = [a \in Accounts |-> Nobody]
  /\ life' = [i \in Instances |-> IF life[i] = "live" THEN "gone" ELSE life[i]]
  /\ mail' = [i \in Instances |-> <<>>]
  /\ cacheOpen' = cacheOpen \ {a \in Accounts : clients[a] # Nobody}
  /\ UNCHANGED <<shown, owner, state, closer, stopped, netDone>>

Ended == down /\ UNCHANGED sessionVars

HandleMail(i) == \/ HandleReady(i) \/ HandleResponse(i) \/ HandleRetry(i)
             \/ HandleEnd(i) \/ HandleLost(i) \/ HandleDelete(i)

SessionNext ==
  \/ Shutdown \/ Ended
  \/ \E a \in Accounts : DisconnectAccount(a) \/ \E i \in Instances : ConnectAccount(a, i)
  \/ \E i \in Instances : HandleMail(i) \/ \E e \in Post : Posts(i, e)

SessionSpec == SessionInit /\ [][SessionNext]_sessionVars

-----------------------------------------------------------------------------
\* The registered instance of an account is its only one that is not being
\* deleted; it was not told to stop and has not reported Disconnected.  No
\* instance lingers as a ghost connection, and no dead one is registered.
OneClientPerAccount ==
  /\ \A a \in Accounts : clients[a] # Nobody =>
       /\ owner[clients[a]] = a /\ life[clients[a]] = "live"
       /\ state[clients[a]] \in {"Connecting", "Connected"}
       /\ clients[a] \notin stopped
  /\ \A i \in Instances : life[i] = "live" => clients[owner[i]] = i

\* When the last instance of an account is destroyed, its cache connection is
\* closed: no file handle outlives the logout.
CacheClosedWhenIdle ==
  \A a \in cacheOpen : \E i \in Instances : owner[i] = a /\ Exists(i)

\* An account keeps its instance until that instance reports Disconnected or is
\* told to stop, whatever an older instance of the account still reports.
KeptUntilItsEnd ==
  [][\A a \in Accounts : clients[a] # Nobody /\ clients'[a] # clients[a] =>
       down' \/ clients[a] \in stopped' \/ state'[clients[a]] = "Disconnected"]_sessionVars

\* An account has at most one instance, and nothing is left of its last.
OneAndClosed == SessionTypeOK /\ OneClientPerAccount /\ CacheClosedWhenIdle

=============================================================================
