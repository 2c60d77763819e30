--------------------------- MODULE AccountProofs ---------------------------
(***************************************************************************)
(* What is proved of an account: of Session, for any accounts, instances   *)
(* and queue bound, and of the ReadState of a client, for any channels,    *)
(* messages and bounds.  Each part says what its argument rests on.        *)
(***************************************************************************)
EXTENDS Session, ReadState, TLAPS

-----------------------------------------------------------------------------
(***************************************************************************)
(* What is proved of Session for any accounts, instances and queue bound.  *)
(*                                                                         *)
(* OneClientPerAccount is not inductive: an instance leaves "live" by its  *)
(* own deletion event, which must not be queued before it is dying         *)
(* (DeleteMeansDying), and a new instance must not have been stopped       *)
(* (FreshUnstopped).  That the cache is closed at the end needs to know    *)
(* who will close it: CacheHeld names an instance that still will.         *)
(***************************************************************************)

DeleteMeansDying ==
  \A i \in Instances : life[i] # "dying" =>
    \A k \in 1..Len(mail[i]) : mail[i][k] # "delete"
FreshUnstopped == \A i \in Instances : life[i] = "none" => i \notin stopped
CacheHeld ==
  \A a \in cacheOpen : \E i \in Instances :
    owner[i] = a /\ (life[i] = "live" \/ (life[i] = "dying" /\ i \in closer))

Lifecycle == OneClientPerAccount /\ DeleteMeansDying /\ FreshUnstopped
SessionIInv == SessionTypeOK /\ Lifecycle /\ CacheHeld

-----------------------------------------------------------------------------
\* What the queues do: Append adds one event, Tail keeps the others.
LEMMA AppendMail ==
  ASSUME NEW S, NEW s \in Seq(S), NEW e \in S
  PROVE  /\ Append(s, e) \in Seq(S)
         /\ \A x : x # e /\ (\A k \in 1..Len(s) : s[k] # x)
                 => \A k \in 1..Len(Append(s, e)) : Append(s, e)[k] # x
  OBVIOUS

\* Mail without its first item.
LEMMA TailMail ==
  ASSUME NEW S, NEW s \in Seq(S), s # <<>>
  PROVE  /\ Tail(s) \in Seq(S)
         /\ Head(s) \in S
         /\ Head(s) = s[1] /\ 1 \in 1..Len(s)
         /\ \A x : (\A k \in 1..Len(s) : s[k] # x)
                 => \A k \in 1..Len(Tail(s)) : Tail(s)[k] # x
  OBVIOUS

\* Mail with one more item.
LEMMA EndMail ==
  ASSUME NEW s \in Seq(Post \cup {"delete"}), s # <<>>
  PROVE  /\ Tail(s) \in Seq(Post \cup {"delete"})
         /\ Append(Tail(s), "delete") \in Seq(Post \cup {"delete"})
         /\ (\A k \in 1..Len(s) : s[k] # "delete")
              => \A k \in 1..Len(Tail(s)) : Tail(s)[k] # "delete"
  <1>1. Tail(s) \in Seq(Post \cup {"delete"})
    BY TailMail
  <1>2. Append(Tail(s), "delete") \in Seq(Post \cup {"delete"})
    BY <1>1
  <1> QED BY <1>1, <1>2, TailMail

\* No mail.
LEMMA EmptyMail == \A S : <<>> \in Seq(S) /\ Len(<<>>) = 0
  OBVIOUS

\* Each step keeps the types.
LEMMA TypeStep == SessionTypeOK /\ Lifecycle /\ [SessionNext]_sessionVars => SessionTypeOK'
  <1> SUFFICES ASSUME SessionTypeOK, OneClientPerAccount, [SessionNext]_sessionVars PROVE SessionTypeOK'
    BY DEF Lifecycle
  <1> USE SessionAssumption DEF SessionTypeOK, OneClientPerAccount, State, Post, tableVars, instanceVars
  <1>1. CASE Shutdown
    BY <1>1, EmptyMail DEF Shutdown
  <1>2. CASE Ended
    BY <1>2 DEF Ended, sessionVars
  <1>3. ASSUME NEW a \in Accounts, DisconnectAccount(a) PROVE SessionTypeOK'
    BY <1>3, AppendMail DEF DisconnectAccount
  <1>4. ASSUME NEW a \in Accounts, NEW i \in Instances, ConnectAccount(a, i) PROVE SessionTypeOK'
    BY <1>4 DEF ConnectAccount
  <1>5. ASSUME NEW i \in Instances, NEW e \in Post, Posts(i, e) PROVE SessionTypeOK'
    BY <1>5, AppendMail DEF Posts, Exists
  <1>6. ASSUME NEW i \in Instances, HandleReady(i) PROVE SessionTypeOK'
    <2>1. owner[i] \in Accounts /\ Tail(mail[i]) \in Seq(Post \cup {"delete"})
      BY <1>6, TailMail DEF HandleReady, HasMail, Exists
    <2>2. CASE i \in stopped
      BY <1>6, <2>1, <2>2 DEF HandleReady
    <2>3. CASE i \notin stopped
      <3>1. /\ state' = [state EXCEPT ![i] = "Connected"]
            /\ shown' = (IF state[i] = "Connected" THEN shown
                         ELSE [shown EXCEPT ![owner[i]] = "Connected"])
            /\ mail' = [mail EXCEPT ![i] = Tail(mail[i])]
            /\ UNCHANGED <<clients, cacheOpen, down, owner, life, closer, stopped, netDone>>
        BY <1>6, <2>3 DEF HandleReady, Becomes
      <3>2. shown' \in [Accounts -> State] /\ state' \in [Instances -> State]
        BY <2>1, <3>1
      <3> QED BY <2>1, <3>1, <3>2
    <2> QED BY <2>2, <2>3
  <1>7. ASSUME NEW i \in Instances, HandleResponse(i) PROVE SessionTypeOK'
    BY <1>7, TailMail DEF HandleResponse, HasMail, Exists
  <1>8. ASSUME NEW i \in Instances, HandleRetry(i) PROVE SessionTypeOK'
    BY <1>8, TailMail DEF HandleRetry, Becomes, HasMail, Exists
  <1>9. ASSUME NEW i \in Instances, HandleEnd(i) PROVE SessionTypeOK'
    <2>1. /\ owner[i] \in Accounts /\ state[i] \in State
          /\ mail[i] \in Seq(Post \cup {"delete"}) /\ mail[i] # <<>>
      BY <1>9 DEF HandleEnd, HasMail, Exists, State
    <2>2. /\ Tail(mail[i]) \in Seq(Post \cup {"delete"})
          /\ Append(Tail(mail[i]), "delete") \in Seq(Post \cup {"delete"})
          /\ (\A k \in 1..Len(mail[i]) : mail[i][k] # "delete")
               => \A k \in 1..Len(Tail(mail[i])) : Tail(mail[i])[k] # "delete"
      BY <2>1, EndMail
    <2>3. CASE Registered(i) /\ state[i] # "Disconnected"
      <3>1. /\ clients[owner[i]] = i
            /\ clients' = [clients EXCEPT ![owner[i]] = Nobody]
            /\ cacheOpen' = cacheOpen \ {owner[i]}
            /\ life' = [life EXCEPT ![i] = "dying"]
            /\ mail' = [mail EXCEPT ![i] = Append(Tail(mail[i]), "delete")]
            /\ state' = [state EXCEPT ![i] = "Disconnected"]
            /\ shown' = [shown EXCEPT ![owner[i]] = "Disconnected"]
            /\ UNCHANGED <<down, owner, closer, stopped, netDone>>
        BY <1>9, <2>3 DEF HandleEnd, Becomes, Registered, Unregister
      <3> QED BY <2>1, <2>2, <3>1
    <2>4. CASE ~(Registered(i) /\ state[i] # "Disconnected")
      <3>1. /\ clients' = clients /\ cacheOpen' = cacheOpen /\ life' = life
            /\ mail' = [mail EXCEPT ![i] = Tail(mail[i])]
            /\ state' = [state EXCEPT ![i] = "Disconnected"]
            /\ shown' = (IF state[i] = "Disconnected" THEN shown
                         ELSE [shown EXCEPT ![owner[i]] = "Disconnected"])
            /\ UNCHANGED <<down, owner, closer, stopped, netDone>>
        BY <1>9, <2>4 DEF HandleEnd, Becomes
      <3>2. clients[owner[i]] # i \/ state[i] = "Disconnected"
        BY <2>4 DEF Registered
      <3> QED BY <2>1, <2>2, <3>1, <3>2
    <2> QED BY <2>3, <2>4
  <1>10. ASSUME NEW i \in Instances, HandleLost(i) PROVE SessionTypeOK'
    BY <1>10, TailMail DEF HandleLost, HasMail, Exists
  <1>11. ASSUME NEW i \in Instances, HandleDelete(i) PROVE SessionTypeOK'
    BY <1>11, EmptyMail, TailMail DEF HandleDelete, HasMail, Exists
  <1>12. CASE UNCHANGED sessionVars
    BY <1>12 DEF sessionVars, tableVars, instanceVars
  <1> QED BY <1>1, <1>2, <1>3, <1>4, <1>5, <1>6, <1>7, <1>8, <1>9, <1>10, <1>11, <1>12 DEF SessionNext, HandleMail

\* Deletions are queued for dying instances only, once.
LEMMA DeleteStep == SessionTypeOK /\ Lifecycle /\ [SessionNext]_sessionVars => DeleteMeansDying'
  <1> SUFFICES ASSUME SessionTypeOK, OneClientPerAccount, DeleteMeansDying, [SessionNext]_sessionVars
               PROVE DeleteMeansDying'
    BY DEF Lifecycle
  <1> USE SessionAssumption DEF SessionTypeOK, OneClientPerAccount, DeleteMeansDying, Post, tableVars, instanceVars
  <1>1. CASE Shutdown
    BY <1>1, EmptyMail DEF Shutdown
  <1>2. CASE Ended
    BY <1>2 DEF Ended, sessionVars
  <1>3. ASSUME NEW a \in Accounts, DisconnectAccount(a) PROVE DeleteMeansDying'
    BY <1>3, AppendMail DEF DisconnectAccount
  <1>4. ASSUME NEW a \in Accounts, NEW i \in Instances, ConnectAccount(a, i) PROVE DeleteMeansDying'
    BY <1>4 DEF ConnectAccount
  <1>5. ASSUME NEW i \in Instances, NEW e \in Post, Posts(i, e) PROVE DeleteMeansDying'
    BY <1>5, AppendMail DEF Posts, Exists
  <1>6. ASSUME NEW i \in Instances, HandleReady(i) PROVE DeleteMeansDying'
    BY <1>6, TailMail DEF HandleReady, Becomes, HasMail, Exists
  <1>7. ASSUME NEW i \in Instances, HandleResponse(i) PROVE DeleteMeansDying'
    BY <1>7, TailMail DEF HandleResponse, HasMail, Exists
  <1>8. ASSUME NEW i \in Instances, HandleRetry(i) PROVE DeleteMeansDying'
    BY <1>8, TailMail DEF HandleRetry, Becomes, HasMail, Exists
  <1>9. ASSUME NEW i \in Instances, HandleEnd(i) PROVE DeleteMeansDying'
    <2>1. /\ owner[i] \in Accounts /\ state[i] \in State
          /\ mail[i] \in Seq(Post \cup {"delete"}) /\ mail[i] # <<>>
      BY <1>9 DEF HandleEnd, HasMail, Exists, State
    <2>2. /\ Tail(mail[i]) \in Seq(Post \cup {"delete"})
          /\ Append(Tail(mail[i]), "delete") \in Seq(Post \cup {"delete"})
          /\ (\A k \in 1..Len(mail[i]) : mail[i][k] # "delete")
               => \A k \in 1..Len(Tail(mail[i])) : Tail(mail[i])[k] # "delete"
      BY <2>1, EndMail
    <2>3. CASE Registered(i) /\ state[i] # "Disconnected"
      <3>1. /\ clients[owner[i]] = i
            /\ clients' = [clients EXCEPT ![owner[i]] = Nobody]
            /\ cacheOpen' = cacheOpen \ {owner[i]}
            /\ life' = [life EXCEPT ![i] = "dying"]
            /\ mail' = [mail EXCEPT ![i] = Append(Tail(mail[i]), "delete")]
            /\ state' = [state EXCEPT ![i] = "Disconnected"]
            /\ shown' = [shown EXCEPT ![owner[i]] = "Disconnected"]
            /\ UNCHANGED <<down, owner, closer, stopped, netDone>>
        BY <1>9, <2>3 DEF HandleEnd, Becomes, Registered, Unregister
      <3> QED BY <2>1, <2>2, <3>1
    <2>4. CASE ~(Registered(i) /\ state[i] # "Disconnected")
      <3>1. /\ clients' = clients /\ cacheOpen' = cacheOpen /\ life' = life
            /\ mail' = [mail EXCEPT ![i] = Tail(mail[i])]
            /\ state' = [state EXCEPT ![i] = "Disconnected"]
            /\ shown' = (IF state[i] = "Disconnected" THEN shown
                         ELSE [shown EXCEPT ![owner[i]] = "Disconnected"])
            /\ UNCHANGED <<down, owner, closer, stopped, netDone>>
        BY <1>9, <2>4 DEF HandleEnd, Becomes
      <3>2. clients[owner[i]] # i \/ state[i] = "Disconnected"
        BY <2>4 DEF Registered
      <3> QED BY <2>1, <2>2, <3>1, <3>2
    <2> QED BY <2>3, <2>4
  <1>10. ASSUME NEW i \in Instances, HandleLost(i) PROVE DeleteMeansDying'
    BY <1>10, TailMail DEF HandleLost, HasMail, Exists
  <1>11. ASSUME NEW i \in Instances, HandleDelete(i) PROVE DeleteMeansDying'
    BY <1>11, EmptyMail, TailMail DEF HandleDelete, HasMail, Exists
  <1>12. CASE UNCHANGED sessionVars
    BY <1>12 DEF sessionVars, tableVars, instanceVars
  <1> QED BY <1>1, <1>2, <1>3, <1>4, <1>5, <1>6, <1>7, <1>8, <1>9, <1>10, <1>11, <1>12 DEF SessionNext, HandleMail

\* Each step keeps the life cycle.
LEMMA LifecycleStep ==
  SessionTypeOK /\ Lifecycle /\ [SessionNext]_sessionVars => OneClientPerAccount' /\ FreshUnstopped'
  <1> SUFFICES ASSUME SessionTypeOK, OneClientPerAccount, DeleteMeansDying, FreshUnstopped, [SessionNext]_sessionVars
               PROVE OneClientPerAccount' /\ FreshUnstopped'
    BY DEF Lifecycle
  <1> USE SessionAssumption
      DEF SessionTypeOK, OneClientPerAccount, DeleteMeansDying, FreshUnstopped, Post, tableVars, instanceVars
  <1>1. CASE Shutdown
    BY <1>1, EmptyMail DEF Shutdown
  <1>2. CASE Ended
    BY <1>2 DEF Ended, sessionVars
  <1>3. ASSUME NEW a \in Accounts, DisconnectAccount(a) PROVE OneClientPerAccount' /\ FreshUnstopped'
    BY <1>3, AppendMail DEF DisconnectAccount
  <1>4. ASSUME NEW a \in Accounts, NEW i \in Instances, ConnectAccount(a, i) PROVE OneClientPerAccount' /\ FreshUnstopped'
    BY <1>4 DEF ConnectAccount
  <1>5. ASSUME NEW i \in Instances, NEW e \in Post, Posts(i, e) PROVE OneClientPerAccount' /\ FreshUnstopped'
    BY <1>5, AppendMail DEF Posts, Exists
  <1>6. ASSUME NEW i \in Instances, HandleReady(i) PROVE OneClientPerAccount' /\ FreshUnstopped'
    BY <1>6, TailMail DEF HandleReady, Becomes, HasMail, Exists
  <1>7. ASSUME NEW i \in Instances, HandleResponse(i) PROVE OneClientPerAccount' /\ FreshUnstopped'
    BY <1>7, TailMail DEF HandleResponse, HasMail, Exists
  <1>8. ASSUME NEW i \in Instances, HandleRetry(i) PROVE OneClientPerAccount' /\ FreshUnstopped'
    BY <1>8, TailMail DEF HandleRetry, Becomes, HasMail, Exists
  <1>9. ASSUME NEW i \in Instances, HandleEnd(i) PROVE OneClientPerAccount' /\ FreshUnstopped'
    <2>1. /\ owner[i] \in Accounts /\ state[i] \in State
          /\ mail[i] \in Seq(Post \cup {"delete"}) /\ mail[i] # <<>>
      BY <1>9 DEF HandleEnd, HasMail, Exists, State
    <2>2. /\ Tail(mail[i]) \in Seq(Post \cup {"delete"})
          /\ Append(Tail(mail[i]), "delete") \in Seq(Post \cup {"delete"})
          /\ (\A k \in 1..Len(mail[i]) : mail[i][k] # "delete")
               => \A k \in 1..Len(Tail(mail[i])) : Tail(mail[i])[k] # "delete"
      BY <2>1, EndMail
    <2>3. CASE Registered(i) /\ state[i] # "Disconnected"
      <3>1. /\ clients[owner[i]] = i
            /\ clients' = [clients EXCEPT ![owner[i]] = Nobody]
            /\ cacheOpen' = cacheOpen \ {owner[i]}
            /\ life' = [life EXCEPT ![i] = "dying"]
            /\ mail' = [mail EXCEPT ![i] = Append(Tail(mail[i]), "delete")]
            /\ state' = [state EXCEPT ![i] = "Disconnected"]
            /\ shown' = [shown EXCEPT ![owner[i]] = "Disconnected"]
            /\ UNCHANGED <<down, owner, closer, stopped, netDone>>
        BY <1>9, <2>3 DEF HandleEnd, Becomes, Registered, Unregister
      <3> QED BY <2>1, <2>2, <3>1
    <2>4. CASE ~(Registered(i) /\ state[i] # "Disconnected")
      <3>1. /\ clients' = clients /\ cacheOpen' = cacheOpen /\ life' = life
            /\ mail' = [mail EXCEPT ![i] = Tail(mail[i])]
            /\ state' = [state EXCEPT ![i] = "Disconnected"]
            /\ shown' = (IF state[i] = "Disconnected" THEN shown
                         ELSE [shown EXCEPT ![owner[i]] = "Disconnected"])
            /\ UNCHANGED <<down, owner, closer, stopped, netDone>>
        BY <1>9, <2>4 DEF HandleEnd, Becomes
      <3>2. clients[owner[i]] # i \/ state[i] = "Disconnected"
        BY <2>4 DEF Registered
      <3> QED BY <2>1, <2>2, <3>1, <3>2
    <2> QED BY <2>3, <2>4
  <1>10. ASSUME NEW i \in Instances, HandleLost(i) PROVE OneClientPerAccount' /\ FreshUnstopped'
    BY <1>10, TailMail DEF HandleLost, HasMail, Exists
  <1>11. ASSUME NEW i \in Instances, HandleDelete(i) PROVE OneClientPerAccount' /\ FreshUnstopped'
    BY <1>11, EmptyMail, TailMail DEF HandleDelete, HasMail, Exists
  <1>12. CASE UNCHANGED sessionVars
    BY <1>12 DEF sessionVars, tableVars, instanceVars
  <1> QED BY <1>1, <1>2, <1>3, <1>4, <1>5, <1>6, <1>7, <1>8, <1>9, <1>10, <1>11, <1>12 DEF SessionNext, HandleMail

\* Each step keeps who will close a cache.
LEMMA CacheStep == SessionIInv /\ [SessionNext]_sessionVars => CacheHeld'
  <1> SUFFICES ASSUME SessionTypeOK, OneClientPerAccount, DeleteMeansDying, CacheHeld, [SessionNext]_sessionVars
               PROVE CacheHeld'
    BY DEF SessionIInv, Lifecycle
  <1> USE SessionAssumption
      DEF SessionTypeOK, OneClientPerAccount, DeleteMeansDying, CacheHeld, Post, tableVars, instanceVars
  <1>1. CASE Shutdown
    BY <1>1, EmptyMail DEF Shutdown
  <1>2. CASE Ended
    BY <1>2 DEF Ended, sessionVars
  <1>3. ASSUME NEW a \in Accounts, DisconnectAccount(a) PROVE CacheHeld'
    BY <1>3, AppendMail DEF DisconnectAccount
  <1>4. ASSUME NEW a \in Accounts, NEW i \in Instances, ConnectAccount(a, i) PROVE CacheHeld'
    BY <1>4 DEF ConnectAccount
  <1>5. ASSUME NEW i \in Instances, NEW e \in Post, Posts(i, e) PROVE CacheHeld'
    BY <1>5, AppendMail DEF Posts, Exists
  <1>6. ASSUME NEW i \in Instances, HandleReady(i) PROVE CacheHeld'
    BY <1>6, TailMail DEF HandleReady, Becomes, HasMail, Exists
  <1>7. ASSUME NEW i \in Instances, HandleResponse(i) PROVE CacheHeld'
    BY <1>7, TailMail DEF HandleResponse, HasMail, Exists
  <1>8. ASSUME NEW i \in Instances, HandleRetry(i) PROVE CacheHeld'
    BY <1>8, TailMail DEF HandleRetry, Becomes, HasMail, Exists
  <1>9. ASSUME NEW i \in Instances, HandleEnd(i) PROVE CacheHeld'
    <2>1. /\ owner[i] \in Accounts /\ state[i] \in State
          /\ mail[i] \in Seq(Post \cup {"delete"}) /\ mail[i] # <<>>
      BY <1>9 DEF HandleEnd, HasMail, Exists, State
    <2>2. /\ Tail(mail[i]) \in Seq(Post \cup {"delete"})
          /\ Append(Tail(mail[i]), "delete") \in Seq(Post \cup {"delete"})
          /\ (\A k \in 1..Len(mail[i]) : mail[i][k] # "delete")
               => \A k \in 1..Len(Tail(mail[i])) : Tail(mail[i])[k] # "delete"
      BY <2>1, EndMail
    <2>3. CASE Registered(i) /\ state[i] # "Disconnected"
      <3>1. /\ clients[owner[i]] = i
            /\ clients' = [clients EXCEPT ![owner[i]] = Nobody]
            /\ cacheOpen' = cacheOpen \ {owner[i]}
            /\ life' = [life EXCEPT ![i] = "dying"]
            /\ mail' = [mail EXCEPT ![i] = Append(Tail(mail[i]), "delete")]
            /\ state' = [state EXCEPT ![i] = "Disconnected"]
            /\ shown' = [shown EXCEPT ![owner[i]] = "Disconnected"]
            /\ UNCHANGED <<down, owner, closer, stopped, netDone>>
        BY <1>9, <2>3 DEF HandleEnd, Becomes, Registered, Unregister
      <3> QED BY <2>1, <2>2, <3>1
    <2>4. CASE ~(Registered(i) /\ state[i] # "Disconnected")
      <3>1. /\ clients' = clients /\ cacheOpen' = cacheOpen /\ life' = life
            /\ mail' = [mail EXCEPT ![i] = Tail(mail[i])]
            /\ state' = [state EXCEPT ![i] = "Disconnected"]
            /\ shown' = (IF state[i] = "Disconnected" THEN shown
                         ELSE [shown EXCEPT ![owner[i]] = "Disconnected"])
            /\ UNCHANGED <<down, owner, closer, stopped, netDone>>
        BY <1>9, <2>4 DEF HandleEnd, Becomes
      <3>2. clients[owner[i]] # i \/ state[i] = "Disconnected"
        BY <2>4 DEF Registered
      <3> QED BY <2>1, <2>2, <3>1, <3>2
    <2> QED BY <2>3, <2>4
  <1>10. ASSUME NEW i \in Instances, HandleLost(i) PROVE CacheHeld'
    BY <1>10, TailMail DEF HandleLost, HasMail, Exists
  <1>11. ASSUME NEW i \in Instances, HandleDelete(i) PROVE CacheHeld'
    BY <1>11, EmptyMail, TailMail DEF HandleDelete, HasMail, Exists
  <1>12. CASE UNCHANGED sessionVars
    BY <1>12 DEF sessionVars, tableVars, instanceVars
  <1> QED BY <1>1, <1>2, <1>3, <1>4, <1>5, <1>6, <1>7, <1>8, <1>9, <1>10, <1>11, <1>12 DEF SessionNext, HandleMail

\* The initial state.
LEMMA InvInit == SessionInit => SessionIInv
  <1> SUFFICES ASSUME SessionInit PROVE SessionIInv
    OBVIOUS
  <1> USE SessionAssumption DEF SessionInit
  <1>1. SessionTypeOK
    BY EmptyMail DEF SessionTypeOK, State
  <1>2. OneClientPerAccount /\ FreshUnstopped /\ CacheHeld
    BY DEF OneClientPerAccount, FreshUnstopped, CacheHeld
  <1>3. DeleteMeansDying
    BY EmptyMail DEF DeleteMeansDying
  <1> QED BY <1>1, <1>2, <1>3 DEF SessionIInv, Lifecycle

\* SessionIInv is inductive.
LEMMA SessionInvariance == SessionSpec => []SessionIInv
  <1>1. SessionIInv /\ [SessionNext]_sessionVars => SessionIInv'
    BY TypeStep, DeleteStep, LifecycleStep, CacheStep DEF SessionIInv, Lifecycle
  <1> QED BY InvInit, <1>1, PTL DEF SessionSpec

-----------------------------------------------------------------------------
\* No variable leaves its type: every instance that was created has an account.
THEOREM TypeCorrect == SessionSpec => []SessionTypeOK
  BY SessionInvariance, PTL DEF SessionIInv

\* Session registers the only instance of an account that is not being deleted.
THEOREM OneClient == SessionSpec => []OneClientPerAccount
  BY SessionInvariance, PTL DEF SessionIInv, Lifecycle

\* Whatever the order of connects, disconnects and deletions, the last instance of
\* an account leaves its cache connection closed.
THEOREM CacheClosed == SessionSpec => []CacheClosedWhenIdle
  <1>1. SessionIInv => CacheClosedWhenIdle
    BY DEF SessionIInv, CacheHeld, CacheClosedWhenIdle, Exists
  <1> QED BY SessionInvariance, <1>1, PTL

\* An older instance never unregisters a newer one.
THEOREM Kept == SessionSpec => KeptUntilItsEnd
  <1> DEFINE Step == \A a \in Accounts : clients[a] # Nobody /\ clients'[a] # clients[a] =>
                      down' \/ clients[a] \in stopped' \/ state'[clients[a]] = "Disconnected"
  <1>1. SessionIInv /\ [SessionNext]_sessionVars => [Step]_sessionVars
    <2> SUFFICES ASSUME SessionIInv, [SessionNext]_sessionVars, NEW b \in Accounts,
                        clients[b] # Nobody, clients'[b] # clients[b]
                 PROVE down' \/ clients[b] \in stopped' \/ state'[clients[b]] = "Disconnected"
      OBVIOUS
    <2> USE DEF SessionIInv, SessionTypeOK, Lifecycle, OneClientPerAccount, tableVars
    <2>1. CASE Shutdown
      BY <2>1 DEF Shutdown
    <2>2. ASSUME NEW a \in Accounts, DisconnectAccount(a) PROVE clients[b] \in stopped'
      BY <2>2 DEF DisconnectAccount
    <2>3. ASSUME NEW a \in Accounts, NEW i \in Instances, ConnectAccount(a, i) PROVE FALSE
      BY <2>3 DEF ConnectAccount
    <2>4. ASSUME NEW i \in Instances, HandleEnd(i) PROVE state'[clients[b]] = "Disconnected"
      BY <2>4 DEF HandleEnd, Becomes, Registered, Unregister
    <2>5. Shutdown \/ (\E a \in Accounts : DisconnectAccount(a))
          \/ (\E a \in Accounts, i \in Instances : ConnectAccount(a, i))
          \/ (\E i \in Instances : HandleEnd(i))
      BY DEF SessionNext, Ended, HandleMail, Posts, HandleReady, HandleResponse, HandleRetry,
             HandleLost, HandleDelete, sessionVars
    <2> QED BY <2>1, <2>2, <2>3, <2>4, <2>5
  <1> QED BY <1>1, SessionInvariance, PTL DEF SessionSpec, KeptUntilItsEnd

\* What the run checks of an account's instances, for any accounts and instances.
THEOREM AccountsKept == SessionSpec => []OneAndClosed
  BY TypeCorrect, OneClient, CacheClosed, PTL DEF OneAndClosed

-----------------------------------------------------------------------------
(***************************************************************************)
(* What is proved of ReadState for any channels, messages and bounds.      *)
(*                                                                         *)
(* The argument is about the order of the gateway's events.  A message is  *)
(* newer than all that comes before it (CreatesNew); an acknowledgement    *)
(* follows the message it is for (AcksFollow); whatever the client does    *)
(* not know yet is on its way (LastComing, CursorComing, and ReadyComing   *)
(* for a READY, which takes back what the client knew).  HeldComing covers *)
(* an entry without a cursor, which ignores the events meant for it.       *)
(***************************************************************************)

\* Nobody knows of a message the server does not have.
Bounded ==
  /\ \A c \in Channels : /\ serverAck[c] <= newest[c] /\ last[c] <= newest[c]
                         /\ Cursor(c) <= newest[c]
  /\ \A a \in acks : a.id <= newest[a.channel]

\* An event says what the server knows by now.
Says(e) ==
  /\ e.type \in {"create", "ack"} => e.id <= newest[e.channel]
  /\ e.type = "ack" => e.id <= serverAck[e.channel]
  /\ e.type = "create" /\ e.kind = "own" => e.id <= serverAck[e.channel]
  /\ e.type = "ready" => \A c \in Channels : /\ e.cursor[c] <= serverAck[c]
                                             /\ e.cursor[c] <= e.newest[c]
                                             /\ e.newest[c] <= newest[c]
EventsSay == \A i \in 1..Len(events) : Says(events[i])
ReadyFirst == \A i \in 1..Len(events) : events[i].type = "ready" => i = 1

\* What e tells of channel c is older than id.
Older(e, c, id) ==
  /\ e.type \in {"create", "ack"} /\ e.channel = c => e.id < id
  /\ e.type = "ready" => e.newest[c] < id

CreatesNew ==
  \A i \in 1..Len(events) : events[i].type = "create" =>
    /\ Cursor(events[i].channel) < events[i].id /\ last[events[i].channel] < events[i].id
    /\ \A j \in 1..i - 1 : Older(events[j], events[i].channel, events[i].id)

\* e tells of message n of channel c, or of a newer one.
Tells(e, c, n) == \/ e.type = "create" /\ e.channel = c /\ e.id >= n
                  \/ e.type = "ready" /\ e.newest[c] >= n

AcksFollow ==
  \A i \in 1..Len(events) : events[i].type = "ack" =>
    \/ last[events[i].channel] >= events[i].id
    \/ \E j \in 1..i - 1 : Tells(events[j], events[i].channel, events[i].id)

LastComing ==
  \A c \in Channels : \/ last[c] = newest[c]
                      \/ \E i \in 1..Len(events) : Tells(events[i], c, newest[c])

\* e moves the cursor of channel c to n.
Moves(e, c, n) ==
  \/ e.type = "ack" /\ e.channel = c /\ e.id = n
  \/ e.type = "create" /\ e.kind = "own" /\ e.channel = c /\ e.id = n
  \/ e.type = "ready" /\ e.cursor[c] = n

MoveComing(c, from) == \E i \in from..Len(events) : Moves(events[i], c, serverAck[c])

CursorComing ==
  \A c \in Channels : entry[c] = Invalid \/ Cursor(c) >= serverAck[c] \/ MoveComing(c, 1)
HeldComing == \A c \in Channels : last[c] >= serverAck[c] \/ MoveComing(c, 1)
ReadyComing ==
  events # <<>> /\ events[1].type = "ready" =>
    \A c \in Channels : events[1].cursor[c] = serverAck[c] \/ MoveComing(c, 2)

Order == EventsSay /\ ReadyFirst /\ CreatesNew /\ AcksFollow
Coming == LastComing /\ CursorComing /\ HeldComing /\ ReadyComing
IInv == TypeOK /\ Bounded /\ Order /\ Coming /\ ReadIsAcknowledged /\ NothingSkipped

-----------------------------------------------------------------------------
\* What is left when the first event is handled.
LEMMA TailIs ==
  ASSUME NEW S, NEW s \in Seq(S), s # <<>>
  PROVE  /\ Tail(s) \in Seq(S) /\ Len(s) \in Nat /\ Len(s) >= 1 /\ Len(Tail(s)) = Len(s) - 1
         /\ Head(s) = s[1] /\ s[1] \in S
         /\ \A i \in 1..Len(s) : s[i] \in S
         /\ \A i \in 1..Len(s) - 1 : Tail(s)[i] = s[i + 1]
  OBVIOUS

\* What there is when an event is sent.
LEMMA AppendIs ==
  ASSUME NEW S, NEW s \in Seq(S), NEW e \in S
  PROVE  /\ Append(s, e) \in Seq(S) /\ Len(s) \in Nat /\ Len(Append(s, e)) = Len(s) + 1
         /\ Append(s, e)[Len(s) + 1] = e
         /\ \A i \in 1..Len(s) : Append(s, e)[i] = s[i] /\ s[i] \in S
  OBVIOUS

\* The three kinds of events, and what each carries.
LEMMA EventIs ==
  ASSUME NEW e \in Event
  PROVE  /\ e.type \in {"create", "ack", "ready"}
         /\ e.type \in {"create", "ack"} => e.channel \in Channels /\ e.id \in Id
         /\ e.type = "create" => e.kind \in Kinds
         /\ e.type = "ready" => /\ e.cursor \in [Channels -> 0..MaxMessages]
                                /\ e.newest \in [Channels -> 0..MaxMessages]
  BY DEF Event

\* A cursor is an id or nothing.
LEMMA CursorIs ==
  ASSUME TypeOK, NEW c \in Channels
  PROVE  Cursor(c) \in 0..MaxMessages /\ (entry[c] # Invalid => Cursor(c) = entry[c])
  BY ReadStateAssumption DEF TypeOK, Cursor, HasCursor, Id, Invalid

\* The client handles its next event: what it learns is what the event says.
LEMMA Handled ==
  ASSUME IInv, TypeOK', events # <<>>, events' = Tail(events), UNCHANGED serverVars,
         NEW h \in Event, h = Head(events),
         \A c \in Channels :
           /\ \/ last'[c] = last[c]
              \/ h.type = "create" /\ h.channel = c /\ last'[c] = h.id
              \/ h.type = "ready" /\ last'[c] = h.newest[c]
           /\ last'[c] >= last[c]
           /\ h.type = "create" /\ h.channel = c => last'[c] >= h.id
           /\ h.type = "ready" => last'[c] >= h.newest[c]
           /\ \/ Cursor(c)' = Cursor(c) \/ Cursor(c)' = 0
              \/ h.type \in {"create", "ack"} /\ h.channel = c /\ Cursor(c)' = h.id
              \/ h.type = "ready" /\ Cursor(c)' = h.cursor[c]
           /\ entry'[c] = Invalid \/ Cursor(c)' >= serverAck[c] \/ MoveComing(c, 2)
  PROVE  Order' /\ Coming'
  <1> USE DEF IInv, Order, Coming
  <1>1. /\ events \in Seq(Event) /\ serverAck' = serverAck /\ newest' = newest
        /\ \A c \in Channels : /\ serverAck[c] \in 0..MaxMessages /\ newest[c] \in 0..MaxMessages
                               /\ last[c] \in 0..MaxMessages /\ last'[c] \in 0..MaxMessages
    BY DEF TypeOK, serverVars
  <1>2. /\ h = events[1] /\ Len(events) \in Nat /\ Len(events) >= 1
        /\ Len(events') = Len(events) - 1
        /\ \A i \in 1..Len(events') : /\ events'[i] = events[i + 1] /\ i + 1 \in 1..Len(events)
                                      /\ events[i + 1] \in Event
        /\ \A i \in 2..Len(events) : i - 1 \in 1..Len(events') /\ events'[i - 1] = events[i]
    BY <1>1, TailIs
  <1>3. \A c \in Channels : Cursor(c) \in 0..MaxMessages /\ Cursor(c)' \in 0..MaxMessages
    <2>1. \A c \in Channels : entry[c] \in 0..Invalid /\ entry'[c] \in 0..Invalid
      BY DEF TypeOK
    <2> QED BY <2>1, ReadStateAssumption DEF Cursor, HasCursor, Id
  <1>4. EventsSay' /\ ReadyFirst'
    <2>1. EventsSay'
      BY <1>1, <1>2 DEF EventsSay, Says
    <2>2. ReadyFirst'
      BY <1>2 DEF ReadyFirst
    <2> QED BY <2>1, <2>2
  <1>5. CreatesNew'
    <2> SUFFICES ASSUME NEW i \in 1..Len(events'), events'[i].type = "create"
                 PROVE /\ Cursor(events[i].channel)' < events'[i].id
                       /\ last'[events'[i].channel] < events'[i].id
                       /\ \A j \in 1..i - 1 : Older(events'[j], events'[i].channel, events'[i].id)
      BY DEF CreatesNew
    <2> DEFINE m == events[i + 1]
    <2>1. /\ m = events'[i] /\ m.type = "create" /\ m.channel \in Channels /\ m.id \in Nat /\ m.id >= 1
          /\ Cursor(m.channel) < m.id /\ last[m.channel] < m.id
          /\ \A j \in 1..i : Older(events[j], m.channel, m.id)
      BY <1>2, EventIs DEF CreatesNew, Id
    <2>2. Older(h, m.channel, m.id)
      BY <1>2, <2>1
    <2>3. h.type = "ready" => h.cursor[m.channel] < m.id
      <3>1. Says(h)
        BY <1>2 DEF EventsSay
      <3>2. h.type = "ready" => h.cursor[m.channel] \in Nat /\ h.newest[m.channel] \in Nat
        BY <2>1, EventIs
      <3> QED BY <2>1, <2>2, <3>1, <3>2 DEF Says, Older
    <2>4. \A j \in 1..i - 1 : Older(events'[j], m.channel, m.id)
      BY <1>2, <2>1
    <2> HIDE DEF m
    <2>5. ASSUME NEW c \in Channels, c = m.channel PROVE last'[c] < m.id /\ Cursor(c)' < m.id
      <3>1. h.type = "ready" => h.cursor[c] \in Nat /\ h.newest[c] \in Nat
        BY EventIs
      <3>2. h.type \in {"create", "ack"} /\ h.channel = c => h.id < m.id
        BY <2>2, <2>5 DEF Older
      <3>3. h.type = "ready" => h.newest[c] < m.id /\ h.cursor[c] < m.id
        BY <2>2, <2>3, <2>5 DEF Older
      <3>4. last'[c] < m.id
        BY <1>1, <2>1, <2>5, <3>2, <3>3
      <3>5. Cursor(c)' < m.id
        BY <1>3, <2>1, <2>5, <3>2, <3>3
      <3> QED BY <3>4, <3>5
    <2>6. Cursor(events[i].channel)' < m.id
      BY <2>1, <2>5
    <2> QED BY <2>1, <2>4, <2>5, <2>6
  <1>6. AcksFollow'
    <2> SUFFICES ASSUME NEW i \in 1..Len(events'), events'[i].type = "ack",
                        ~(last'[events'[i].channel] >= events'[i].id)
                 PROVE \E j \in 1..i - 1 : Tells(events'[j], events'[i].channel, events'[i].id)
      BY DEF AcksFollow
    <2> DEFINE a == events[i + 1]
    <2>1. /\ a = events'[i] /\ a.type = "ack" /\ a.channel \in Channels /\ a.id \in Nat
          /\ \/ last[a.channel] >= a.id
             \/ \E j \in 1..i : Tells(events[j], a.channel, a.id)
      BY <1>2, EventIs DEF AcksFollow, Id
    <2>2. PICK j \in 1..i : Tells(events[j], a.channel, a.id)
      BY <1>1, <2>1
    <2>3. j # 1
      <3>1. h.type = "ready" => h.newest[a.channel] \in Nat
        BY <2>1, EventIs
      <3>2. h.type = "create" => h.id \in Nat
        BY EventIs DEF Id
      <3> QED BY <1>1, <1>2, <2>1, <2>2, <3>1, <3>2 DEF Tells
    <2>4. j - 1 \in 1..i - 1 /\ events'[j - 1] = events[j]
      BY <1>2, <2>3
    <2> QED BY <2>1, <2>2, <2>4
  <1>7. LastComing'
    <2> SUFFICES ASSUME NEW c \in Channels, last'[c] # newest[c]
                 PROVE \E i \in 1..Len(events') : Tells(events'[i], c, newest[c])
      BY <1>1 DEF LastComing
    <2>1. last'[c] <= newest[c]
      <3>1. Says(h)
        BY <1>2 DEF EventsSay
      <3> QED BY <1>1, <3>1, EventIs DEF Bounded, Says
    <2>2. PICK i \in 1..Len(events) : Tells(events[i], c, newest[c])
      BY <1>1, <2>1 DEF LastComing
    <2>3. i # 1
      <3>1. h.type = "ready" => h.newest[c] \in Nat
        BY EventIs
      <3>2. h.type = "create" => h.id \in Nat
        BY EventIs DEF Id
      <3>3. ~Tells(h, c, newest[c])
        BY <1>1, <2>1, <3>1, <3>2 DEF Tells
      <3> QED BY <1>2, <2>2, <3>3
    <2>4. i - 1 \in 1..Len(events') /\ events'[i - 1] = events[i]
      BY <1>2, <2>3
    <2> QED BY <2>2, <2>4
  <1>8. \A c \in Channels : MoveComing(c, 2) => MoveComing(c, 1)'
    BY <1>1, <1>2 DEF MoveComing
  <1>9. CursorComing'
    BY <1>1, <1>8 DEF CursorComing
  <1>10. HeldComing'
    <2> SUFFICES ASSUME NEW c \in Channels, ~(last'[c] >= serverAck[c]) PROVE MoveComing(c, 2)
      BY <1>1, <1>8 DEF HeldComing
    <2>1. PICK i \in 1..Len(events) : Moves(events[i], c, serverAck[c])
      BY <1>1 DEF HeldComing, MoveComing
    <2>2. i # 1
      <3> SUFFICES ASSUME Moves(h, c, serverAck[c]) PROVE FALSE
        BY <1>2, <2>1
      <3>1. CASE h.type = "ack"
        <4>1. h.channel = c /\ h.id = serverAck[c]
          BY <3>1 DEF Moves
        <4>2. last[c] >= h.id
          BY <1>2, <3>1, <4>1 DEF AcksFollow
        <4> QED BY <1>1, <4>1, <4>2
      <3>2. CASE h.type = "create"
        BY <1>1, <3>2 DEF Moves
      <3>3. CASE h.type = "ready"
        <4>1. Says(h)
          BY <1>2 DEF EventsSay
        <4>2. h.cursor[c] \in Nat /\ h.newest[c] \in Nat
          BY <3>3, EventIs
        <4> QED BY <1>1, <3>3, <4>1, <4>2 DEF Moves, Says
      <3> QED BY <3>1, <3>2, <3>3, EventIs
    <2> QED BY <2>1, <2>2 DEF MoveComing
  <1>11. ReadyComing'
    <2>1. events' # <<>> => 1 \in 1..Len(events')
      BY <1>1, <1>2, TailIs
    <2> QED BY <1>2, <2>1 DEF ReadyComing, ReadyFirst
  <1> QED BY <1>4, <1>5, <1>6, <1>7, <1>9, <1>10, <1>11

\* An event is added that says what has changed at the server.
LEMMA Added ==
  ASSUME IInv, TypeOK', NEW e \in Event, events' = Append(events, e), UNCHANGED clientVars,
         e.type # "ready", Says(e)',
         \A c \in Channels :
           /\ newest'[c] >= newest[c] /\ serverAck'[c] >= serverAck[c]
           /\ newest'[c] # newest[c] => e.type = "create" /\ e.channel = c /\ e.id = newest'[c]
           /\ serverAck'[c] # serverAck[c] => Moves(e, c, serverAck'[c]),
         e.type = "create" => e.id > newest[e.channel]
  PROVE  Order' /\ Coming'
  <1> USE DEF IInv, Order, Coming
  <1>1. /\ events \in Seq(Event) /\ UNCHANGED <<entry, last>>
        /\ \A c \in Channels : /\ serverAck[c] \in 0..MaxMessages /\ newest[c] \in 0..MaxMessages
                               /\ serverAck'[c] \in 0..MaxMessages /\ newest'[c] \in 0..MaxMessages
                               /\ last[c] \in 0..MaxMessages
    BY DEF TypeOK, clientVars
  <1> DEFINE n == Len(events) + 1
  <1>2. /\ Len(events) \in Nat /\ Len(events') = n /\ n \in 1..Len(events') /\ events'[n] = e
        /\ \A i \in 1..Len(events) : /\ events'[i] = events[i] /\ events[i] \in Event
                                     /\ i \in 1..Len(events')
        /\ \A i \in 1..Len(events') : i \in 1..Len(events) \/ i = n
    BY <1>1, AppendIs
  <1>3. \A c \in Channels : Cursor(c)' = Cursor(c) /\ Cursor(c) \in 0..MaxMessages
    BY <1>1, CursorIs DEF Cursor, HasCursor
  <1> HIDE DEF n
  <1>4. EventsSay'
    <2>1. ASSUME NEW x \in Event, Says(x) PROVE Says(x)'
      <3>1. ASSUME x.type \in {"create", "ack"}
            PROVE /\ x.id <= newest'[x.channel]
                  /\ x.type = "ack" \/ x.kind = "own" => x.id <= serverAck'[x.channel]
        <4>1. x.channel \in Channels /\ x.id \in Nat
          BY <3>1, EventIs DEF Id
        <4> QED BY <1>1, <2>1, <3>1, <4>1 DEF Says
      <3>2. ASSUME x.type = "ready", NEW c \in Channels
            PROVE /\ x.cursor[c] <= serverAck'[c] /\ x.cursor[c] <= x.newest[c]
                  /\ x.newest[c] <= newest'[c]
        <4>1. x.cursor[c] \in Nat /\ x.newest[c] \in Nat
          BY <3>2, EventIs
        <4> QED BY <1>1, <2>1, <3>2, <4>1, SMTT(30) DEF Says
      <3> QED BY <3>1, <3>2 DEF Says
    <2>2. ASSUME NEW i \in 1..Len(events') PROVE Says(events[i])'
      <3>1. CASE i = n
        BY <1>2, <3>1
      <3>2. CASE i \in 1..Len(events)
        BY <1>2, <2>1, <3>2 DEF EventsSay
      <3> QED BY <1>2, <3>1, <3>2
    <2> QED BY <2>2 DEF EventsSay
  <1>5. ReadyFirst'
    BY <1>2 DEF ReadyFirst
  <1>6. CreatesNew'
    <2> SUFFICES ASSUME NEW i \in 1..Len(events'), events'[i].type = "create"
                 PROVE /\ Cursor(events[i].channel)' < events'[i].id
                       /\ last'[events'[i].channel] < events'[i].id
                       /\ \A j \in 1..i - 1 : Older(events'[j], events'[i].channel, events'[i].id)
      BY DEF CreatesNew
    <2>1. CASE i \in 1..Len(events)
      <3>1. \A j \in 1..i - 1 : events'[j] = events[j]
        BY <1>2, <2>1
      <3>2. events'[i] = events[i] /\ events[i] \in Event /\ events[i].type = "create"
        BY <1>2, <2>1
      <3>3. events[i].channel \in Channels
        BY <3>2, EventIs
      <3>4. Cursor(events[i].channel)' = Cursor(events[i].channel)
        BY <1>3, <3>2, <3>3
      <3>5. last' = last
        BY <1>1
      <3> QED BY <2>1, <3>1, <3>2, <3>4, <3>5 DEF CreatesNew
    <2>2. CASE i = n
      <3>1. e.type = "create" /\ e.channel \in Channels /\ e.id \in Nat /\ e.id > newest[e.channel]
        BY <1>2, <2>2, EventIs DEF Id
      <3>2. Cursor(e.channel) < e.id /\ last[e.channel] < e.id
        BY <1>1, <1>3, <3>1 DEF Bounded
      <3>3. ASSUME NEW j \in 1..Len(events) PROVE Older(events[j], e.channel, e.id)
        <4>1. Says(events[j]) /\ events[j] \in Event
          BY <1>2 DEF EventsSay
        <4>2. events[j].type = "ready" => events[j].newest[e.channel] \in Nat
          BY <3>1, <4>1, EventIs
        <4>3. events[j].type \in {"create", "ack"} => events[j].id \in Nat
          BY <4>1, EventIs DEF Id
        <4> QED BY <1>1, <3>1, <4>1, <4>2, <4>3 DEF Says, Older
      <3>4. \A j \in 1..i - 1 : j \in 1..Len(events)
        BY <1>2, <2>2 DEF n
      <3> QED BY <1>1, <1>2, <1>3, <2>2, <3>1, <3>2, <3>3, <3>4
    <2> QED BY <1>2, <2>1, <2>2
  <1>7. ASSUME NEW c \in Channels PROVE \/ last[c] = newest'[c]
                                       \/ \E i \in 1..Len(events') : Tells(events'[i], c, newest'[c])
    <2>1. CASE newest'[c] = newest[c]
      <3>1. last[c] = newest[c] \/ \E i \in 1..Len(events) : Tells(events[i], c, newest[c])
        BY DEF LastComing
      <3> QED BY <1>2, <2>1, <3>1
    <2>2. CASE newest'[c] # newest[c]
      <3>1. Tells(e, c, newest'[c])
        BY <1>1, <2>2 DEF Tells
      <3> QED BY <1>2, <3>1
    <2> QED BY <2>1, <2>2
  <1>8. LastComing'
    BY <1>1, <1>7 DEF LastComing
  <1>9. AcksFollow'
    <2> SUFFICES ASSUME NEW i \in 1..Len(events'), events'[i].type = "ack",
                        ~(last[events'[i].channel] >= events'[i].id)
                 PROVE \E j \in 1..i - 1 : Tells(events'[j], events'[i].channel, events'[i].id)
      BY <1>1 DEF AcksFollow
    <2>1. CASE i \in 1..Len(events)
      <3>1. PICK j \in 1..i - 1 : Tells(events[j], events[i].channel, events[i].id)
        BY <1>2, <2>1 DEF AcksFollow
      <3> QED BY <1>2, <2>1, <3>1
    <2>2. CASE i = n
      <3>1. e.type = "ack" /\ e.channel \in Channels /\ e.id \in Nat /\ e.id <= newest'[e.channel]
        BY <1>2, <2>2, EventIs DEF Id, Says
      <3>2. newest'[e.channel] = newest[e.channel] /\ last[e.channel] # newest[e.channel]
        BY <1>1, <1>2, <2>2, <3>1
      <3>3. PICK j \in 1..Len(events) : Tells(events[j], e.channel, newest[e.channel])
        BY <3>1, <3>2 DEF LastComing
      <3>4. Tells(events[j], e.channel, e.id)
        <4>1. events[j].type = "ready" => events[j].newest[e.channel] \in Nat
          BY <1>2, <3>1, EventIs
        <4>2. events[j].type = "create" => events[j].id \in Nat
          BY <1>2, EventIs DEF Id
        <4> QED BY <1>1, <3>1, <3>2, <3>3, <4>1, <4>2 DEF Tells
      <3>5. j \in 1..i - 1
        BY <1>2, <2>2 DEF n
      <3> QED BY <1>2, <2>2, <3>4, <3>5
    <2> QED BY <1>2, <2>1, <2>2
  <1>10. ASSUME NEW c \in Channels, NEW from \in {1, 2},
                MoveComing(c, from) \/ serverAck'[c] # serverAck[c], from \in 1..n
         PROVE MoveComing(c, from)'
    <2>1. CASE serverAck'[c] = serverAck[c]
      <3>1. PICK i \in from..Len(events) : Moves(events[i], c, serverAck[c])
        BY <1>10, <2>1 DEF MoveComing
      <3> QED BY <1>2, <2>1, <3>1 DEF MoveComing
    <2>2. CASE serverAck'[c] # serverAck[c]
      <3>1. Moves(events'[n], c, serverAck'[c])
        BY <1>2, <2>2
      <3>2. n \in from..Len(events')
        BY <1>2, <1>10
      <3> QED BY <3>1, <3>2 DEF MoveComing
    <2> QED BY <2>1, <2>2
  <1>11. 1 \in 1..n
    BY <1>2
  <1>12. CursorComing'
    BY <1>1, <1>3, <1>10, <1>11 DEF CursorComing
  <1>13. HeldComing'
    BY <1>1, <1>10, <1>11 DEF HeldComing
  <1>14. ReadyComing'
    <2> SUFFICES ASSUME events'[1].type = "ready", NEW c \in Channels,
                        events'[1].cursor[c] # serverAck'[c]
                 PROVE MoveComing(c, 2)'
      BY DEF ReadyComing
    <2>1. 1 \in 1..Len(events) /\ events[1] = events'[1] /\ 2 \in 1..n /\ events # <<>>
      BY <1>2, AppendIs DEF n
    <2>2. MoveComing(c, 2) \/ serverAck'[c] # serverAck[c]
      BY <2>1 DEF ReadyComing
    <2> QED BY <1>10, <2>1, <2>2
  <1> QED BY <1>4, <1>5, <1>6, <1>8, <1>9, <1>12, <1>13, <1>14

\* The user reads what is known of a channel.
LEMMA Read ==
  ASSUME IInv, TypeOK', UNCHANGED <<serverVars, events, last>>,
         \A c \in Channels : \/ entry'[c] = entry[c]
                             \/ last[c] > Cursor(c) /\ entry'[c] = last[c]
  PROVE  Order' /\ Coming'
  <1> USE DEF IInv, Order, Coming
  <1>1. /\ serverAck' = serverAck /\ newest' = newest /\ events \in Seq(Event)
        /\ \A c \in Channels : serverAck[c] \in 0..MaxMessages /\ last[c] \in 0..MaxMessages
    BY DEF TypeOK, serverVars
  <1>2. ASSUME NEW c \in Channels
        PROVE /\ Cursor(c) \in 0..MaxMessages /\ Cursor(c)' \in 0..MaxMessages
              /\ Cursor(c)' = Cursor(c) \/ (Cursor(c)' = last[c] /\ last[c] > Cursor(c))
              /\ entry'[c] = Invalid <=> (entry[c] = Invalid /\ Cursor(c)' = Cursor(c))
    <2>1. entry[c] \in 0..Invalid /\ entry'[c] \in 0..Invalid
      BY DEF TypeOK
    <2>2. Cursor(c) \in 0..MaxMessages
      BY CursorIs
    <2>3. CASE entry'[c] = entry[c]
      BY <2>1, <2>2, <2>3 DEF Cursor, HasCursor
    <2>4. CASE last[c] > Cursor(c) /\ entry'[c] = last[c]
      BY <1>1, <2>1, <2>2, <2>4, ReadStateAssumption DEF Cursor, HasCursor, Id, Invalid
    <2> QED BY <2>3, <2>4
  <1>3. EventsSay' /\ ReadyFirst' /\ AcksFollow' /\ LastComing' /\ HeldComing' /\ ReadyComing'
    BY <1>1 DEF EventsSay, Says, ReadyFirst, AcksFollow, LastComing, HeldComing, ReadyComing, MoveComing
  <1>4. CreatesNew'
    <2>1. ASSUME NEW i \in 1..Len(events), events[i].type = "create"
          PROVE Cursor(events[i].channel)' < events[i].id
      <3>1. events[i].channel \in Channels /\ events[i].id \in Nat
        BY <1>1, <2>1, EventIs DEF Id
      <3>2. Cursor(events[i].channel) < events[i].id /\ last[events[i].channel] < events[i].id
        BY <2>1 DEF CreatesNew
      <3>3. ASSUME NEW c \in Channels, c = events[i].channel PROVE Cursor(c)' < events[i].id
        BY <1>2, <3>2, <3>3
      <3> QED BY <3>1, <3>3
    <2> QED BY <2>1 DEF CreatesNew
  <1>5. CursorComing'
    <2> SUFFICES ASSUME NEW c \in Channels, entry'[c] # Invalid, ~(Cursor(c)' >= serverAck[c])
                 PROVE MoveComing(c, 1)
      BY <1>1 DEF CursorComing, MoveComing
    <2>1. Cursor(c)' = Cursor(c) \/ (Cursor(c)' = last[c] /\ last[c] > Cursor(c))
      BY <1>2
    <2>2. CASE Cursor(c)' = last[c]
      BY <2>2 DEF HeldComing
    <2>3. CASE Cursor(c)' = Cursor(c)
      BY <1>2, <2>3 DEF CursorComing
    <2> QED BY <2>1, <2>2, <2>3
  <1> QED BY <1>3, <1>4, <1>5

-----------------------------------------------------------------------------
\* The initial state: nothing was sent.
LEMMA InitOK == Init => IInv
  <1> SUFFICES ASSUME Init PROVE IInv
    OBVIOUS
  <1>1. TypeOK
    <2>1. 0 \in 0..MaxMessages /\ 0 \in 0..MaxReadies /\ 0 \in 0..Invalid
      BY ReadStateAssumption DEF Invalid
    <2>2. <<>> \in Seq(Event)
      OBVIOUS
    <2> QED BY <2>1, <2>2 DEF Init, TypeOK, None
  <1>2. \A c \in Channels : /\ Cursor(c) = 0 /\ serverAck[c] = 0 /\ last[c] = 0 /\ newest[c] = 0
                            /\ seen[c] = 0
    BY DEF Init, Cursor, HasCursor, Id, None
  <1>3. events = <<>> /\ Len(events) = 0 /\ acks = {}
    BY DEF Init
  <1>4. Order
    BY <1>3 DEF Order, EventsSay, ReadyFirst, CreatesNew, AcksFollow
  <1>5. Bounded /\ Coming /\ ReadIsAcknowledged /\ NothingSkipped
    BY <1>2, <1>3 DEF Bounded, Coming, LastComing, CursorComing, HeldComing, ReadyComing,
       ReadIsAcknowledged, NothingSkipped, Larger
  <1> QED BY <1>1, <1>4, <1>5 DEF IInv

\* The events that the actions build are events.
LEMMA Events ==
  /\ \A c \in Channels, i \in Id, k \in Kinds : [type |-> "create", channel |-> c, id |-> i, kind |-> k] \in Event
  /\ \A c \in Channels, i \in Id : [type |-> "ack", channel |-> c, id |-> i] \in Event
  /\ \A f, g \in [Channels -> 0..MaxMessages] : [type |-> "ready", cursor |-> f, newest |-> g] \in Event
  BY DEF Event

\* A message of the server.
LEMMA MessageStep ==
  ASSUME IInv, NEW c \in Channels, NEW kind \in Kinds, SrvMessage(c, kind)
  PROVE  IInv'
  <1>1. /\ newest[c] < MaxMessages /\ newest' = [newest EXCEPT ![c] = @ + 1]
        /\ serverAck' = (IF kind = "own" THEN [serverAck EXCEPT ![c] = newest[c] + 1] ELSE serverAck)
        /\ UNCHANGED <<acks, failed, readies, clientVars>>
    BY DEF SrvMessage
  <1>2. /\ newest \in [Channels -> 0..MaxMessages] /\ serverAck \in [Channels -> 0..MaxMessages]
        /\ events \in Seq(Event) /\ UNCHANGED <<entry, last, counted, active, pending, seen, rewound>>
        /\ \A d \in Channels : serverAck[d] <= newest[d] /\ last[d] <= newest[d] /\ last[d] \in Nat
    BY <1>1 DEF IInv, TypeOK, Bounded, clientVars
  <1>3. newest[c] + 1 \in Id
    BY <1>1, <1>2, ReadStateAssumption DEF Id
  <1>4. PICK e \in Event : /\ events' = Append(events, e) /\ e.type = "create" /\ e.channel = c
                          /\ e.id = newest[c] + 1 /\ e.kind = kind
    BY <1>3, Events DEF SrvMessage, Sends
  <1>5. TypeOK'
    <2>1. events' \in Seq(Event)
      BY <1>2, <1>4, AppendIs
    <2>2. newest' \in [Channels -> 0..MaxMessages] /\ serverAck' \in [Channels -> 0..MaxMessages]
      BY <1>1, <1>2, <1>3, ReadStateAssumption DEF Id
    <2> QED BY <1>1, <1>2, <2>1, <2>2 DEF IInv, TypeOK
  <1>6. \A d \in Channels :
          /\ newest'[d] \in Nat /\ newest'[d] >= newest[d] /\ serverAck'[d] >= serverAck[d]
          /\ newest'[d] # newest[d] => d = c /\ newest'[d] = newest[c] + 1
          /\ serverAck'[d] # serverAck[d] => d = c /\ kind = "own" /\ serverAck'[d] = newest[c] + 1
          /\ serverAck'[d] <= newest'[d]
    BY <1>1, <1>2
  <1>7. Order' /\ Coming'
    <2>1. Says(e)'
      <3>1. newest'[c] = newest[c] + 1 /\ (kind = "own" => serverAck'[c] = newest[c] + 1)
        BY <1>1, <1>2
      <3> QED BY <1>2, <1>4, <3>1 DEF Says
    <2>2. \A d \in Channels :
            /\ newest'[d] >= newest[d] /\ serverAck'[d] >= serverAck[d]
            /\ newest'[d] # newest[d] => e.type = "create" /\ e.channel = d /\ e.id = newest'[d]
            /\ serverAck'[d] # serverAck[d] => Moves(e, d, serverAck'[d])
      BY <1>4, <1>6 DEF Moves
    <2>3. e.type # "ready" /\ e.id > newest[e.channel]
      BY <1>2, <1>4
    <2> QED BY <1>1, <1>4, <1>5, <2>1, <2>2, <2>3, Added
  <1>8. \A d \in Channels : Cursor(d)' = Cursor(d) /\ Cursor(d) \in Nat /\ Cursor(d) <= newest[d]
    BY <1>2, CursorIs DEF IInv, Cursor, HasCursor, Bounded
  <1>9. Bounded'
    <2>1. \A a \in acks : a.channel \in Channels /\ a.id \in Nat /\ a.id <= newest[a.channel]
      BY DEF IInv, TypeOK, Ack, Id, Bounded
    <2>2. \A a \in acks' : a.id <= newest'[a.channel]
      BY <1>1, <1>2, <1>6, <2>1
    <2>3. \A d \in Channels : last'[d] <= newest'[d] /\ Cursor(d)' <= newest'[d]
      BY <1>2, <1>6, <1>8
    <2> QED BY <1>6, <2>2, <2>3 DEF Bounded
  <1>10. ReadIsAcknowledged' /\ NothingSkipped'
    <2>1. \A d \in Channels : /\ seen'[d] = seen[d] /\ seen[d] \in Nat
                              /\ serverAck[d] \in Nat /\ serverAck'[d] \in Nat
      BY <1>2, <1>5 DEF IInv, TypeOK
    <2>2. ReadIsAcknowledged'
      BY <1>1, <1>2, <1>6, <1>8, <2>1 DEF IInv, ReadIsAcknowledged
    <2>3. NothingSkipped'
      BY <1>6, <1>8, <2>1 DEF IInv, NothingSkipped, Larger
    <2> QED BY <2>2, <2>3
  <1> QED BY <1>5, <1>7, <1>9, <1>10 DEF IInv

\* What the user reads elsewhere, and what the server accepts, moves the server's cursor on.
LEMMA AckedStep ==
  ASSUME IInv, NEW c \in Channels, NEW id \in Id, id <= newest[c],
         UNCHANGED <<newest, readies, clientVars>>, Len(events) < MaxEvents,
         serverAck' = [serverAck EXCEPT ![c] = Larger(@, id)],
         events' = Append(events, [type |-> "ack", channel |-> c, id |-> id]),
         NEW S \in SUBSET Ack, acks' = acks \ S, failed' = failed,
         \A a \in S : a.channel = c /\ a.id <= id
  PROVE  IInv'
  <1>1. /\ newest \in [Channels -> 0..MaxMessages] /\ serverAck \in [Channels -> 0..MaxMessages]
        /\ events \in Seq(Event) /\ UNCHANGED <<entry, last, counted, active, pending, seen, rewound>>
        /\ \A d \in Channels : serverAck[d] <= newest[d] /\ last[d] <= newest[d] /\ last[d] \in Nat
    BY DEF IInv, TypeOK, Bounded, clientVars
  <1>2. PICK e \in Event : events' = Append(events, e) /\ e.type = "ack" /\ e.channel = c /\ e.id = id
    BY Events
  <1>3. id \in Nat /\ id \in 0..MaxMessages
    BY DEF Id
  <1>4. \A d \in Channels :
          /\ serverAck'[d] \in 0..MaxMessages /\ serverAck'[d] >= serverAck[d]
          /\ serverAck'[d] <= newest[d] /\ (d = c => serverAck'[d] >= id)
          /\ serverAck'[d] # serverAck[d] => d = c /\ serverAck'[d] = id
    BY <1>1, <1>3 DEF Larger
  <1>5. TypeOK'
    <2>1. events' \in Seq(Event)
      BY <1>1, <1>2, AppendIs
    <2>2. serverAck' \in [Channels -> 0..MaxMessages]
      BY <1>1, <1>3 DEF Larger
    <2> QED BY <1>1, <2>1, <2>2 DEF IInv, TypeOK
  <1>6. Order' /\ Coming'
    <2>1. Says(e)'
      BY <1>1, <1>2, <1>4 DEF Says
    <2>2. \A d \in Channels :
            /\ newest'[d] >= newest[d] /\ serverAck'[d] >= serverAck[d]
            /\ newest'[d] # newest[d] => e.type = "create" /\ e.channel = d /\ e.id = newest'[d]
            /\ serverAck'[d] # serverAck[d] => Moves(e, d, serverAck'[d])
      BY <1>1, <1>2, <1>4 DEF Moves
    <2>3. e.type # "ready" /\ e.type # "create"
      BY <1>2
    <2> QED BY <1>2, <1>5, <2>1, <2>2, <2>3, Added
  <1>7. \A d \in Channels : Cursor(d)' = Cursor(d) /\ Cursor(d) \in Nat /\ Cursor(d) <= newest[d]
    BY <1>1, CursorIs DEF IInv, Cursor, HasCursor, Bounded
  <1>8. Bounded'
    BY <1>1, <1>4, <1>7 DEF IInv, Bounded
  <1>9. ReadIsAcknowledged' /\ NothingSkipped'
    <2>1. \A d \in Channels : /\ seen'[d] = seen[d] /\ seen[d] \in Nat
                              /\ serverAck[d] \in Nat /\ serverAck'[d] \in Nat
      BY <1>1, <1>5 DEF IInv, TypeOK
    <2>2. ReadIsAcknowledged'
      <3> SUFFICES ASSUME NEW d \in Channels, seen[d] > serverAck'[d]
                   PROVE \/ \E a \in acks' \cup failed' : a.channel = d /\ a.id >= seen[d]
                         \/ pending /\ active = d /\ Cursor(d) >= seen[d]
                         \/ d \in rewound
        BY <1>1, <1>7, <2>1 DEF ReadIsAcknowledged
      <3>1. seen[d] > serverAck[d]
        BY <1>1, <1>4, <2>1
      <3>2. ASSUME NEW a \in acks \cup failed, a.channel = d, a.id >= seen[d]
            PROVE a \in acks' \cup failed'
        <4>1. a.id \in Nat
          BY DEF IInv, TypeOK, Ack, Id
        <4> QED BY <1>3, <1>4, <2>1, <3>2, <4>1
      <3> QED BY <3>1, <3>2 DEF IInv, ReadIsAcknowledged
    <2>3. NothingSkipped'
      BY <1>4, <1>7, <2>1 DEF IInv, NothingSkipped, Larger
    <2> QED BY <2>2, <2>3
  <1> QED BY <1>5, <1>6, <1>8, <1>9 DEF IInv

\* The server's other actions keep IInv.
LEMMA ServerStep ==
  ASSUME IInv
  PROVE  /\ \A c \in Channels : SrvRemoteRead(c) => IInv'
         /\ \A a \in acks : SrvAck(a) => IInv'
         /\ SrvReady => IInv'
  <1>1. /\ newest \in [Channels -> 0..MaxMessages] /\ serverAck \in [Channels -> 0..MaxMessages]
        /\ \A d \in Channels : serverAck[d] <= newest[d] /\ last[d] <= newest[d] /\ last[d] \in Nat
        /\ acks \subseteq Ack
    BY DEF IInv, TypeOK, Bounded
  <1>2. ASSUME NEW c \in Channels, SrvRemoteRead(c) PROVE IInv'
    <2>1. /\ serverAck[c] \in 0..MaxMessages /\ newest[c] \in 0..MaxMessages
          /\ serverAck[c] < newest[c]
      BY <1>1, <1>2 DEF SrvRemoteRead
    <2>2. newest[c] \in Id /\ newest[c] <= newest[c] /\ Larger(serverAck[c], newest[c]) = newest[c]
      BY <2>1 DEF Larger, Id
    <2>3. serverAck' = [serverAck EXCEPT ![c] = Larger(@, newest[c])]
      BY <1>1, <1>2, <2>2 DEF SrvRemoteRead
    <2>4. /\ acks' = acks \ {} /\ failed' = failed /\ {} \in SUBSET Ack
          /\ UNCHANGED <<newest, readies, clientVars>> /\ Len(events) < MaxEvents
          /\ events' = Append(events, [type |-> "ack", channel |-> c, id |-> newest[c]])
      BY <1>2 DEF SrvRemoteRead, Sends
    <2>5. \A a \in {} : a.channel = c /\ a.id <= newest[c]
      OBVIOUS
    <2> HIDE DEF IInv
    <2> QED BY <2>2, <2>3, <2>4, <2>5, AckedStep
  <1>3. ASSUME NEW a \in acks, SrvAck(a) PROVE IInv'
    <2>1. a.channel \in Channels /\ a.id \in Id /\ a.id <= newest[a.channel] /\ a \in Ack
      BY <1>1 DEF Ack, IInv, Bounded
    <2>2. CASE Sends([type |-> "ack", channel |-> a.channel, id |-> a.id])
               /\ serverAck' = [serverAck EXCEPT ![a.channel] = Larger(@, a.id)] /\ UNCHANGED failed
      <3>1. {a} \in SUBSET Ack /\ \A b \in {a} : b.channel = a.channel /\ b.id <= a.id
        BY <2>1 DEF Id
      <3>2. acks' = acks \ {a} /\ UNCHANGED <<newest, readies, clientVars>>
        BY <1>3 DEF SrvAck
      <3> QED BY <2>1, <2>2, <3>1, <3>2, AckedStep DEF Sends
    <2>3. CASE failed' = failed \cup {a} /\ UNCHANGED <<serverAck, events>>
      <3>1. acks' = acks \ {a} /\ UNCHANGED <<newest, serverAck, readies, events, entry, last, counted, active, pending, seen, rewound>>
        BY <1>3, <2>3 DEF SrvAck, clientVars
      <3>2. \A d \in Channels : Cursor(d)' = Cursor(d)
        BY <3>1 DEF Cursor, HasCursor
      <3>3. TypeOK'
        BY <2>1, <2>3, <3>1 DEF IInv, TypeOK
      <3>4. Bounded'
        BY <3>1, <3>2 DEF IInv, Bounded
      <3>5. Order'
        BY <3>1, <3>2 DEF IInv, Order, EventsSay, Says, ReadyFirst, CreatesNew, Cursor, HasCursor, AcksFollow
      <3>6. Coming'
        BY <3>1, <3>2 DEF IInv, Coming, LastComing, CursorComing, HeldComing, ReadyComing, MoveComing
      <3>7. ReadIsAcknowledged' /\ NothingSkipped'
        BY <2>3, <3>1, <3>2 DEF IInv, ReadIsAcknowledged, NothingSkipped
      <3> QED BY <3>3, <3>4, <3>5, <3>6, <3>7 DEF IInv
    <2> QED BY <1>3, <2>2, <2>3 DEF SrvAck
  <1>4. ASSUME SrvReady PROVE IInv'
    <2>1. PICK e \in Event : /\ events' = <<e>> /\ e.type = "ready"
                             /\ e.cursor = serverAck /\ e.newest = newest
      BY <1>1, <1>4, Events DEF SrvReady
    <2>2. /\ UNCHANGED <<newest, serverAck, acks, failed, entry, last, counted, active, pending, seen, rewound>>
          /\ readies' \in 0..MaxReadies
      BY <1>4, ReadStateAssumption DEF SrvReady, clientVars, IInv, TypeOK
    <2>3. /\ events' \in Seq(Event) /\ Len(events') = 1 /\ events'[1] = e /\ events' # <<>>
      BY <2>1
    <2>4. \A d \in Channels : Cursor(d)' = Cursor(d)
      BY <2>2 DEF Cursor, HasCursor
    <2>5. TypeOK'
      BY <2>2, <2>3 DEF IInv, TypeOK
    <2>6. Bounded' /\ ReadIsAcknowledged' /\ NothingSkipped'
      BY <2>2, <2>4 DEF IInv, Bounded, ReadIsAcknowledged, NothingSkipped
    <2>7. Order'
      <3>1. Says(e)'
        BY <1>1, <2>1, <2>2 DEF Says
      <3> QED BY <2>1, <2>3, <3>1 DEF Order, EventsSay, ReadyFirst, CreatesNew, AcksFollow
    <2>8. Coming'
      <3>1. \A c \in Channels : Tells(e, c, newest'[c]) /\ Moves(e, c, serverAck'[c])
        BY <1>1, <2>1, <2>2 DEF Tells, Moves
      <3>2. \A c \in Channels : MoveComing(c, 1)' /\ e.cursor[c] = serverAck'[c]
        BY <2>1, <2>2, <2>3, <3>1 DEF MoveComing
      <3> QED BY <2>3, <3>1, <3>2 DEF Coming, LastComing, CursorComing, HeldComing, ReadyComing
    <2> QED BY <2>5, <2>6, <2>7, <2>8 DEF IInv
  <1> QED BY <1>2, <1>3, <1>4

-----------------------------------------------------------------------------
\* What the user read of channel c stays read, or READY takes it back.
StaysRead(c) ==
  /\ seen'[c] = seen[c] /\ (c \in rewound => c \in rewound')
  /\ pending /\ active = c => Cursor(c)' >= Cursor(c) \/ Cursor(c)' >= seen[c] \/ c \in rewound'

\* The cursor of channel c goes no further than what was read.
NotAhead(c) == \/ Cursor(c)' <= seen'[c] \/ Cursor(c)' <= serverAck[c]
               \/ seen'[c] = seen[c] /\ Cursor(c)' = Cursor(c)

\* What the client does keeps what it has read acknowledged, or said by the server.
LEMMA StillAcknowledged ==
  ASSUME IInv, TypeOK', UNCHANGED serverVars, failed' = failed, acks \subseteq acks',
         pending /\ HasCursor(active) =>
           \/ pending' /\ active' = active
           \/ [channel |-> active, id |-> entry[active]] \in acks',
         \A c \in Channels : /\ \/ StaysRead(c)
                                \/ [channel |-> c, id |-> seen'[c]] \in acks'
                                \/ pending' /\ active' = c /\ Cursor(c)' >= seen'[c]
                             /\ NotAhead(c)
  PROVE  ReadIsAcknowledged' /\ NothingSkipped'
  <1>1. ASSUME NEW c \in Channels
        PROVE  /\ entry[c] \in 0..Invalid /\ serverAck[c] \in 0..MaxMessages /\ serverAck'[c] = serverAck[c]
               /\ seen[c] \in 0..MaxMessages /\ seen'[c] \in 0..MaxMessages
               /\ Cursor(c) \in 0..MaxMessages /\ Cursor(c)' \in 0..MaxMessages
    <2>1. entry[c] \in 0..Invalid /\ entry'[c] \in 0..Invalid
      BY DEF IInv, TypeOK
    <2>2. Cursor(c) \in 0..MaxMessages /\ Cursor(c)' \in 0..MaxMessages
      BY <2>1, ReadStateAssumption DEF Cursor, HasCursor, Id
    <2>3. /\ serverAck[c] \in 0..MaxMessages /\ serverAck'[c] = serverAck[c]
          /\ seen[c] \in 0..MaxMessages /\ seen'[c] \in 0..MaxMessages
      BY DEF IInv, TypeOK, serverVars
    <2> QED BY <2>1, <2>2, <2>3
  <1>2. ReadIsAcknowledged'
    <2> SUFFICES ASSUME NEW c \in Channels, seen'[c] > serverAck[c]
                 PROVE \/ \E a \in acks' \cup failed' : a.channel = c /\ a.id >= seen'[c]
                       \/ pending' /\ active' = c /\ Cursor(c)' >= seen'[c]
                       \/ c \in rewound'
      BY <1>1 DEF ReadIsAcknowledged
    <2>1. CASE [channel |-> c, id |-> seen'[c]] \in acks'
      BY <1>1, <2>1
    <2>2. CASE StaysRead(c)
      <3>1. seen'[c] = seen[c] /\ seen[c] > serverAck[c]
        BY <2>2 DEF StaysRead
      <3>2. CASE \E a \in acks \cup failed : a.channel = c /\ a.id >= seen[c]
        BY <3>1, <3>2
      <3>3. CASE pending /\ active = c /\ Cursor(c) >= seen[c]
        <4>1. HasCursor(c) /\ entry[c] = Cursor(c)
          BY <1>1, <3>1, <3>3 DEF Cursor, HasCursor
        <4>2. CASE [channel |-> c, id |-> entry[c]] \in acks'
          BY <3>1, <3>3, <4>1, <4>2
        <4>3. CASE pending' /\ active' = c
          <5>1. Cursor(c)' >= Cursor(c) \/ Cursor(c)' >= seen[c] \/ c \in rewound'
            BY <2>2, <3>3 DEF StaysRead
          <5> QED BY <1>1, <3>1, <3>3, <4>3, <5>1
        <4> QED BY <3>3, <4>1, <4>2, <4>3
      <3>4. CASE c \in rewound
        BY <2>2, <3>4 DEF StaysRead
      <3> QED BY <3>1, <3>2, <3>3, <3>4 DEF IInv, ReadIsAcknowledged
    <2> QED BY <2>1, <2>2
  <1>3. ASSUME NEW c \in Channels PROVE Cursor(c)' <= seen'[c] \/ Cursor(c)' <= serverAck'[c]
    <2>1. NotAhead(c)
      OBVIOUS
    <2>2. CASE seen'[c] = seen[c] /\ Cursor(c)' = Cursor(c)
      <3>1. Cursor(c) <= seen[c] \/ Cursor(c) <= serverAck[c]
        BY <1>1 DEF IInv, NothingSkipped, Larger
      <3> QED BY <1>1, <2>2, <3>1
    <2> QED BY <1>1, <2>1, <2>2 DEF NotAhead
  <1>4. NothingSkipped'
    <2>1. ASSUME NEW x \in Nat, NEW a \in Nat, NEW b \in Nat, x <= a \/ x <= b
          PROVE  x <= Larger(a, b)
      BY <2>1 DEF Larger
    <2>2. ASSUME NEW c \in Channels PROVE Cursor(c)' <= Larger(seen'[c], serverAck'[c])
      BY <1>1, <1>3, <2>1
    <2> QED BY <2>2 DEF NothingSkipped, Larger
  <1> QED BY <1>2, <1>4

\* Of two numbers the larger.
LEMMA LargerIs ==
  \A a, b \in Nat : Larger(a, b) \in {a, b} /\ Larger(a, b) >= a /\ Larger(a, b) >= b
  BY DEF Larger

\* What is known of the next event.
LEMMA NextEvent ==
  ASSUME IInv, events # <<>>
  PROVE  \E h \in Event :
           /\ h = Head(events) /\ Says(h)
           /\ h.type = "create" => Cursor(h.channel) < h.id /\ last[h.channel] < h.id
           /\ h.type = "ready" => \A c \in Channels : h.cursor[c] = serverAck[c] \/ MoveComing(c, 2)
           /\ \A c \in Channels :
                MoveComing(c, 1) => Moves(h, c, serverAck[c]) \/ MoveComing(c, 2)
  <1>1. events \in Seq(Event)
    BY DEF IInv, TypeOK
  <1>2. PICK h \in Event : h = Head(events) /\ h = events[1] /\ 1 \in 1..Len(events) /\ Len(events) \in Nat
    BY <1>1, TailIs
  <1>3. ASSUME NEW c \in Channels, MoveComing(c, 1)
        PROVE  Moves(h, c, serverAck[c]) \/ MoveComing(c, 2)
    <2>1. PICK i \in 1..Len(events) : Moves(events[i], c, serverAck[c])
      BY <1>3 DEF MoveComing
    <2>2. i = 1 \/ i \in 2..Len(events)
      BY <1>2
    <2> QED BY <1>2, <2>1, <2>2 DEF MoveComing
  <1> QED BY <1>2, <1>3 DEF IInv, Order, Coming, EventsSay, CreatesNew, ReadyComing

\* An event handled as Handled and StillAcknowledged ask keeps IInv.
LEMMA HandledStep ==
  ASSUME IInv, TypeOK', events # <<>>, events' = Tail(events),
         UNCHANGED <<serverVars, acks, failed, active>>, pending => pending',
         NEW h \in Event, h = Head(events),
         \A c \in Channels :
           /\ \/ last'[c] = last[c]
              \/ h.type = "create" /\ h.channel = c /\ last'[c] = h.id
              \/ h.type = "ready" /\ last'[c] = h.newest[c]
           /\ last'[c] >= last[c]
           /\ h.type = "create" /\ h.channel = c => last'[c] >= h.id
           /\ h.type = "ready" => last'[c] >= h.newest[c]
           /\ \/ Cursor(c)' = Cursor(c) \/ Cursor(c)' = 0
              \/ h.type \in {"create", "ack"} /\ h.channel = c /\ Cursor(c)' = h.id
              \/ h.type = "ready" /\ Cursor(c)' = h.cursor[c]
           /\ entry'[c] = Invalid \/ Cursor(c)' >= serverAck[c] \/ MoveComing(c, 2),
         \A c \in Channels : /\ StaysRead(c) \/ (pending' /\ active' = c /\ Cursor(c)' >= seen'[c])
                             /\ NotAhead(c)
  PROVE  IInv'
  <1>1. Order' /\ Coming'
    BY Handled
  <1>2. ReadIsAcknowledged' /\ NothingSkipped'
    BY StillAcknowledged
  <1>3. Bounded'
    <2>1. Says(h)
      BY TailIs DEF IInv, TypeOK, Order, EventsSay
    <2>2. /\ serverAck' = serverAck /\ newest' = newest /\ acks' = acks
          /\ \A c \in Channels : /\ serverAck[c] <= newest[c] /\ last[c] <= newest[c]
                                 /\ Cursor(c) <= newest[c]
                                 /\ newest[c] \in Nat /\ serverAck[c] \in Nat
      BY DEF serverVars, IInv, TypeOK, Bounded
    <2>3. ASSUME NEW c \in Channels PROVE last'[c] <= newest[c] /\ Cursor(c)' <= newest[c]
      <3>1. h.type = "ready" => /\ h.cursor[c] \in Nat /\ h.newest[c] \in Nat
                                /\ h.newest[c] <= newest[c] /\ h.cursor[c] <= serverAck[c]
        BY <2>1, EventIs DEF Says
      <3>2. h.type \in {"create", "ack"} /\ h.channel = c => h.id <= newest[c]
        BY <2>1 DEF Says
      <3>3. last'[c] <= newest[c]
        BY <2>2, <3>1, <3>2
      <3>4. Cursor(c)' <= newest[c]
        BY <2>2, <3>1, <3>2
      <3> QED BY <3>3, <3>4
    <2>4. \A a \in acks : a.id <= newest[a.channel]
      BY DEF IInv, Bounded
    <2> QED BY <2>2, <2>3, <2>4 DEF Bounded
  <1> QED BY <1>1, <1>2, <1>3 DEF IInv

\* What the user reads, acknowledged as it is, keeps IInv and moves no cursor back.
LEMMA ReadStep ==
  ASSUME IInv, TypeOK', UNCHANGED <<serverVars, events, last, failed>>, acks \subseteq acks',
         \A a \in acks' : a \in acks \/ a.id = last[a.channel] \/ a.id = Cursor(a.channel),
         pending /\ HasCursor(active) =>
           \/ pending' /\ active' = active
           \/ [channel |-> active, id |-> entry[active]] \in acks',
         \A c \in Channels :
           \/ /\ entry'[c] = entry[c] /\ seen'[c] = seen[c]
              /\ c \in rewound => c \in rewound'
           \/ /\ last[c] > Cursor(c) /\ entry'[c] = last[c] /\ seen'[c] = last[c]
              /\ [channel |-> c, id |-> last[c]] \in acks'
  PROVE  IInv' /\ \A c \in Channels : Cursor(c)' >= Cursor(c)
  <1>1. Order' /\ Coming'
    BY Read
  <1>2. ASSUME NEW c \in Channels
        PROVE /\ Cursor(c) \in Nat /\ Cursor(c)' >= Cursor(c)
              /\ \/ /\ Cursor(c)' = Cursor(c) /\ seen'[c] = seen[c]
                    /\ c \in rewound => c \in rewound'
                 \/ /\ Cursor(c)' = last[c] /\ seen'[c] = last[c]
                    /\ [channel |-> c, id |-> last[c]] \in acks'
    <2>1. entry[c] \in 0..Invalid /\ entry'[c] \in 0..Invalid /\ last[c] \in 0..MaxMessages
      BY DEF IInv, TypeOK
    <2>2. Cursor(c) \in 0..MaxMessages
      BY CursorIs DEF IInv
    <2>3. CASE /\ entry'[c] = entry[c] /\ seen'[c] = seen[c]
               /\ c \in rewound => c \in rewound'
      BY <2>2, <2>3 DEF Cursor, HasCursor
    <2>4. CASE /\ last[c] > Cursor(c) /\ entry'[c] = last[c] /\ seen'[c] = last[c]
               /\ [channel |-> c, id |-> last[c]] \in acks'
      <3>1. Cursor(c)' = last[c]
        BY <2>1, <2>2, <2>4 DEF Cursor, HasCursor, Id
      <3> QED BY <2>1, <2>2, <2>4, <3>1
    <2> QED BY <2>3, <2>4
  <1>3. ReadIsAcknowledged' /\ NothingSkipped'
    <2>1. ASSUME NEW c \in Channels
          PROVE /\ StaysRead(c) \/ [channel |-> c, id |-> seen'[c]] \in acks'
                /\ NotAhead(c)
      <3>1. CASE /\ Cursor(c)' = Cursor(c) /\ seen'[c] = seen[c]
                 /\ c \in rewound => c \in rewound'
        BY <1>2, <3>1 DEF StaysRead, NotAhead
      <3>2. CASE /\ Cursor(c)' = last[c] /\ seen'[c] = last[c]
                 /\ [channel |-> c, id |-> last[c]] \in acks'
        <4>1. last[c] \in Nat
          BY DEF IInv, TypeOK
        <4> QED BY <3>2, <4>1 DEF NotAhead
      <3> QED BY <1>2, <3>1, <3>2
    <2> QED BY <2>1, StillAcknowledged
  <1>4. Bounded'
    <2>1. /\ serverAck' = serverAck /\ newest' = newest /\ last' = last
          /\ \A c \in Channels : /\ serverAck[c] <= newest[c] /\ last[c] <= newest[c]
                                 /\ Cursor(c) <= newest[c]
          /\ \A a \in acks : a.id <= newest[a.channel]
      BY DEF serverVars, IInv, Bounded
    <2>2. \A a \in acks' : a.channel \in Channels
      BY DEF TypeOK, Ack
    <2>3. \A a \in acks' : a.id <= newest[a.channel]
      BY <2>1, <2>2
    <2>4. \A c \in Channels : Cursor(c)' <= newest[c]
      BY <1>2, <2>1
    <2> QED BY <2>1, <2>3, <2>4 DEF Bounded
  <1> QED BY <1>1, <1>2, <1>3, <1>4 DEF IInv

-----------------------------------------------------------------------------
\* The client's handlers keep IInv, and only READY moves a cursor back.
LEMMA HandleStep ==
  ASSUME IInv, Handle
  PROVE  IInv' /\ (OnReady \/ \A c \in Channels : Cursor(c)' >= Cursor(c))
  <1>1. events # <<>> /\ events' = Tail(events) /\ events' \in Seq(Event)
    <2>1. events # <<>> /\ events' = Tail(events)
      BY DEF Handle, Receives, OnReady, OnActiveMessage, OnOwnMessage, OnOtherMessage, OnMessageAck
    <2> QED BY <2>1, TailIs DEF IInv, TypeOK
  <1>2. PICK h \in Event :
           /\ h = Head(events) /\ Says(h)
           /\ h.type = "create" => Cursor(h.channel) < h.id /\ last[h.channel] < h.id
           /\ h.type = "ready" => \A c \in Channels : h.cursor[c] = serverAck[c] \/ MoveComing(c, 2)
           /\ \A c \in Channels :
                MoveComing(c, 1) => Moves(h, c, serverAck[c]) \/ MoveComing(c, 2)
    BY <1>1, NextEvent
  <1>3. /\ entry \in [Channels -> 0..Invalid] /\ last \in [Channels -> 0..MaxMessages]
        /\ serverAck \in [Channels -> 0..MaxMessages]
        /\ \A c \in Channels : /\ Cursor(c) \in 0..MaxMessages
                               /\ entry[c] # Invalid => Cursor(c) = entry[c]
    BY CursorIs DEF IInv, TypeOK
  <1>4. \A c \in Channels :
          /\ entry[c] = Invalid \/ Cursor(c) >= serverAck[c] \/ MoveComing(c, 1)
          /\ last[c] >= serverAck[c] \/ MoveComing(c, 1)
    BY DEF IInv, Coming, CursorComing, HeldComing
  <1>5. CASE OnReady
    <2>1. /\ h.type = "ready" /\ entry' = h.cursor
          /\ last' = [c \in Channels |-> Larger(last[c], h.newest[c])]
          /\ rewound' = IF pending /\ h.cursor[active] < seen[active] THEN rewound \cup {active}
                        ELSE rewound
          /\ UNCHANGED <<serverVars, acks, failed, counted, active, pending, seen>>
      BY <1>2, <1>5 DEF OnReady, Receives
    <2>2. \A c \in Channels : h.cursor[c] \in 0..MaxMessages /\ h.newest[c] \in 0..MaxMessages
      BY <2>1, EventIs
    <2>3. \A c \in Channels : Cursor(c)' = h.cursor[c] /\ Cursor(c)' <= serverAck[c]
      <3>1. \A c \in Channels : Cursor(c)' = h.cursor[c]
        BY <2>1, <2>2 DEF Cursor, HasCursor, Id
      <3> QED BY <1>2, <2>1, <3>1 DEF Says
    <2>4. \A c \in Channels : /\ last'[c] \in {last[c], h.newest[c]}
                              /\ last'[c] >= last[c] /\ last'[c] >= h.newest[c]
      BY <1>3, <2>1, <2>2, LargerIs
    <2>5. TypeOK'
      <3>1. last' \in [Channels -> 0..MaxMessages]
        BY <1>3, <2>1, <2>2, <2>4
      <3>2. entry' \in [Channels -> 0..Invalid]
        BY <2>1, EventIs, ReadStateAssumption DEF Invalid
      <3>3. rewound' \subseteq Channels
        BY <2>1, ReadStateAssumption DEF IInv, TypeOK
      <3> QED BY <1>1, <2>1, <3>1, <3>2, <3>3 DEF IInv, TypeOK, serverVars
    <2>6. \A c \in Channels : Cursor(c)' >= serverAck[c] \/ MoveComing(c, 2)
      BY <1>2, <1>3, <2>1, <2>3
    <2>7. ASSUME NEW c \in Channels PROVE StaysRead(c) /\ NotAhead(c)
      <3>1. seen[c] \in Nat /\ h.cursor[c] \in Nat
        BY <2>2 DEF IInv, TypeOK
      <3> QED BY <2>1, <2>3, <3>1 DEF StaysRead, NotAhead
    <2> QED BY <1>1, <1>2, <1>5, <2>1, <2>3, <2>4, <2>5, <2>6, <2>7, HandledStep
  <1>6. CASE OnActiveMessage \/ OnOwnMessage
    <2>1. /\ h.type = "create" /\ last' = [last EXCEPT ![h.channel] = Larger(@, h.id)]
          /\ entry' = [entry EXCEPT ![h.channel] = h.id]
          /\ \/ /\ h.channel = active /\ pending' = TRUE /\ seen' = [seen EXCEPT ![h.channel] = h.id]
                /\ rewound' = rewound \ {h.channel}
             \/ /\ h.kind = "own" /\ h.channel # active
                /\ UNCHANGED <<pending, seen, rewound>>
          /\ UNCHANGED <<serverVars, acks, failed, active>>
          /\ counted' \in {counted, counted \ {h.channel}}
      BY <1>2, <1>6 DEF OnActiveMessage, OnOwnMessage, Receives, ReadLocally
    <2>2. h.channel \in Channels /\ h.id \in Id /\ h.id \in 0..MaxMessages /\ h.id \in 0..Invalid
      BY <2>1, EventIs, ReadStateAssumption DEF Id, Invalid
    <2>3. Larger(last[h.channel], h.id) = h.id /\ last[h.channel] < h.id
      BY <1>2, <1>3, <2>1, <2>2 DEF Larger
    <2>4. /\ \A c \in Channels \ {h.channel} : Cursor(c)' = Cursor(c) /\ last'[c] = last[c]
                                               /\ entry'[c] = entry[c]
          /\ Cursor(h.channel)' = h.id /\ last'[h.channel] = h.id
      <3>1. \A c \in Channels : /\ c # h.channel => entry'[c] = entry[c] /\ last'[c] = last[c]
                                /\ c = h.channel => entry'[c] = h.id /\ last'[c] = h.id
        BY <1>3, <2>1, <2>2, <2>3
      <3>2. \A c \in Channels : /\ c # h.channel => Cursor(c)' = Cursor(c)
                                /\ c = h.channel => Cursor(c)' = h.id
        BY <2>2, <3>1 DEF Cursor, HasCursor
      <3> QED BY <2>2, <3>1, <3>2
    <2>5. TypeOK'
      <3>1. last' \in [Channels -> 0..MaxMessages] /\ entry' \in [Channels -> 0..Invalid]
        BY <1>3, <2>1, <2>2, <2>3
      <3>2. pending' \in BOOLEAN
        BY <2>1 DEF IInv, TypeOK
      <3>3. active # NoChannel \/ pending' = pending
        BY <2>1, <2>2, ReadStateAssumption
      <3>4. seen' \in [Channels -> 0..MaxMessages] /\ rewound' \subseteq Channels
        BY <2>1, <2>2 DEF IInv, TypeOK
      <3> QED BY <1>1, <2>1, <3>1, <3>2, <3>3, <3>4, SMTT(30) DEF IInv, TypeOK, serverVars
    <2>6. ASSUME NEW c \in Channels
          PROVE  entry'[c] = Invalid \/ Cursor(c)' >= serverAck[c] \/ MoveComing(c, 2)
      <3>1. CASE c # h.channel
        <4>1. ~Moves(h, c, serverAck[c])
          BY <2>1, <3>1 DEF Moves
        <4> QED BY <1>2, <1>4, <2>4, <3>1, <4>1
      <3>2. CASE c = h.channel
        <4>1. Moves(h, c, serverAck[c]) => h.id = serverAck[c]
          BY <2>1 DEF Moves
        <4>2. last[c] < h.id /\ Cursor(c)' = h.id /\ last[c] \in Nat /\ serverAck[c] \in Nat /\ h.id \in Nat
          BY <1>3, <2>2, <2>3, <2>4, <3>2
        <4> QED BY <1>2, <1>4, <4>1, <4>2
      <3> QED BY <3>1, <3>2
    <2>7. ASSUME NEW c \in Channels
          PROVE  /\ StaysRead(c) \/ (pending' /\ active' = c /\ Cursor(c)' >= seen'[c])
                 /\ NotAhead(c)
      <3>1. h.kind = "own" => h.id <= serverAck[h.channel]
        BY <1>2, <2>1 DEF Says
      <3>2. seen \in [Channels -> 0..MaxMessages]
        BY DEF IInv, TypeOK
      <3>3. CASE c = h.channel
        <4>1. Cursor(c)' = h.id
          BY <2>4, <3>3
        <4>2. CASE h.channel = active /\ pending' = TRUE /\ seen' = [seen EXCEPT ![h.channel] = h.id]
          <5>1. seen'[c] = h.id
            BY <3>2, <3>3, <4>2
          <5> QED BY <2>1, <2>2, <3>3, <4>1, <4>2, <5>1 DEF NotAhead
        <4>3. CASE h.kind = "own" /\ h.channel # active /\ UNCHANGED <<pending, seen, rewound>>
          BY <3>1, <3>3, <4>1, <4>3 DEF StaysRead, NotAhead
        <4> QED BY <2>1, <4>2, <4>3
      <3>4. CASE c # h.channel
        <4>1. Cursor(c)' = Cursor(c) /\ Cursor(c) \in Nat
          BY <1>3, <2>4, <3>4
        <4>2. seen'[c] = seen[c] /\ (c \in rewound => c \in rewound')
          BY <2>1, <2>2, <3>2, <3>4
        <4> QED BY <4>1, <4>2 DEF StaysRead, NotAhead
      <3> QED BY <3>3, <3>4
    <2>8. \A c \in Channels :
            /\ last'[c] = last[c] \/ (h.channel = c /\ last'[c] = h.id)
            /\ last'[c] >= last[c] /\ (h.channel = c => last'[c] >= h.id)
            /\ Cursor(c)' = Cursor(c) \/ (h.channel = c /\ Cursor(c)' = h.id)
            /\ Cursor(c)' >= Cursor(c)
      <3>1. \A c \in Channels : c = h.channel => Cursor(c)' = h.id /\ Cursor(c) < h.id
        BY <1>2, <2>1, <2>4
      <3> QED BY <1>3, <2>2, <2>3, <2>4, <3>1
    <2>9. pending => pending'
      BY <2>1
    <2> QED BY <1>1, <1>2, <2>1, <2>5, <2>6, <2>7, <2>8, <2>9, HandledStep
  <1>7. CASE OnOtherMessage
    <2>1. /\ h.type = "create" /\ h.kind # "own"
          /\ last' = [last EXCEPT ![h.channel] = Larger(@, h.id)]
          /\ entry' = IF h.kind = "mention" /\ entry[h.channel] = None
                      THEN [entry EXCEPT ![h.channel] = Invalid] ELSE entry
          /\ counted' = counted \cup {h.channel}
          /\ UNCHANGED <<serverVars, acks, failed, active, pending, seen, rewound>>
      BY <1>2, <1>7 DEF OnOtherMessage, Receives
    <2>2. h.channel \in Channels /\ h.id \in 0..MaxMessages
      BY <2>1, EventIs DEF Id
    <2>3. Larger(last[h.channel], h.id) = h.id /\ last[h.channel] < h.id
      BY <1>2, <1>3, <2>1, <2>2 DEF Larger
    <2>4. Invalid \in 0..Invalid /\ Invalid \notin Id /\ 0 \notin Id
      BY ReadStateAssumption DEF Invalid, Id
    <2>5. last' \in [Channels -> 0..MaxMessages] /\ entry' \in [Channels -> 0..Invalid]
      BY <1>3, <2>1, <2>2, <2>3, <2>4
    <2>6. TypeOK'
      BY <1>1, <2>1, <2>2, <2>5 DEF IInv, TypeOK, serverVars
    <2>7. \A c \in Channels : entry'[c] = entry[c] \/ (entry[c] = None /\ entry'[c] = Invalid)
      BY <1>3, <2>1, <2>2
    <2>8. \A c \in Channels : Cursor(c)' = Cursor(c)
      BY <2>4, <2>7 DEF Cursor, HasCursor, None
    <2>9. \A c \in Channels :
            /\ last'[c] = last[c] \/ (h.channel = c /\ last'[c] = h.id)
            /\ last'[c] >= last[c] /\ (h.channel = c => last'[c] >= h.id)
      BY <1>3, <2>1, <2>2, <2>3
    <2>10. \A c \in Channels : entry'[c] = Invalid \/ Cursor(c)' >= serverAck[c] \/ MoveComing(c, 2)
      <3>1. \A c \in Channels : ~Moves(h, c, serverAck[c])
        BY <2>1 DEF Moves
      <3> QED BY <1>2, <1>4, <2>7, <2>8, <3>1
    <2>11. pending => pending'
      BY <2>1
    <2>12. \A c \in Channels : Cursor(c)' >= Cursor(c)
      BY <1>3, <2>8
    <2>13. \A c \in Channels : StaysRead(c) /\ NotAhead(c)
      BY <1>3, <2>1, <2>8 DEF StaysRead, NotAhead
    <2> QED BY <1>1, <1>2, <2>1, <2>6, <2>8, <2>9, <2>10, <2>11, <2>12, <2>13, HandledStep
  <1>8. CASE OnMessageAck
    <2>1. /\ h.type = "ack"
          /\ entry' = IF AckAdvances(h.channel, h.id) THEN [entry EXCEPT ![h.channel] = h.id] ELSE entry
          /\ counted' = counted \ {h.channel}
          /\ UNCHANGED <<serverVars, acks, failed, last, active, pending, seen, rewound>>
      BY <1>2, <1>8 DEF OnMessageAck, Receives
    <2>2. h.channel \in Channels /\ h.id \in Id /\ h.id \in 1..MaxMessages /\ h.id \in 0..Invalid
      BY <2>1, EventIs, ReadStateAssumption DEF Id, Invalid
    <2>3. TypeOK'
      BY <1>1, <2>1, <2>2 DEF IInv, TypeOK, serverVars
    <2>4. ASSUME NEW c \in Channels
          PROVE \/ entry'[c] = entry[c] /\ (c = h.channel => entry[c] # None /\ ~(h.id > entry[c]))
                \/ c = h.channel /\ entry'[c] = h.id /\ entry[c] # Invalid /\ h.id > Cursor(c)
      <3>1. CASE AckAdvances(h.channel, h.id)
        BY <1>3, <2>1, <2>2, <3>1, ReadStateAssumption DEF AckAdvances, None, Invalid
      <3>2. CASE ~AckAdvances(h.channel, h.id)
        BY <2>1, <3>2 DEF AckAdvances
      <3> QED BY <3>1, <3>2
    <2>5. \A c \in Channels :
            \/ entry'[c] = entry[c] /\ Cursor(c)' = Cursor(c)
            \/ c = h.channel /\ Cursor(c)' = h.id /\ h.id > Cursor(c) /\ entry[c] # Invalid
      BY <2>2, <2>4 DEF Cursor, HasCursor
    <2>6. ASSUME NEW c \in Channels
          PROVE  entry'[c] = Invalid \/ Cursor(c)' >= serverAck[c] \/ MoveComing(c, 2)
      <3> SUFFICES ASSUME Moves(h, c, serverAck[c]), entry'[c] # Invalid
                   PROVE  Cursor(c)' >= serverAck[c]
        <4>1. Cursor(c)' >= Cursor(c)
          BY <1>3, <2>2, <2>5
        <4>2. Cursor(c) \in Nat /\ Cursor(c)' \in Nat /\ serverAck[c] \in Nat
          BY <1>3, <2>2, <2>5
        <4> QED BY <1>2, <1>4, <2>5, <4>1, <4>2
      <3>1. h.channel = c /\ h.id = serverAck[c]
        BY <2>1 DEF Moves
      <3>2. CASE entry'[c] = entry[c] /\ ~(h.id > entry[c])
        BY <1>3, <2>2, <2>5, <3>1, <3>2
      <3>3. CASE entry'[c] = h.id
        BY <1>3, <2>2, <2>5, <3>1, <3>3
      <3> QED BY <2>4, <3>1, <3>2, <3>3
    <2>7. \A c \in Channels : \/ Cursor(c)' = Cursor(c) \/ Cursor(c)' <= serverAck[c]
      <3>1. h.id <= serverAck[h.channel]
        BY <1>2, <2>1 DEF Says
      <3> QED BY <2>5, <3>1
    <2>8. \A c \in Channels : /\ last'[c] = last[c] /\ last'[c] >= last[c]
                              /\ Cursor(c)' >= Cursor(c)
      BY <1>3, <2>1, <2>2, <2>5
    <2>9. \A c \in Channels : Cursor(c)' = Cursor(c) \/ (h.channel = c /\ Cursor(c)' = h.id)
      BY <2>5
    <2>10. pending => pending'
      BY <2>1
    <2>11. \A c \in Channels : StaysRead(c) /\ NotAhead(c)
      BY <1>3, <2>1, <2>7, <2>8 DEF StaysRead, NotAhead
    <2> QED BY <1>1, <1>2, <2>1, <2>3, <2>6, <2>7, <2>8, <2>9, <2>10, <2>11, HandledStep
  <1> QED BY <1>5, <1>6, <1>7, <1>8 DEF Handle

\* The user's actions and the timer keep IInv and move no cursor back.
LEMMA UserStep ==
  ASSUME IInv, AckTimer \/ \E c \in Channels : Select(c) \/ MarkRead(c)
  PROVE  IInv' /\ \A c \in Channels : Cursor(c)' >= Cursor(c)
  <1>1. /\ entry \in [Channels -> 0..Invalid] /\ last \in [Channels -> 0..MaxMessages]
        /\ acks \subseteq Ack /\ counted \subseteq Channels
        /\ active \in Channels \cup {NoChannel} /\ pending \in BOOLEAN
        /\ pending => active # NoChannel
        /\ seen \in [Channels -> 0..MaxMessages] /\ rewound \subseteq Channels
    BY DEF IInv, TypeOK
  <1>2. /\ Flush \subseteq Ack
        /\ \A a \in Flush : a.id = Cursor(a.channel)
        /\ pending /\ HasCursor(active) => [channel |-> active, id |-> entry[active]] \in Flush
    BY <1>1 DEF Flush, HasCursor, Cursor, Ack
  <1>3. ASSUME AckTimer
        PROVE  IInv' /\ \A c \in Channels : Cursor(c)' >= Cursor(c)
    <2>1. /\ UNCHANGED <<serverVars, events, failed, entry, last, counted, active, seen, rewound>>
          /\ pending' = FALSE /\ acks' = acks \cup Flush
      BY <1>3 DEF AckTimer, Request
    <2>2. TypeOK'
      BY <1>1, <1>2, <2>1 DEF IInv, TypeOK, serverVars
    <2> QED BY <1>2, <2>1, <2>2, ReadStep
  <1>4. ASSUME NEW c \in Channels, last[c] > 0
        PROVE  [channel |-> c, id |-> last[c]] \in Ack /\ last[c] \in 0..Invalid
    BY <1>1, <1>4, ReadStateAssumption DEF Ack, Id, Invalid
  <1>5. ASSUME NEW c \in Channels, MarkRead(c)
        PROVE  IInv' /\ \A d \in Channels : Cursor(d)' >= Cursor(d)
    <2>1. /\ last[c] > 0 /\ last[c] > Cursor(c)
          /\ acks' = acks \cup {[channel |-> c, id |-> last[c]]}
          /\ entry' = [entry EXCEPT ![c] = last[c]] /\ counted' = counted \ {c}
          /\ seen' = [seen EXCEPT ![c] = last[c]] /\ rewound' = rewound \ {c}
          /\ UNCHANGED <<serverVars, events, failed, last, active, pending>>
      BY <1>5 DEF MarkRead, Request, ReadLocally, IsUnread
    <2>2. TypeOK'
      BY <1>1, <1>4, <2>1 DEF IInv, TypeOK, serverVars
    <2>3. \A d \in Channels : \/ /\ entry'[d] = entry[d] /\ seen'[d] = seen[d]
                                 /\ d \in rewound => d \in rewound'
                              \/ /\ last[d] > Cursor(d) /\ entry'[d] = last[d] /\ seen'[d] = last[d]
                                 /\ [channel |-> d, id |-> last[d]] \in acks'
      BY <1>1, <2>1
    <2> QED BY <2>1, <2>2, <2>3, ReadStep
  <1>6. ASSUME NEW c \in Channels, Select(c)
        PROVE  IInv' /\ \A d \in Channels : Cursor(d)' >= Cursor(d)
    <2> DEFINE read == last[c] > 0 /\ IsUnread(c, last[c])
               left == IF active # c THEN Flush ELSE {}
               own == IF read THEN {[channel |-> c, id |-> last[c]]} ELSE {}
    <2>1. /\ acks' = acks \cup (left \cup own) /\ active' = c
          /\ pending' = (pending /\ ~(active # c))
          /\ entry' = (IF read THEN [entry EXCEPT ![c] = last[c]] ELSE entry)
          /\ seen' = (IF read THEN [seen EXCEPT ![c] = last[c]] ELSE seen)
          /\ rewound' = (IF read THEN rewound \ {c} ELSE rewound)
          /\ counted' \in {counted, counted \ {c}}
          /\ UNCHANGED <<serverVars, events, failed, last>>
      BY <1>6 DEF Select, Request, LeavingAcks
    <2>2. own \subseteq Ack /\ \A a \in own : a.id = last[a.channel]
      BY <1>4
    <2>3. left \subseteq Flush /\ (active # c => left = Flush)
      OBVIOUS
    <2>4. read => last[c] > Cursor(c) /\ last[c] \in 0..Invalid /\ [channel |-> c, id |-> last[c]] \in own
      BY <1>4 DEF IsUnread
    <2>5. entry' \in [Channels -> 0..Invalid]
      BY <1>1, <2>1, <2>4
    <2>6. \A d \in Channels : \/ /\ entry'[d] = entry[d] /\ seen'[d] = seen[d]
                                 /\ d \in rewound => d \in rewound'
                              \/ /\ last[d] > Cursor(d) /\ entry'[d] = last[d] /\ seen'[d] = last[d]
                                 /\ [channel |-> d, id |-> last[d]] \in acks'
      BY <1>1, <2>1, <2>4
    <2> HIDE DEF read, left, own
    <2>7. acks \subseteq acks' /\ acks' \subseteq Ack /\ counted' \subseteq Channels
      BY <1>1, <1>2, <2>1, <2>2, <2>3
    <2>8. c # NoChannel /\ pending' \in BOOLEAN
      <3>1. c # NoChannel
        BY ReadStateAssumption
      <3>2. pending' \in BOOLEAN
        BY <2>1
      <3> QED BY <3>1, <3>2
    <2>9. TypeOK'
      <3>1. pending' => active' # NoChannel
        BY <2>1, <2>8
      <3>2. seen' \in [Channels -> 0..MaxMessages] /\ rewound' \subseteq Channels
        BY <1>1, <2>1
      <3> QED BY <2>1, <2>5, <2>7, <2>8, <3>1, <3>2 DEF IInv, TypeOK, serverVars
    <2>10. \A a \in acks' : a \in acks \/ a.id = last[a.channel] \/ a.id = Cursor(a.channel)
      BY <1>2, <2>1, <2>2, <2>3
    <2>11. pending /\ HasCursor(active) =>
             \/ pending' /\ active' = active
             \/ [channel |-> active, id |-> entry[active]] \in acks'
      <3>1. CASE active = c
        BY <2>1, <3>1
      <3>2. CASE active # c
        BY <1>2, <2>1, <2>3, <3>2
      <3> QED BY <3>1, <3>2
    <2> QED BY <2>1, <2>6, <2>7, <2>9, <2>10, <2>11, ReadStep
  <1> QED BY <1>3, <1>5, <1>6

\* Nothing happens.
LEMMA Stutter == IInv /\ UNCHANGED vars => IInv' /\ \A c \in Channels : Cursor(c)' = Cursor(c)
  <1> SUFFICES ASSUME IInv, UNCHANGED vars
               PROVE  IInv' /\ \A c \in Channels : Cursor(c)' = Cursor(c)
    OBVIOUS
  <1>1. UNCHANGED <<newest, serverAck, readies, events, acks, failed, entry, last, counted, active, pending, seen, rewound>>
    BY DEF vars, serverVars, clientVars
  <1>2. \A c \in Channels : Cursor(c)' = Cursor(c)
    BY <1>1 DEF Cursor, HasCursor
  <1>3. TypeOK' /\ Bounded' /\ ReadIsAcknowledged' /\ NothingSkipped'
    BY <1>1, <1>2 DEF IInv, TypeOK, Bounded, ReadIsAcknowledged, NothingSkipped
  <1>4. Order'
    BY <1>1, <1>2 DEF IInv, Order, EventsSay, Says, ReadyFirst, CreatesNew, Cursor, HasCursor, AcksFollow
  <1>5. Coming'
    BY <1>1, <1>2 DEF IInv, Coming, LastComing, CursorComing, HeldComing, ReadyComing, MoveComing
  <1> QED BY <1>2, <1>3, <1>4, <1>5 DEF IInv

\* What the server does leaves the client's cursors alone.
LEMMA ServerKeepsCursors ==
  ASSUME UNCHANGED clientVars
  PROVE  \A c \in Channels : Cursor(c)' = Cursor(c)
  BY DEF clientVars, Cursor, HasCursor

\* Each step keeps IInv, and only READY moves a cursor back.
LEMMA Step ==
  ASSUME IInv, [Next]_vars
  PROVE  IInv' /\ (OnReady \/ \A c \in Channels : Cursor(c)' >= Cursor(c))
  <1>1. \A c \in Channels : Cursor(c) \in Nat
    BY CursorIs DEF IInv
  <1>2. ASSUME SrvReady \/ (\E c \in Channels : SrvRemoteRead(c)) \/ (\E a \in acks : SrvAck(a))
        PROVE  IInv' /\ \A c \in Channels : Cursor(c)' >= Cursor(c)
    <2>1. UNCHANGED clientVars
      BY <1>2 DEF SrvReady, SrvRemoteRead, SrvAck
    <2> QED BY <1>1, <1>2, <2>1, ServerKeepsCursors, ServerStep
  <1>3. ASSUME NEW c \in Channels, NEW kind \in Kinds, SrvMessage(c, kind)
        PROVE  IInv' /\ \A d \in Channels : Cursor(d)' >= Cursor(d)
    <2>1. UNCHANGED clientVars
      BY <1>3 DEF SrvMessage
    <2> QED BY <1>1, <1>3, <2>1, ServerKeepsCursors, MessageStep
  <1>4. CASE UNCHANGED vars
    BY <1>1, <1>4, Stutter
  <1>5. CASE Handle
    BY <1>5, HandleStep
  <1>6. CASE AckTimer \/ \E c \in Channels : Select(c) \/ MarkRead(c)
    BY <1>6, UserStep
  <1> QED BY <1>2, <1>3, <1>4, <1>5, <1>6 DEF Next

-----------------------------------------------------------------------------
\* IInv is inductive.
THEOREM Invariance == Spec => []IInv
  <1>1. Init => IInv
    BY InitOK
  <1>2. IInv /\ [Next]_vars => IInv'
    BY Step
  <1> QED BY <1>1, <1>2, PTL DEF Spec

\* Whatever the user read is acknowledged, will be by the timer, was refused, or its
\* cursor was taken back by a READY; no cursor is ahead of what was read; and when no
\* event is under way the client knows the newest messages and is not behind the server's
\* cursors (updateLocalReadState, setActiveChannel and onMessageAck of ReadStateManager).
THEOREM ReadsKnown == Spec => []Inv
  <1>1. IInv => Inv
    <2> SUFFICES ASSUME IInv, events = <<>>, NEW c \in Channels
                 PROVE  last[c] = newest[c] /\ (entry[c] # Invalid => Cursor(c) >= serverAck[c])
      BY DEF IInv, Inv, CaughtUp
    <2>1. Len(events) = 0
      OBVIOUS
    <2> QED BY <2>1 DEF IInv, Coming, LastComing, CursorComing, MoveComing
  <1> QED BY <1>1, Invariance, PTL

\* A cursor moves back only to what a new session says: late echoes of older
\* acknowledgements, and messages seen late, leave it where it is.
THEOREM CursorNeverBack == Spec => CursorMonotone
  <1>1. IInv /\ [Next]_vars => [(\A c \in Channels : Cursor(c)' >= Cursor(c)) \/ OnReady]_vars
    BY Step
  <1> QED BY <1>1, Invariance, PTL DEF Spec, CursorMonotone

=============================================================================
