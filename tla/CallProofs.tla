----------------------------- MODULE CallProofs -----------------------------
(***************************************************************************)
(* What is proved of a call: of its connection (VoiceClient), for any cap  *)
(* on reconnections, any number of faults and any length of queue, and of  *)
(* its encryption (DaveSession), for any users, SSRCs and number of        *)
(* groups.                                                                 *)
(*                                                                         *)
(* VoiceClient.  What the server sent and the voice thread has not handled *)
(* is one path, q \o wire, whatever part of it was received.  The proofs   *)
(* say what is on it: before the handshake a HELLO, last but for ACKs,     *)
(* behind the "connected" that announces it (HelloNext); in a session one  *)
(* answer, before any description (InSession).  That the key is the one of *)
(* the session (Shown) then rests on what RESUME may be sent for: a key    *)
(* the client still has when it may resume is the session's (KeyHeld), and *)
(* a client that may resume will, or finds its key cleared by an end that  *)
(* is on its way (Resuming, Falling).                                      *)
(*                                                                         *)
(* DaveSession.  Neither EnabledKeyed nor SpeakersKeyed is inductive.  A   *)
(* transition that completes must find a group (ReadyInGroup), a session   *)
(* that is gone must not be encrypting, and a decryptor needs a session    *)
(* (Housed).                                                               *)
(***************************************************************************)
EXTENDS VoiceClient, DaveSession, WellFoundedInduction, SequenceTheorems, TLAPS

-----------------------------------------------------------------------------
(* Sequences without some of their ACKs.                                   *)

\* A set of naturals has a least one.
LEMMA LeastNatural ==
  ASSUME NEW T \in SUBSET Nat, T # {}
  PROVE  \E n \in T : \A m \in T : n <= m
<1>1. PICK n \in T : \A m \in T : <<m, n>> \notin OpToRel(<, Nat)
  BY WFMin, NatLessThanWellFounded
<1>2. \A m \in T : ~(m < n)
  BY <1>1, Zenon DEF OpToRel
<1> QED
  BY <1>2

\* A sequence without its p-th item.
LEMMA RemovedAt ==
  ASSUME NEW S, NEW s \in Seq(S), NEW p \in 1..Len(s)
  PROVE  /\ RemoveAt(s, p) \in Seq(S) /\ Len(RemoveAt(s, p)) = Len(s) - 1
         /\ \A i \in 1..p - 1 : RemoveAt(s, p)[i] = s[i]
         /\ \A i \in p..Len(s) - 1 : RemoveAt(s, p)[i] = s[i + 1]
<1> DEFINE a == SubSeq(s, 1, p - 1)
           b == SubSeq(s, p + 1, Len(s))
<1>1. a \in Seq(S) /\ Len(a) = p - 1 /\ \A i \in 1..p - 1 : a[i] = s[i]
  OBVIOUS
<1>2. b \in Seq(S) /\ Len(b) = Len(s) - p /\ \A i \in 1..Len(s) - p : b[i] = s[i + p]
  OBVIOUS
<1>3. Len(s) \in Nat /\ p \in Nat
  OBVIOUS
<1> HIDE DEF a, b
<1>7. a \o b \in Seq(S) /\ Len(a \o b) = Len(a) + Len(b)
  <2>1. a \in Seq(S) /\ b \in Seq(S)
    BY <1>1, <1>2
  <2> QED
    BY <2>1
<1>4. a \o b \in Seq(S) /\ Len(a \o b) = Len(s) - 1
  BY <1>1, <1>2, <1>3, <1>7
<1>5. \A i \in 1..p - 1 : (a \o b)[i] = s[i]
  BY <1>1, <1>2, <1>3
<1>6. ASSUME NEW i \in p..Len(s) - 1 PROVE (a \o b)[i] = s[i + 1]
  <2>1. i - (p - 1) \in 1..Len(s) - p
    BY <1>3
  <2>2. (a \o b)[i] = b[i - (p - 1)]
    BY <1>1, <1>2, <1>3, <2>1
  <2> QED
    BY <1>2, <1>3, <2>1, <2>2
<1> QED
  BY <1>4, <1>5, <1>6 DEF RemoveAt, a, b

\* What is left of a sequence without its first ACK: the other items, in their order.
LEMMA WithoutAckIs ==
  ASSUME NEW S, NEW s \in Seq(S)
  PROVE  \/ WithoutAck(s) = s /\ \A i \in 1..Len(s) : s[i] # "ACK"
         \/ \E p \in 1..Len(s) : s[p] = "ACK" /\ WithoutAck(s) = RemoveAt(s, p)
<1>1. CASE \A i \in 1..Len(s) : s[i] # "ACK"
  BY <1>1 DEF WithoutAck, RemoveFirst
<1>2. CASE \E i \in 1..Len(s) : s[i] = "ACK"
  <2> DEFINE I == {i \in 1..Len(s) : s[i] = "ACK"}
             p == SelectInSeq(s, LAMBDA v : v = "ACK")
  <2>1. p = CHOOSE x \in I : \A y \in I : x <= y
    BY <1>2 DEF SelectInSeq, Min
  <2>2. I \in SUBSET Nat /\ I # {}
    BY <1>2
  <2>3. \E x \in I : \A y \in I : x <= y
    <3> HIDE DEF I
    <3> QED
      BY <2>2, LeastNatural
  <2>4. p \in I
    <3> HIDE DEF I, p
    <3> QED
      BY <2>1, <2>3
  <2>5. WithoutAck(s) = RemoveAt(s, p)
    BY <1>2 DEF WithoutAck, RemoveFirst
  <2> QED
    BY <2>4, <2>5
<1> QED
  BY <1>1, <1>2

\* t is s without some of its ACKs.
Thins(s, t) ==
  \E d \in [1..Len(t) -> 1..Len(s)] :
    /\ \A k \in 1..Len(t) : t[k] = s[d[k]]
    /\ \A k, l \in 1..Len(t) : k < l => d[k] < d[l]
    /\ \A i \in 1..Len(s) : s[i] # "ACK" => \E k \in 1..Len(t) : d[k] = i

\* Taking the first ACK away thins a sequence.
LEMMA WithoutAckThins ==
  ASSUME NEW S, NEW s \in Seq(S)
  PROVE  WithoutAck(s) \in Seq(S) /\ Thins(s, WithoutAck(s))
<1>1. CASE WithoutAck(s) = s
  <2> DEFINE d == [k \in 1..Len(s) |-> k]
  <2>1. d \in [1..Len(s) -> 1..Len(s)] /\ \A k \in 1..Len(s) : d[k] = k
    OBVIOUS
  <2> HIDE DEF d
  <2> QED
    BY <1>1, <2>1 DEF Thins
<1>2. ASSUME NEW p \in 1..Len(s), s[p] = "ACK", WithoutAck(s) = RemoveAt(s, p)
      PROVE  WithoutAck(s) \in Seq(S) /\ Thins(s, WithoutAck(s))
  <2> DEFINE t == WithoutAck(s)
             n == Len(s)
             d == [k \in 1..n - 1 |-> IF k < p THEN k ELSE k + 1]
  <2>1. /\ t \in Seq(S) /\ Len(t) = n - 1
        /\ \A i \in 1..p - 1 : t[i] = s[i]
        /\ \A i \in p..n - 1 : t[i] = s[i + 1]
    BY <1>2, RemovedAt
  <2>2. n \in Nat /\ p \in 1..n
    OBVIOUS
  <2> HIDE DEF t, n
  <2>3. d \in [1..n - 1 -> 1..n]
    BY <2>2
  <2>4. \A k \in 1..n - 1 : t[k] = s[d[k]]
    BY <2>1, <2>2
  <2>5. \A k, l \in 1..n - 1 : k < l => d[k] < d[l]
    BY <2>2
  <2>6. ASSUME NEW i \in 1..n, s[i] # "ACK" PROVE \E k \in 1..n - 1 : d[k] = i
    <3>1. i # p
      BY <1>2, <2>6
    <3>2. i < p => i \in 1..n - 1 /\ d[i] = i
      BY <2>2
    <3>3. i > p => i - 1 \in 1..n - 1 /\ d[i - 1] = i
      BY <2>2
    <3>4. i < p \/ i > p
      BY <2>2, <3>1
    <3> HIDE DEF d
    <3> QED
      BY <3>2, <3>3, <3>4
  <2> HIDE DEF d
  <2>7. Len(s) = n
    BY DEF n
  <2>8. Thins(s, t)
    <3>1. /\ d \in [1..Len(t) -> 1..Len(s)]
          /\ \A k \in 1..Len(t) : t[k] = s[d[k]]
          /\ \A k, l \in 1..Len(t) : k < l => d[k] < d[l]
          /\ \A i \in 1..Len(s) : s[i] # "ACK" => \E k \in 1..Len(t) : d[k] = i
      BY <2>1, <2>3, <2>4, <2>5, <2>6, <2>7
    <3> QED
      BY <3>1, Zenon DEF Thins
  <2> QED
    BY <2>1, <2>8 DEF t
<1> QED
  BY <1>1, <1>2, WithoutAckIs

\* Two sequences thinned, one behind the other, are the whole thinned.
LEMMA ThinsJoined ==
  ASSUME NEW S, NEW a \in Seq(S), NEW b \in Seq(S), NEW x \in Seq(S), NEW y \in Seq(S),
         Thins(a, x), Thins(b, y)
  PROVE  Thins(a \o b, x \o y)
<1>1. PICK f \in [1..Len(x) -> 1..Len(a)] :
        /\ \A k \in 1..Len(x) : x[k] = a[f[k]]
        /\ \A k, l \in 1..Len(x) : k < l => f[k] < f[l]
        /\ \A i \in 1..Len(a) : a[i] # "ACK" => \E k \in 1..Len(x) : f[k] = i
  BY DEF Thins
<1>2. PICK g \in [1..Len(y) -> 1..Len(b)] :
        /\ \A k \in 1..Len(y) : y[k] = b[g[k]]
        /\ \A k, l \in 1..Len(y) : k < l => g[k] < g[l]
        /\ \A i \in 1..Len(b) : b[i] # "ACK" => \E k \in 1..Len(y) : g[k] = i
  BY DEF Thins
<1> DEFINE m == Len(x)
           n == Len(y)
           la == Len(a)
           lb == Len(b)
           s == a \o b
           t == x \o y
           d == [k \in 1..m + n |-> IF k <= m THEN f[k] ELSE la + g[k - m]]
<1>3. m \in Nat /\ n \in Nat /\ la \in Nat /\ lb \in Nat /\ Len(s) = la + lb /\ Len(t) = m + n
  OBVIOUS
<1>4. \A i \in 1..la : s[i] = a[i]
  OBVIOUS
<1>5. \A i \in 1..lb : s[la + i] = b[i]
  OBVIOUS
<1>6. \A k \in 1..m : t[k] = x[k]
  OBVIOUS
<1>7. \A k \in 1..n : t[m + k] = y[k]
  OBVIOUS
<1>8. f \in [1..m -> 1..la] /\ g \in [1..n -> 1..lb]
  OBVIOUS
<1>9. /\ \A k \in 1..m : x[k] = a[f[k]]
      /\ \A k, l \in 1..m : k < l => f[k] < f[l]
      /\ \A i \in 1..la : a[i] # "ACK" => \E k \in 1..m : f[k] = i
  BY <1>1
<1>10. /\ \A k \in 1..n : y[k] = b[g[k]]
       /\ \A k, l \in 1..n : k < l => g[k] < g[l]
       /\ \A i \in 1..lb : b[i] # "ACK" => \E k \in 1..n : g[k] = i
  BY <1>2
<1> HIDE DEF m, n, la, lb, s, t
<1>11. \A k \in 1..m + n : (k <= m => k \in 1..m) /\ (k > m => k - m \in 1..n /\ m + (k - m) = k)
  BY <1>3
<1>12. \A k \in 1..m + n : (k <= m => d[k] = f[k] /\ d[k] \in 1..la) /\ (k > m => d[k] = la + g[k - m] /\ g[k - m] \in 1..lb)
  BY <1>3, <1>8, <1>11
<1>13. d \in [1..m + n -> 1..la + lb]
  <2>1. \A k \in 1..m + n : d[k] \in 1..la + lb
    <3> HIDE DEF d
    <3> TAKE k \in 1..m + n
    <3>1. CASE k <= m
      <4>1. d[k] \in 1..la
        BY <1>12, <3>1
      <4> QED
        BY <1>3, <4>1
    <3>2. CASE k > m
      <4>1. d[k] = la + g[k - m] /\ g[k - m] \in 1..lb
        BY <1>12, <3>2
      <4> QED
        BY <1>3, <4>1
    <3> QED
      BY <1>3, <3>1, <3>2
  <2> QED
    BY <2>1
<1> HIDE DEF d
<1>14. ASSUME NEW k \in 1..m + n PROVE t[k] = s[d[k]]
  <2>1. CASE k <= m
    <3>1. k \in 1..m /\ d[k] = f[k] /\ f[k] \in 1..la
      BY <1>11, <1>12, <2>1
    <3> QED
      BY <1>4, <1>6, <1>9, <3>1
  <2>2. CASE k > m
    <3>1. k - m \in 1..n /\ m + (k - m) = k /\ d[k] = la + g[k - m] /\ g[k - m] \in 1..lb
      BY <1>11, <1>12, <2>2
    <3>2. t[k] = y[k - m]
      BY <1>7, <3>1
    <3> QED
      BY <1>5, <1>10, <3>1, <3>2
  <2> QED
    BY <1>3, <2>1, <2>2
<1>15. ASSUME NEW k \in 1..m + n, NEW l \in 1..m + n, k < l PROVE d[k] < d[l]
  <2>1. CASE l <= m
    <3>1. k \in 1..m /\ l \in 1..m /\ d[k] = f[k] /\ d[l] = f[l]
      BY <1>3, <1>11, <1>12, <1>15, <2>1
    <3> QED
      BY <1>9, <1>15, <3>1
  <2>2. CASE k <= m /\ l > m
    <3>1. d[k] \in 1..la /\ d[l] = la + g[l - m] /\ g[l - m] \in 1..lb
      BY <1>12, <2>2
    <3> QED
      BY <1>3, <3>1, SMTT(30)
  <2>3. CASE k > m
    <3>1. l > m /\ k - m < l - m /\ k - m \in 1..n /\ l - m \in 1..n
      BY <1>3, <1>11, <1>15, <2>3
    <3>2. g[k - m] < g[l - m] /\ g[k - m] \in 1..lb /\ g[l - m] \in 1..lb
      BY <1>8, <1>10, <3>1
    <3>3. d[k] = la + g[k - m] /\ d[l] = la + g[l - m]
      BY <1>12, <2>3, <3>1
    <3> QED
      BY <1>3, <3>2, <3>3, SMTT(30)
  <2> QED
    BY <1>3, <2>1, <2>2, <2>3
<1>16. ASSUME NEW i \in 1..la + lb, s[i] # "ACK" PROVE \E k \in 1..m + n : d[k] = i
  <2>1. CASE i <= la
    <3>1. i \in 1..la /\ a[i] # "ACK"
      BY <1>3, <1>4, <1>16, <2>1
    <3>2. PICK k \in 1..m : f[k] = i
      BY <1>9, <3>1
    <3>3. k \in 1..m + n /\ k <= m
      BY <1>3
    <3> QED
      BY <1>12, <3>2, <3>3
  <2>2. CASE i > la
    <3>1. i - la \in 1..lb /\ la + (i - la) = i
      BY <1>3, <2>2
    <3>2. b[i - la] # "ACK"
      BY <1>5, <1>16, <3>1
    <3>3. PICK k \in 1..n : g[k] = i - la
      BY <1>10, <3>1, <3>2
    <3>4. m + k \in 1..m + n /\ m + k > m /\ (m + k) - m = k
      BY <1>3
    <3> QED
      BY <1>12, <3>1, <3>3, <3>4
  <2> QED
    BY <1>3, <2>1, <2>2
<1>17. Thins(s, t)
  <2>1. /\ d \in [1..Len(t) -> 1..Len(s)]
        /\ \A k \in 1..Len(t) : t[k] = s[d[k]]
        /\ \A k, l \in 1..Len(t) : k < l => d[k] < d[l]
        /\ \A i \in 1..Len(s) : s[i] # "ACK" => \E k \in 1..Len(t) : d[k] = i
    BY <1>3, <1>13, <1>14, <1>15, <1>16
  <2> QED
    BY <2>1, Zenon DEF Thins
<1> QED
  BY <1>17 DEF s, t

\* The types of the variables, with the items that may be under way left unexpanded.
Path == q \o wire
Item == Payload \cup CloseCode \cup {"connected", "disconnected", "delete"}
QItem == Payload \cup {"connected", "disconnected", "delete"}
WItem == Payload \cup CloseCode

\* What the items under way are.
LEMMA Items ==
  /\ QItem \subseteq Item /\ WItem \subseteq Item /\ Payload \subseteq QItem /\ Payload \subseteq WItem
  /\ {"HELLO", "READY", "RESUMED", "DESCRIPTION", "ACK"} \subseteq Payload
  /\ {"connected", "disconnected", "delete"} \subseteq QItem
  /\ {"fatal", "invalid", "other"} = CloseCode /\ CloseCode \subseteq WItem
BY DEF QItem, WItem, Item, Payload, CloseCode

Gw == [running : BOOLEAN, shouldReconnect : BOOLEAN, canResume : BOOLEAN,
       isResuming : BOOLEAN, reconnectAttempts : 0..MaxAttempts, ack : BOOLEAN]
Vc == [state : States, gateway : {"none", "live", "orphan", "gone"}, ssrc : BOOLEAN,
       udp : {"none", "asking", "bound"}, encryption : BOOLEAN, told : BOOLEAN, asked : BOOLEAN]

Control ==
  /\ npc \in {"none", "top", "connecting", "retry", "recv", "check", "join", "while",
              "ending", "tail", "done"}
  /\ hb \in {"none", "wait", "done"}
  /\ vpc \in {"loop", "spawn", "joinNet", "joinHb", "crashed", "destroyed"}
  /\ srv \in {"none", "open", "session", "closed", "silent"}
  /\ resumable \in BOOLEAN /\ keyed \in BOOLEAN /\ late \in BOOLEAN /\ faults \in 0..MaxFaults

Queues == q \in Seq(QItem) /\ wire \in Seq(WItem)

\* The type invariant, variable by variable.
LEMMA TypeParts == TypeOK <=> gw \in Gw /\ vc \in Vc /\ Control /\ Queues
BY DEF TypeOK, Gw, Vc, Control, Queues, QItem, WItem

\* What a session that was established does to the gateway is well typed.
LEMMA GwParts ==
  ASSUME gw \in Gw
  PROVE  /\ Established \in Gw
         /\ [Established EXCEPT !.shouldReconnect = FALSE, !.running = FALSE] \in Gw
         /\ gw.reconnectAttempts \in 0..MaxAttempts
<1>1. Established \in Gw
  <2>1. 0 \in 0..MaxAttempts
    BY VoiceClientAssumption
  <2> QED
    BY <2>1 DEF Gw, Established
<1> QED
  BY <1>1 DEF Gw

\* So is what the helpers of VoiceClient do to its fields.
LEMMA VcParts ==
  ASSUME NEW c \in Vc
  PROVE  Cleaned(c) \in Vc /\ Discovering(c) \in Vc /\ Stopped(c) \in Vc
BY DEF Vc, Cleaned, Discovering, Stopped, States

\* Every step keeps the type of the gateway's atomics ...
LEMMA GwStep == gw \in Gw /\ [Next]_vars => gw' \in Gw
<1> SUFFICES ASSUME gw \in Gw, [Next]_vars PROVE gw' \in Gw
  OBVIOUS
<1> USE VoiceClientAssumption DEF Gw
<1>1. CASE Start
  <2>1. gw' = [gw EXCEPT !.running = TRUE, !.reconnectAttempts = 0] /\ 0 \in 0..MaxAttempts
    BY <1>1 DEF Start
  <2> QED
    BY <2>1
<1>2. CASE Stop
  BY <1>2 DEF Stop, StopFrom, Cleaned, Stopped
<1>3. CASE Destroy
  BY <1>3 DEF Destroy
<1>4. CASE NetTop
  BY <1>4 DEF NetTop
<1>5. CASE NetConnected
  BY <1>5 DEF NetConnected, Post
<1>6. CASE NetRetry
  BY <1>6 DEF NetRetry
<1>7. CASE NetLeaves
  BY <1>7 DEF NetLeaves, Leave
<1>8. CASE NetReceives
  BY <1>8 DEF NetReceives, Post
<1>9. CASE NetCloseFrame
  BY <1>9 DEF NetCloseFrame, Leave, Post, Recoverable, CloseCode
<1>10. CASE NetCheck
  <2>1. \/ gw' = gw \/ gw' = [gw EXCEPT !.shouldReconnect = FALSE]
        \/ MayRetry /\ gw' = [gw EXCEPT !.reconnectAttempts = @ + 1, !.isResuming = gw.canResume]
    BY <1>10 DEF NetCheck
  <2>2. MayRetry => gw.reconnectAttempts + 1 \in 0..MaxAttempts
    BY DEF MayRetry
  <2> QED
    BY <2>1, <2>2
<1>11. CASE NetJoins
  BY <1>11 DEF NetJoins
<1>12. CASE NetWhile
  BY <1>12 DEF NetWhile, Fault
<1>13. CASE NetEnds
  BY <1>13 DEF NetEnds
<1>14. CASE NetTail
  BY <1>14 DEF NetTail
<1>15. CASE HbEnds
  BY <1>15 DEF HbEnds
<1>16. CASE HbBeat
  BY <1>16 DEF HbBeat, Fault
<1>17. CASE JoinNetwork
  BY <1>17 DEF JoinNetwork
<1>18. CASE JoinHeartbeat
  BY <1>18 DEF JoinHeartbeat, Stopped, Cleaned
<1>19. CASE SpawnHeartbeat
  BY <1>19 DEF SpawnHeartbeat
<1>20. CASE OnDelete
  BY <1>20 DEF OnDelete, Handles
<1>21. CASE OnGatewayConnected
  BY <1>21 DEF OnGatewayConnected, Handles
<1>22. CASE OnGatewayDisconnected
  BY <1>22 DEF OnGatewayDisconnected, Handles, Cleaned
<1>23. CASE OnHello
  BY <1>23 DEF OnHello, Handles, SrvResume, SrvIdentify, Lost, Closes, Frames
<1>24. CASE OnReady
  <2>1. gw' \in {Established, [Established EXCEPT !.shouldReconnect = FALSE, !.running = FALSE]}
    BY <1>24 DEF OnReady
  <2> QED
    BY <2>1, GwParts
<1>25. CASE OnResumed
  BY <1>25, GwParts DEF OnResumed
<1>26. CASE OnSessionDescription
  BY <1>26 DEF OnSessionDescription, Handles
<1>27. CASE OnAck
  BY <1>27 DEF OnAck, Handles
<1>28. CASE OnIpDiscovered
  BY <1>28 DEF OnIpDiscovered, SrvSelect, Lost, Closes, Frames
<1>29. CASE OnIpDiscoveryFailed
  BY <1>29 DEF OnIpDiscoveryFailed, StopFrom, Cleaned, Stopped, Fault
<1>30. CASE SrvCloses
  BY <1>30 DEF SrvCloses, Fault, Closes, Frames
<1>31. CASE SrvFallsSilent
  BY <1>31 DEF SrvFallsSilent, Fault
<1>32. CASE SrvForgets
  BY <1>32 DEF SrvForgets, Fault
<1>33. CASE NetCut
  BY <1>33 DEF NetCut, Fault, Leave
<1>34. CASE NetConnectFails
  BY <1>34 DEF NetConnectFails, MayRetry, Post
<1>35. CASE Over
  BY <1>35 DEF Over, vars
<1>36. CASE UNCHANGED vars
  BY <1>36 DEF vars
<1> QED
  BY <1>1, <1>2, <1>3, <1>4, <1>5, <1>6, <1>7, <1>8, <1>9, <1>10, <1>11, <1>12, <1>13, <1>14, <1>15, <1>16, <1>17, <1>18, <1>19, <1>20, <1>21, <1>22, <1>23, <1>24, <1>25, <1>26, <1>27, <1>28, <1>29, <1>30, <1>31, <1>32, <1>33, <1>34, <1>35, <1>36
     DEF Next, NetStep, HbStep, VoiceStep, VoiceEvent, Environment

\* ... of the client's fields ...
LEMMA VcStep == vc \in Vc /\ [Next]_vars => vc' \in Vc
<1> SUFFICES ASSUME vc \in Vc, [Next]_vars PROVE vc' \in Vc
  OBVIOUS
<1> USE VoiceClientAssumption DEF Vc, States
<1>1. CASE Start
  BY <1>1 DEF Start
<1>2. CASE Stop
  BY <1>2, ZenonT(60) DEF Stop, StopFrom, Cleaned, Stopped
<1>3. CASE Destroy
  BY <1>3 DEF Destroy
<1>4. CASE NetTop
  BY <1>4 DEF NetTop
<1>5. CASE NetConnected
  BY <1>5 DEF NetConnected, Post
<1>6. CASE NetRetry
  BY <1>6 DEF NetRetry
<1>7. CASE NetLeaves
  BY <1>7 DEF NetLeaves, Leave
<1>8. CASE NetReceives
  BY <1>8 DEF NetReceives, Post
<1>9. CASE NetCloseFrame
  BY <1>9 DEF NetCloseFrame, Leave, Post, Recoverable, CloseCode
<1>10. CASE NetCheck
  BY <1>10 DEF NetCheck, Post, MayRetry
<1>11. CASE NetJoins
  BY <1>11 DEF NetJoins
<1>12. CASE NetWhile
  BY <1>12 DEF NetWhile, Fault
<1>13. CASE NetEnds
  BY <1>13 DEF NetEnds
<1>14. CASE NetTail
  BY <1>14 DEF NetTail
<1>15. CASE HbEnds
  BY <1>15 DEF HbEnds
<1>16. CASE HbBeat
  BY <1>16 DEF HbBeat, Fault
<1>17. CASE JoinNetwork
  BY <1>17 DEF JoinNetwork
<1>18. CASE JoinHeartbeat
  BY <1>18, ZenonT(60) DEF JoinHeartbeat, Stopped, Cleaned
<1>19. CASE SpawnHeartbeat
  BY <1>19 DEF SpawnHeartbeat
<1>20. CASE OnDelete
  BY <1>20 DEF OnDelete, Handles
<1>21. CASE OnGatewayConnected
  BY <1>21 DEF OnGatewayConnected, Handles
<1>22. CASE OnGatewayDisconnected
  BY <1>22 DEF OnGatewayDisconnected, Handles, Cleaned
<1>23. CASE OnHello
  BY <1>23 DEF OnHello, Handles, SrvResume, SrvIdentify, Lost, Closes, Frames
<1>24. CASE OnReady
  <2> DEFINE c == [vc EXCEPT !.ssrc = TRUE]
  <2>1. c \in Vc
    OBVIOUS
  <2>2. \E d \in {c, Discovering(c)} : vc' \in {d, Cleaned(d), Stopped(d)}
    BY <1>24 DEF OnReady
  <2> HIDE DEF c
  <2> QED
    BY <2>1, <2>2, VcParts
<1>25. CASE OnResumed
  BY <1>25 DEF OnResumed, Handles, Discovering, Cleaned, Established, Incomplete
<1>26. CASE OnSessionDescription
  BY <1>26 DEF OnSessionDescription, Handles
<1>27. CASE OnAck
  BY <1>27 DEF OnAck, Handles
<1>28. CASE OnIpDiscovered
  BY <1>28 DEF OnIpDiscovered, SrvSelect, Lost, Closes, Frames
<1>29. CASE OnIpDiscoveryFailed
  BY <1>29, ZenonT(60) DEF OnIpDiscoveryFailed, StopFrom, Cleaned, Stopped, Fault
<1>30. CASE SrvCloses
  BY <1>30 DEF SrvCloses, Fault, Closes, Frames
<1>31. CASE SrvFallsSilent
  BY <1>31 DEF SrvFallsSilent, Fault
<1>32. CASE SrvForgets
  BY <1>32 DEF SrvForgets, Fault
<1>33. CASE NetCut
  BY <1>33 DEF NetCut, Fault, Leave
<1>34. CASE NetConnectFails
  BY <1>34 DEF NetConnectFails, MayRetry, Post
<1>35. CASE Over
  BY <1>35 DEF Over, vars
<1>36. CASE UNCHANGED vars
  BY <1>36 DEF vars
<1> QED
  BY <1>1, <1>2, <1>3, <1>4, <1>5, <1>6, <1>7, <1>8, <1>9, <1>10, <1>11, <1>12, <1>13, <1>14, <1>15, <1>16, <1>17, <1>18, <1>19, <1>20, <1>21, <1>22, <1>23, <1>24, <1>25, <1>26, <1>27, <1>28, <1>29, <1>30, <1>31, <1>32, <1>33, <1>34, <1>35, <1>36
     DEF Next, NetStep, HbStep, VoiceStep, VoiceEvent, Environment

\* ... of the threads and of the server ...
LEMMA ControlStep == Control /\ [Next]_vars => Control'
<1> SUFFICES ASSUME Control, [Next]_vars PROVE Control'
  OBVIOUS
<1> USE VoiceClientAssumption DEF Control, srvVars
<1>1. CASE Start
  BY <1>1 DEF Start
<1>2. CASE Stop
  BY <1>2 DEF Stop, StopFrom, Cleaned, Stopped
<1>3. CASE Destroy
  BY <1>3 DEF Destroy
<1>4. CASE NetTop
  BY <1>4 DEF NetTop
<1>5. CASE NetConnected
  BY <1>5 DEF NetConnected, Post
<1>6. CASE NetRetry
  BY <1>6 DEF NetRetry
<1>7. CASE NetLeaves
  BY <1>7 DEF NetLeaves, Leave
<1>8. CASE NetReceives
  BY <1>8 DEF NetReceives, Post
<1>9. CASE NetCloseFrame
  BY <1>9 DEF NetCloseFrame, Leave, Post, Recoverable, CloseCode
<1>10. CASE NetCheck
  BY <1>10 DEF NetCheck, Post, MayRetry
<1>11. CASE NetJoins
  BY <1>11 DEF NetJoins
<1>12. CASE NetWhile
  BY <1>12 DEF NetWhile, Fault
<1>13. CASE NetEnds
  BY <1>13 DEF NetEnds
<1>14. CASE NetTail
  BY <1>14 DEF NetTail
<1>15. CASE HbEnds
  BY <1>15 DEF HbEnds
<1>16. CASE HbBeat
  BY <1>16 DEF HbBeat, Fault
<1>17. CASE JoinNetwork
  BY <1>17 DEF JoinNetwork
<1>18. CASE JoinHeartbeat
  BY <1>18 DEF JoinHeartbeat, Stopped, Cleaned
<1>19. CASE SpawnHeartbeat
  BY <1>19 DEF SpawnHeartbeat
<1>20. CASE OnDelete
  BY <1>20 DEF OnDelete, Handles
<1>21. CASE OnGatewayConnected
  BY <1>21 DEF OnGatewayConnected, Handles
<1>22. CASE OnGatewayDisconnected
  BY <1>22 DEF OnGatewayDisconnected, Handles, Cleaned
<1>23. CASE OnHello
  BY <1>23 DEF OnHello, Handles, SrvResume, SrvIdentify, Lost, Closes, Frames
<1>24. CASE OnReady
  BY <1>24 DEF OnReady, Handles, Discovering, Cleaned, Stopped, Established, Fault
<1>25. CASE OnResumed
  BY <1>25 DEF OnResumed, Handles, Discovering, Cleaned, Established, Incomplete
<1>26. CASE OnSessionDescription
  BY <1>26 DEF OnSessionDescription, Handles
<1>27. CASE OnAck
  BY <1>27 DEF OnAck, Handles
<1>28. CASE OnIpDiscovered
  BY <1>28 DEF OnIpDiscovered, SrvSelect, Lost, Closes, Frames
<1>29. CASE OnIpDiscoveryFailed
  BY <1>29 DEF OnIpDiscoveryFailed, StopFrom, Cleaned, Stopped, Fault
<1>30. CASE SrvCloses
  <2>1. faults' \in 0..MaxFaults
    BY <1>30 DEF SrvCloses, Fault
  <2>2. srv' = "closed" /\ resumable' \in {resumable, FALSE}
    BY <1>30, Zenon DEF SrvCloses, Closes
  <2> QED
    BY <1>30, <2>1, <2>2, ZenonT(60) DEF SrvCloses, Closes, Frames
<1>31. CASE SrvFallsSilent
  BY <1>31 DEF SrvFallsSilent, Fault
<1>32. CASE SrvForgets
  <2>1. faults' \in 0..MaxFaults
    BY <1>32 DEF SrvForgets, Fault
  <2> QED
    BY <1>32, <2>1, Zenon DEF SrvForgets
<1>33. CASE NetCut
  BY <1>33 DEF NetCut, Fault, Leave
<1>34. CASE NetConnectFails
  BY <1>34 DEF NetConnectFails, MayRetry, Post
<1>35. CASE Over
  BY <1>35 DEF Over, vars
<1>36. CASE UNCHANGED vars
  BY <1>36 DEF vars, srvVars
<1> QED
  BY <1>1, <1>2, <1>3, <1>4, <1>5, <1>6, <1>7, <1>8, <1>9, <1>10, <1>11, <1>12, <1>13, <1>14, <1>15, <1>16, <1>17, <1>18, <1>19, <1>20, <1>21, <1>22, <1>23, <1>24, <1>25, <1>26, <1>27, <1>28, <1>29, <1>30, <1>31, <1>32, <1>33, <1>34, <1>35, <1>36
     DEF Next, NetStep, HbStep, VoiceStep, VoiceEvent, Environment

\* ... and of what is under way.
LEMMA QueuesStep == Queues /\ [Next]_vars => Queues'
<1> SUFFICES ASSUME Queues, [Next]_vars PROVE Queues'
  OBVIOUS
<1> USE Items DEF Queues, srvVars
<1>1. CASE Start
  BY <1>1 DEF Start
<1>2. CASE Stop
  BY <1>2 DEF Stop, StopFrom, Cleaned, Stopped
<1>3. CASE Destroy
  BY <1>3 DEF Destroy
<1>4. CASE NetTop
  BY <1>4 DEF NetTop
<1>5. CASE NetConnected
  <2>1. wire' = <<"HELLO">> /\ (q' = q \/ q' = Append(q, "connected"))
    BY <1>5 DEF NetConnected, Post
  <2> QED
    BY <2>1
<1>6. CASE NetRetry
  BY <1>6 DEF NetRetry
<1>7. CASE NetLeaves
  BY <1>7 DEF NetLeaves, Leave
<1>8. CASE NetReceives
  BY <1>8 DEF NetReceives, Post
<1>9. CASE NetCloseFrame
  <2>1. wire' = <<>> /\ (q' = q \/ q' = Append(q, "disconnected"))
    BY <1>9 DEF NetCloseFrame, Leave, Post
  <2> QED
    BY <2>1
<1>10. CASE NetCheck
  BY <1>10 DEF NetCheck, Post, MayRetry
<1>11. CASE NetJoins
  BY <1>11 DEF NetJoins
<1>12. CASE NetWhile
  BY <1>12 DEF NetWhile, Fault
<1>13. CASE NetEnds
  BY <1>13 DEF NetEnds
<1>14. CASE NetTail
  BY <1>14 DEF NetTail
<1>15. CASE HbEnds
  BY <1>15 DEF HbEnds
<1>16. CASE HbBeat
  <2>1. CASE gw.ack
    <3>1. WithoutAck(q) \in Seq(QItem) /\ WithoutAck(wire) \in Seq(WItem)
      BY WithoutAckThins
    <3>2. q' = WithoutAck(q) /\ \E t \in {<<"ACK">>, <<>>} : wire' = WithoutAck(wire) \o t
      BY <1>16, <2>1 DEF HbBeat
    <3>3. <<"ACK">> \in Seq(WItem) /\ <<>> \in Seq(WItem)
      OBVIOUS
    <3>4. \A t \in Seq(WItem) : WithoutAck(wire) \o t \in Seq(WItem)
      BY <3>1
    <3>5. wire' \in Seq(WItem)
      BY <3>2, <3>3, <3>4
    <3> QED
      BY <3>1, <3>2, <3>5
  <2>2. CASE ~gw.ack
    BY <1>16, <2>2 DEF HbBeat
  <2> QED
    BY <2>1, <2>2
<1>17. CASE JoinNetwork
  BY <1>17 DEF JoinNetwork
<1>18. CASE JoinHeartbeat
  BY <1>18 DEF JoinHeartbeat, Stopped, Cleaned
<1>19. CASE SpawnHeartbeat
  BY <1>19 DEF SpawnHeartbeat
<1>20. CASE OnDelete
  BY <1>20 DEF OnDelete, Handles
<1>21. CASE OnGatewayConnected
  BY <1>21 DEF OnGatewayConnected, Handles
<1>22. CASE OnGatewayDisconnected
  BY <1>22 DEF OnGatewayDisconnected, Handles, Cleaned
<1>23. CASE OnHello
  <2>1. q' = Tail(q) /\ q # <<>>
    BY <1>23 DEF OnHello, Handles
  <2>2. wire' = wire \/ \E f \in WItem : wire' = Append(wire, f)
    BY <1>23 DEF OnHello, SrvResume, SrvIdentify, Lost, Closes, Frames
  <2> QED
    BY <2>1, <2>2
<1>24. CASE OnReady
  BY <1>24 DEF OnReady, Handles, Discovering, Cleaned, Stopped, Established, Fault
<1>25. CASE OnResumed
  BY <1>25 DEF OnResumed, Handles, Discovering, Cleaned, Established, Incomplete
<1>26. CASE OnSessionDescription
  BY <1>26 DEF OnSessionDescription, Handles
<1>27. CASE OnAck
  BY <1>27 DEF OnAck, Handles
<1>28. CASE OnIpDiscovered
  BY <1>28 DEF OnIpDiscovered, SrvSelect, Lost, Closes, Frames
<1>29. CASE OnIpDiscoveryFailed
  BY <1>29 DEF OnIpDiscoveryFailed, StopFrom, Cleaned, Stopped, Fault
<1>30. CASE SrvCloses
  <2>1. q' = q /\ \E f \in {"other", "fatal", "invalid"} : wire' = Append(wire, f)
    BY <1>30, Zenon DEF SrvCloses, Closes, Frames
  <2> QED
    BY <2>1
<1>31. CASE SrvFallsSilent
  BY <1>31 DEF SrvFallsSilent, Fault
<1>32. CASE SrvForgets
  BY <1>32 DEF SrvForgets, Fault
<1>33. CASE NetCut
  BY <1>33 DEF NetCut, Fault, Leave
<1>34. CASE NetConnectFails
  BY <1>34 DEF NetConnectFails, MayRetry, Post
<1>35. CASE Over
  BY <1>35 DEF Over, vars
<1>36. CASE UNCHANGED vars
  BY <1>36 DEF vars, srvVars
<1> QED
  BY <1>1, <1>2, <1>3, <1>4, <1>5, <1>6, <1>7, <1>8, <1>9, <1>10, <1>11, <1>12, <1>13, <1>14, <1>15, <1>16, <1>17, <1>18, <1>19, <1>20, <1>21, <1>22, <1>23, <1>24, <1>25, <1>26, <1>27, <1>28, <1>29, <1>30, <1>31, <1>32, <1>33, <1>34, <1>35, <1>36
     DEF Next, NetStep, HbStep, VoiceStep, VoiceEvent, Environment


Joining == vpc \in {"joinNet", "joinHb"}
Loop == vpc \in {"loop", "spawn"}

Unused ==
  vc.gateway = "none" =>
    /\ npc = "none" /\ hb = "none" /\ q = <<>> /\ vpc \in {"loop", "destroyed"}
    /\ ~gw.running /\ ~gw.canResume /\ ~vc.encryption /\ vc.udp = "none"

Wired ==
  /\ srv # "none" => npc = "recv"
  /\ npc # "recv" => wire = <<>>
  /\ vc.gateway = "live" /\ Loop /\ npc \notin {"tail", "done"} => gw.running
  /\ vc.gateway = "live" => npc # "none" /\ vpc \notin {"crashed", "destroyed"}

Stopping ==
  /\ Joining => vc.gateway \in {"live", "gone"} /\ ~gw.running
  /\ vpc = "joinHb" => npc = "done"
  /\ vc.gateway = "orphan" => npc = "done" /\ vpc \in {"loop", "spawn", "crashed"} /\ ~gw.running
  /\ vc.gateway = "gone" =>
       /\ ~gw.running
       /\ Joining \/ (npc = "done" /\ hb = "none" /\ vpc \in {"loop", "crashed", "destroyed"})
       /\ Joining \/ vpc = "destroyed" \/ q = <<>>

\* The deletion of the gateway is the last event of its queue, once stop() has posted it.
DeleteLast ==
  /\ vc.gateway # "orphan" => \A i \in 1..Len(q) : q[i] # "delete"
  /\ vc.gateway = "orphan" => q # <<>> /\ q[Len(q)] = "delete" /\ \A i \in 1..Len(q) - 1 : q[i] # "delete"

Owned == Unused /\ Wired /\ Stopping /\ DeleteLast

\* The tail of a sequence, index by index.
LEMMA TailIs ==
  ASSUME NEW S, NEW s \in Seq(S), s # <<>>
  PROVE  /\ Tail(s) \in Seq(S) /\ Len(Tail(s)) = Len(s) - 1 /\ Len(s) \in Nat /\ 1 \in 1..Len(s) /\ Head(s) = s[1]
         /\ \A i \in 1..Len(s) - 1 : i + 1 \in 1..Len(s) /\ Tail(s)[i] = s[i + 1]
OBVIOUS

\* A sequence with an item at its end, index by index.
LEMMA AppendIs ==
  ASSUME NEW S, NEW s \in Seq(S), NEW e \in S
  PROVE  /\ Append(s, e) \in Seq(S) /\ Len(Append(s, e)) = Len(s) + 1 /\ Len(s) \in Nat /\ Append(s, e)[Len(s) + 1] = e
         /\ \A i \in 1..Len(s) : i \in 1..Len(s) + 1 /\ Append(s, e)[i] = s[i]
OBVIOUS

\* What OnReady does, field by field.
LEMMA ReadyIs ==
  ASSUME gw \in Gw, vc \in Vc, Control, OnReady
  PROVE  /\ Handles("READY") /\ vpc = "loop" /\ late' = (late \/ Orphaned)
         /\ npc' = npc /\ hb' = hb /\ srv' = srv /\ wire' = wire /\ resumable' = resumable /\ keyed' = keyed
         /\ vc'.gateway = vc.gateway /\ vc'.asked = vc.asked
         /\ gw'.isResuming = gw.isResuming /\ gw'.canResume /\ gw'.ack = gw.ack
         /\ \/ /\ vpc' = vpc /\ faults' = faults /\ gw'.running = gw.running /\ gw'.shouldReconnect = gw.shouldReconnect
               /\ vc'.state = "DiscoveringIP" /\ vc'.udp = "asking" /\ ~vc'.encryption
            \/ /\ vpc' = "joinNet" /\ faults' = faults + 1 /\ vc.gateway = "live" /\ ~gw'.running /\ ~gw'.shouldReconnect
               /\ vc'.state \in {vc.state, "DiscoveringIP"}
            \/ /\ vpc' = vpc /\ faults' = faults + 1 /\ gw'.running = gw.running /\ gw'.shouldReconnect = gw.shouldReconnect
               /\ vc'.state = "Disconnected" /\ vc'.udp = "none" /\ ~vc'.encryption /\ (vc.gateway = "live" => vc.state = "Disconnected")
<1> DEFINE c == [vc EXCEPT !.ssrc = TRUE]
<1>1. Established.isResuming = gw.isResuming /\ Established.canResume /\ Established.ack = gw.ack
      /\ Established.running = gw.running /\ Established.shouldReconnect = gw.shouldReconnect /\ Established \in Gw
  BY GwParts DEF Gw, Established
<1>2. c \in Vc /\ c.gateway = vc.gateway /\ c.asked = vc.asked /\ c.state = vc.state
  BY DEF Vc
<1> DEFINE e == [Established EXCEPT !.shouldReconnect = FALSE, !.running = FALSE]
<1>3. e.isResuming = gw.isResuming /\ e.canResume /\ e.ack = gw.ack /\ ~e.running /\ ~e.shouldReconnect
  BY <1>1 DEF Gw
<1>10. \A d \in Vc : /\ Cleaned(d).state = d.state /\ Cleaned(d).udp = "none" /\ ~Cleaned(d).encryption
                      /\ Cleaned(d).gateway = d.gateway /\ Cleaned(d).asked = d.asked
  BY DEF Cleaned, Vc
<1>11. \A d \in Vc : /\ Stopped(d).state = "Disconnected" /\ Stopped(d).udp = "none" /\ ~Stopped(d).encryption
                      /\ Stopped(d).gateway = d.gateway /\ Stopped(d).asked = d.asked
  BY DEF Cleaned, Stopped, Vc
<1>12. \A d \in Vc : /\ Discovering(d) \in Vc /\ Discovering(d).state = "DiscoveringIP" /\ Discovering(d).udp = "asking"
                      /\ ~Discovering(d).encryption /\ Discovering(d).gateway = d.gateway /\ Discovering(d).asked = d.asked
  <2>1. \A d \in Vc : Discovering(d) \in Vc
    BY VcParts
  <2> QED
    BY <2>1 DEF Cleaned, Discovering, Vc
<1>5. /\ Handles("READY") /\ vpc = "loop" /\ late' = (late \/ Orphaned)
      /\ npc' = npc /\ hb' = hb /\ srv' = srv /\ wire' = wire /\ resumable' = resumable /\ keyed' = keyed
  BY Zenon DEF OnReady, Handles, srvVars
<1>6. \/ vc' = Discovering(c) /\ gw' = Established /\ vpc' = vpc /\ faults' = faults
      \/ \E d \in {c, Discovering(c)} : faults' = faults + 1 /\ d.state # "Disconnected" /\ d.gateway = "live" /\ gw' = e /\ vpc' = "joinNet" /\ vc' = d
      \/ \E d \in {c, Discovering(c)} : faults' = faults + 1 /\ ~(d.state # "Disconnected" /\ d.gateway = "live") /\ gw' = Established /\ vpc' = vpc
           /\ vc' = IF d.state = "Disconnected" THEN Cleaned(d) ELSE Stopped(d)
  BY DEF OnReady, Fault
<1> HIDE DEF c, e
<1>7. CASE vc' = Discovering(c) /\ gw' = Established /\ vpc' = vpc /\ faults' = faults
  BY <1>1, <1>2, <1>12, <1>5, <1>7
<1>8. ASSUME NEW d \in {c, Discovering(c)}, faults' = faults + 1, d.state # "Disconnected", d.gateway = "live", gw' = e, vpc' = "joinNet", vc' = d
      PROVE  /\ vpc' = "joinNet" /\ faults' = faults + 1 /\ vc.gateway = "live" /\ ~gw'.running /\ ~gw'.shouldReconnect
             /\ vc'.state \in {vc.state, "DiscoveringIP"}
             /\ vc'.gateway = vc.gateway /\ vc'.asked = vc.asked
             /\ gw'.isResuming = gw.isResuming /\ gw'.canResume /\ gw'.ack = gw.ack
  BY <1>2, <1>3, <1>12, <1>8
<1>9. ASSUME NEW d \in {c, Discovering(c)}, faults' = faults + 1, ~(d.state # "Disconnected" /\ d.gateway = "live"), gw' = Established, vpc' = vpc,
             vc' = IF d.state = "Disconnected" THEN Cleaned(d) ELSE Stopped(d)
      PROVE  /\ vpc' = vpc /\ faults' = faults + 1 /\ gw'.running = gw.running /\ gw'.shouldReconnect = gw.shouldReconnect
             /\ vc'.state = "Disconnected" /\ vc'.udp = "none" /\ ~vc'.encryption /\ (vc.gateway = "live" => vc.state = "Disconnected")
             /\ vc'.gateway = vc.gateway /\ vc'.asked = vc.asked
             /\ gw'.isResuming = gw.isResuming /\ gw'.canResume /\ gw'.ack = gw.ack
  <2>1. d \in Vc /\ d.gateway = vc.gateway /\ d.asked = vc.asked /\ d.state \in {vc.state, "DiscoveringIP"}
    BY <1>2, <1>12
  <2>2. vc'.state = "Disconnected" /\ vc'.udp = "none" /\ ~vc'.encryption /\ vc'.gateway = vc.gateway /\ vc'.asked = vc.asked
    BY <1>10, <1>11, <1>9, <2>1
  <2>3. vc.gateway = "live" => vc.state = "Disconnected"
    BY <1>9, <2>1
  <2> QED
    BY <1>1, <1>9, <2>2, <2>3
<1> QED
  BY <1>5, <1>6, <1>7, <1>8, <1>9

\* A client that never started has no thread and no event.
LEMMA UnusedStep == ASSUME gw \in Gw, vc \in Vc, Control, Queues, Owned, [Next]_vars PROVE Unused'
<1> USE DEF Gw, Vc, Control, Queues, Owned, Unused, Wired, Stopping, DeleteLast, Joining, Loop, States, srvVars
<1>1. CASE Start
  BY <1>1 DEF Start
<1>2. CASE Stop
  BY <1>2, ZenonT(60) DEF Stop, StopFrom, Cleaned, Stopped
<1>3. CASE Destroy
  BY <1>3 DEF Destroy
<1>4. CASE NetTop
  BY <1>4 DEF NetTop
<1>5. CASE NetConnected
  BY <1>5 DEF NetConnected, Post
<1>6. CASE NetRetry
  BY <1>6 DEF NetRetry
<1>7. CASE NetLeaves
  BY <1>7 DEF NetLeaves, Leave
<1>8. CASE NetReceives
  BY <1>8 DEF NetReceives, Post
<1>9. CASE NetCloseFrame
  BY <1>9 DEF NetCloseFrame, Leave, Post, Recoverable, CloseCode
<1>10. CASE NetCheck
  BY <1>10 DEF NetCheck, Post, MayRetry
<1>11. CASE NetJoins
  BY <1>11 DEF NetJoins
<1>12. CASE NetWhile
  BY <1>12 DEF NetWhile, Fault
<1>13. CASE NetEnds
  BY <1>13 DEF NetEnds
<1>14. CASE NetTail
  BY <1>14 DEF NetTail
<1>15. CASE HbEnds
  BY <1>15 DEF HbEnds
<1>16. CASE HbBeat
  BY <1>16 DEF HbBeat, Fault
<1>17. CASE JoinNetwork
  BY <1>17 DEF JoinNetwork
<1>18. CASE JoinHeartbeat
  BY <1>18 DEF JoinHeartbeat, Stopped, Cleaned
<1>19. CASE SpawnHeartbeat
  BY <1>19 DEF SpawnHeartbeat
<1>20. CASE OnDelete
  BY <1>20 DEF OnDelete, Handles
<1>21. CASE OnGatewayConnected
  BY <1>21 DEF OnGatewayConnected, Handles
<1>22. CASE OnGatewayDisconnected
  BY <1>22 DEF OnGatewayDisconnected, Handles, Cleaned
<1>23. CASE OnHello
  BY <1>23 DEF OnHello, Handles, SrvResume, SrvIdentify, Lost, Closes, Frames
<1>24. CASE OnReady
  BY <1>24, ReadyIs DEF Handles
<1>25. CASE OnResumed
  BY <1>25 DEF OnResumed, Handles, Discovering, Cleaned, Established, Incomplete
<1>26. CASE OnSessionDescription
  BY <1>26 DEF OnSessionDescription, Handles
<1>27. CASE OnAck
  BY <1>27 DEF OnAck, Handles
<1>28. CASE OnIpDiscovered
  <2>1. vc'.gateway = vc.gateway /\ (vc.gateway = "live" => vpc' = "loop") /\ vpc = "loop"
    BY <1>28 DEF OnIpDiscovered
  <2>4. (srv' # "none" => srv # "none") /\ (srv = "none" => wire' = wire)
    <3>1. CASE vc.gateway = "live"
      BY <1>28, <3>1 DEF OnIpDiscovered, SrvSelect, Lost, Closes, Frames
    <3>2. CASE vc.gateway # "live"
      BY <1>28, <3>2 DEF OnIpDiscovered
    <3> QED
      BY <3>1, <3>2
  <2>2. gw' = gw /\ npc' = npc /\ hb' = hb /\ q' = q
    BY <1>28 DEF OnIpDiscovered
  <2>3. vc'.encryption = vc.encryption /\ (vc.gateway # "live" => vpc' = "crashed") /\ vc.udp # "none"
    BY <1>28 DEF OnIpDiscovered
  <2> QED
    BY <2>1, <2>2, <2>3, <2>4
<1>29. CASE OnIpDiscoveryFailed
  BY <1>29, ZenonT(60) DEF OnIpDiscoveryFailed, StopFrom, Cleaned, Stopped, Fault
<1>30. CASE SrvCloses
  BY <1>30 DEF SrvCloses, Fault, Closes, Frames
<1>31. CASE SrvFallsSilent
  BY <1>31 DEF SrvFallsSilent, Fault
<1>32. CASE SrvForgets
  BY <1>32 DEF SrvForgets, Fault
<1>33. CASE NetCut
  BY <1>33 DEF NetCut, Fault, Leave
<1>34. CASE NetConnectFails
  BY <1>34 DEF NetConnectFails, MayRetry, Post
<1>35. CASE Over
  BY <1>35 DEF Over, vars
<1>36. CASE UNCHANGED vars
  BY <1>36 DEF vars, srvVars
<1> QED
  BY <1>1, <1>2, <1>3, <1>4, <1>5, <1>6, <1>7, <1>8, <1>9, <1>10, <1>11, <1>12, <1>13, <1>14, <1>15, <1>16, <1>17, <1>18, <1>19, <1>20, <1>21, <1>22, <1>23, <1>24, <1>25, <1>26, <1>27, <1>28, <1>29, <1>30, <1>31, <1>32, <1>33, <1>34, <1>35, <1>36
     DEF Next, NetStep, HbStep, VoiceStep, VoiceEvent, Environment

\* There is no ACK in the empty sequence.
LEMMA NoAckInNothing == WithoutAck(<<>>) = <<>>
BY DEF WithoutAck, RemoveFirst

\* Only a network thread that receives has a connection, and it runs until it is stopped or ends.
LEMMA WiredStep == ASSUME gw \in Gw, vc \in Vc, Control, Queues, Owned, [Next]_vars PROVE Wired'
<1> USE DEF Gw, Vc, Control, Queues, Owned, Unused, Wired, Stopping, DeleteLast, Joining, Loop, States, srvVars
<1>1. CASE Start
  BY <1>1 DEF Start
<1>2. CASE Stop
  BY <1>2 DEF Stop, StopFrom, Cleaned, Stopped
<1>3. CASE Destroy
  BY <1>3 DEF Destroy
<1>4. CASE NetTop
  BY <1>4 DEF NetTop
<1>5. CASE NetConnected
  BY <1>5 DEF NetConnected, Post
<1>6. CASE NetRetry
  BY <1>6 DEF NetRetry
<1>7. CASE NetLeaves
  BY <1>7 DEF NetLeaves, Leave
<1>8. CASE NetReceives
  BY <1>8 DEF NetReceives, Post
<1>9. CASE NetCloseFrame
  BY <1>9 DEF NetCloseFrame, Leave, Post, Recoverable, CloseCode
<1>10. CASE NetCheck
  BY <1>10 DEF NetCheck, Post, MayRetry
<1>11. CASE NetJoins
  BY <1>11 DEF NetJoins
<1>12. CASE NetWhile
  BY <1>12 DEF NetWhile, Fault
<1>13. CASE NetEnds
  BY <1>13 DEF NetEnds
<1>14. CASE NetTail
  BY <1>14 DEF NetTail
<1>15. CASE HbEnds
  BY <1>15 DEF HbEnds
<1>16. CASE HbBeat
  <2>1. vc' = vc /\ npc' = npc /\ srv' = srv /\ vpc' = vpc /\ gw'.running = gw.running
    BY <1>16 DEF HbBeat
  <2>2. npc # "recv" => wire' = <<>>
    BY <1>16, NoAckInNothing DEF HbBeat
  <2> QED
    BY <2>1, <2>2
<1>17. CASE JoinNetwork
  BY <1>17 DEF JoinNetwork
<1>18. CASE JoinHeartbeat
  BY <1>18 DEF JoinHeartbeat, Stopped, Cleaned
<1>19. CASE SpawnHeartbeat
  BY <1>19 DEF SpawnHeartbeat
<1>20. CASE OnDelete
  BY <1>20 DEF OnDelete, Handles
<1>21. CASE OnGatewayConnected
  BY <1>21 DEF OnGatewayConnected, Handles
<1>22. CASE OnGatewayDisconnected
  BY <1>22 DEF OnGatewayDisconnected, Handles, Cleaned
<1>23. CASE OnHello
  BY <1>23 DEF OnHello, Handles, SrvResume, SrvIdentify, Lost, Closes, Frames
<1>24. CASE OnReady
  BY <1>24, ReadyIs DEF Handles
<1>25. CASE OnResumed
  BY <1>25 DEF OnResumed, Handles, Discovering, Cleaned, Established, Incomplete
<1>26. CASE OnSessionDescription
  BY <1>26 DEF OnSessionDescription, Handles
<1>27. CASE OnAck
  BY <1>27 DEF OnAck, Handles
<1>28. CASE OnIpDiscovered
  <2>1. vc'.gateway = vc.gateway /\ (vc.gateway = "live" => vpc' = "loop") /\ vpc = "loop"
    BY <1>28 DEF OnIpDiscovered
  <2>4. (srv' # "none" => srv # "none") /\ (srv = "none" => wire' = wire)
    <3>1. CASE vc.gateway = "live"
      BY <1>28, <3>1 DEF OnIpDiscovered, SrvSelect, Lost, Closes, Frames
    <3>2. CASE vc.gateway # "live"
      BY <1>28, <3>2 DEF OnIpDiscovered
    <3> QED
      BY <3>1, <3>2
  <2>2. gw' = gw /\ npc' = npc /\ hb' = hb /\ q' = q
    BY <1>28 DEF OnIpDiscovered
  <2>3. vc'.encryption = vc.encryption /\ (vc.gateway # "live" => vpc' = "crashed") /\ vc.udp # "none"
    BY <1>28 DEF OnIpDiscovered
  <2> QED
    BY <2>1, <2>2, <2>3, <2>4
<1>29. CASE OnIpDiscoveryFailed
  BY <1>29 DEF OnIpDiscoveryFailed, StopFrom, Cleaned, Stopped, Fault
<1>30. CASE SrvCloses
  BY <1>30 DEF SrvCloses, Fault, Closes, Frames
<1>31. CASE SrvFallsSilent
  BY <1>31 DEF SrvFallsSilent, Fault
<1>32. CASE SrvForgets
  BY <1>32 DEF SrvForgets, Fault
<1>33. CASE NetCut
  BY <1>33 DEF NetCut, Fault, Leave
<1>34. CASE NetConnectFails
  BY <1>34 DEF NetConnectFails, MayRetry, Post
<1>35. CASE Over
  BY <1>35 DEF Over, vars
<1>36. CASE UNCHANGED vars
  BY <1>36 DEF vars, srvVars
<1> QED
  BY <1>1, <1>2, <1>3, <1>4, <1>5, <1>6, <1>7, <1>8, <1>9, <1>10, <1>11, <1>12, <1>13, <1>14, <1>15, <1>16, <1>17, <1>18, <1>19, <1>20, <1>21, <1>22, <1>23, <1>24, <1>25, <1>26, <1>27, <1>28, <1>29, <1>30, <1>31, <1>32, <1>33, <1>34, <1>35, <1>36
     DEF Next, NetStep, HbStep, VoiceStep, VoiceEvent, Environment

\* Who joins has stopped the threads, and a gateway given up has none left but a heartbeat.
LEMMA StoppingStep == ASSUME gw \in Gw, vc \in Vc, Control, Queues, Owned, [Next]_vars PROVE Stopping'
<1> USE DEF Gw, Vc, Control, Queues, Owned, Unused, Wired, Stopping, DeleteLast, Joining, Loop, States, srvVars
<1>1. CASE Start
  BY <1>1 DEF Start
<1>2. CASE Stop
  BY <1>2, ZenonT(60) DEF Stop, StopFrom, Cleaned, Stopped
<1>3. CASE Destroy
  BY <1>3 DEF Destroy
<1>4. CASE NetTop
  BY <1>4 DEF NetTop
<1>5. CASE NetConnected
  BY <1>5 DEF NetConnected, Post
<1>6. CASE NetRetry
  BY <1>6 DEF NetRetry
<1>7. CASE NetLeaves
  BY <1>7 DEF NetLeaves, Leave
<1>8. CASE NetReceives
  BY <1>8 DEF NetReceives, Post
<1>9. CASE NetCloseFrame
  BY <1>9 DEF NetCloseFrame, Leave, Post, Recoverable, CloseCode
<1>10. CASE NetCheck
  BY <1>10 DEF NetCheck, Post, MayRetry
<1>11. CASE NetJoins
  BY <1>11 DEF NetJoins
<1>12. CASE NetWhile
  BY <1>12 DEF NetWhile, Fault
<1>13. CASE NetEnds
  BY <1>13 DEF NetEnds
<1>14. CASE NetTail
  BY <1>14 DEF NetTail
<1>15. CASE HbEnds
  BY <1>15 DEF HbEnds
<1>16. CASE HbBeat
  BY <1>16 DEF HbBeat, Fault
<1>17. CASE JoinNetwork
  BY <1>17 DEF JoinNetwork
<1>18. CASE JoinHeartbeat
  BY <1>18 DEF JoinHeartbeat, Stopped, Cleaned
<1>19. CASE SpawnHeartbeat
  BY <1>19 DEF SpawnHeartbeat
<1>20. CASE OnDelete
  BY <1>20 DEF OnDelete, Handles
<1>21. CASE OnGatewayConnected
  BY <1>21 DEF OnGatewayConnected, Handles
<1>22. CASE OnGatewayDisconnected
  BY <1>22 DEF OnGatewayDisconnected, Handles, Cleaned
<1>23. CASE OnHello
  BY <1>23 DEF OnHello, Handles, SrvResume, SrvIdentify, Lost, Closes, Frames
<1>24. CASE OnReady
  BY <1>24, ReadyIs DEF Handles
<1>25. CASE OnResumed
  BY <1>25 DEF OnResumed, Handles, Discovering, Cleaned, Established, Incomplete
<1>26. CASE OnSessionDescription
  BY <1>26 DEF OnSessionDescription, Handles
<1>27. CASE OnAck
  BY <1>27 DEF OnAck, Handles
<1>28. CASE OnIpDiscovered
  <2>1. vc'.gateway = vc.gateway /\ (vc.gateway = "live" => vpc' = "loop") /\ vpc = "loop"
    BY <1>28 DEF OnIpDiscovered
  <2>4. (srv' # "none" => srv # "none") /\ (srv = "none" => wire' = wire)
    <3>1. CASE vc.gateway = "live"
      BY <1>28, <3>1 DEF OnIpDiscovered, SrvSelect, Lost, Closes, Frames
    <3>2. CASE vc.gateway # "live"
      BY <1>28, <3>2 DEF OnIpDiscovered
    <3> QED
      BY <3>1, <3>2
  <2>2. gw' = gw /\ npc' = npc /\ hb' = hb /\ q' = q
    BY <1>28 DEF OnIpDiscovered
  <2>3. vc'.encryption = vc.encryption /\ (vc.gateway # "live" => vpc' = "crashed") /\ vc.udp # "none"
    BY <1>28 DEF OnIpDiscovered
  <2> QED
    BY <2>1, <2>2, <2>3, <2>4
<1>29. CASE OnIpDiscoveryFailed
  BY <1>29 DEF OnIpDiscoveryFailed, StopFrom, Cleaned, Stopped, Fault
<1>30. CASE SrvCloses
  BY <1>30 DEF SrvCloses, Fault, Closes, Frames
<1>31. CASE SrvFallsSilent
  BY <1>31 DEF SrvFallsSilent, Fault
<1>32. CASE SrvForgets
  BY <1>32 DEF SrvForgets, Fault
<1>33. CASE NetCut
  BY <1>33 DEF NetCut, Fault, Leave
<1>34. CASE NetConnectFails
  BY <1>34 DEF NetConnectFails, MayRetry, Post
<1>35. CASE Over
  BY <1>35 DEF Over, vars
<1>36. CASE UNCHANGED vars
  BY <1>36 DEF vars, srvVars
<1> QED
  BY <1>1, <1>2, <1>3, <1>4, <1>5, <1>6, <1>7, <1>8, <1>9, <1>10, <1>11, <1>12, <1>13, <1>14, <1>15, <1>16, <1>17, <1>18, <1>19, <1>20, <1>21, <1>22, <1>23, <1>24, <1>25, <1>26, <1>27, <1>28, <1>29, <1>30, <1>31, <1>32, <1>33, <1>34, <1>35, <1>36
     DEF Next, NetStep, HbStep, VoiceStep, VoiceEvent, Environment

\* Taking an event leaves the deletion the last one, or is the deletion.
LEMMA DeleteLastTail ==
  ASSUME q \in Seq(QItem), DeleteLast, q # <<>>, q' = Tail(q), vc'.gateway = vc.gateway, Head(q) # "delete"
  PROVE  DeleteLast'
<1>1. /\ Len(q') = Len(q) - 1 /\ Len(q) \in Nat /\ 1 \in 1..Len(q) /\ Head(q) = q[1]
      /\ \A i \in 1..Len(q) - 1 : i + 1 \in 1..Len(q) /\ q'[i] = q[i + 1]
  BY TailIs
<1>2. CASE vc.gateway # "orphan"
  BY <1>1, <1>2 DEF DeleteLast
<1>3. CASE vc.gateway = "orphan"
  <2>1. q[Len(q)] = "delete" /\ \A i \in 1..Len(q) - 1 : q[i] # "delete"
    BY <1>3 DEF DeleteLast
  <2>2. Len(q) # 1
    BY <1>1, <2>1
  <2>3. Len(q') >= 1 /\ q'[Len(q')] = "delete"
    BY <1>1, <2>1, <2>2
  <2>4. \A i \in 1..Len(q') - 1 : q'[i] # "delete"
    BY <1>1, <2>1
  <2>5. q' # <<>>
    BY <2>3
  <2> QED
    BY <1>3, <2>3, <2>4, <2>5 DEF DeleteLast
<1> QED
  BY <1>2, <1>3

\* The deletion that is posted is the last event.
LEMMA DeleteLastPosted ==
  ASSUME q \in Seq(QItem), DeleteLast, NEW e \in QItem, e # "delete", q' = Append(q, e), vc'.gateway = vc.gateway, vc.gateway # "orphan"
  PROVE  DeleteLast'
BY AppendIs DEF DeleteLast

\* The deletion of a gateway is posted once and is the last of its events.
LEMMA DeleteLastStep == ASSUME gw \in Gw, vc \in Vc, Control, Queues, Owned, [Next]_vars PROVE DeleteLast'
<1> USE DEF Gw, Vc, Control, Queues, Owned, Unused, Wired, Stopping, DeleteLast, Joining, Loop, States, srvVars
<1>1. CASE Start
  BY <1>1 DEF Start
<1>2. CASE Stop
  BY <1>2, ZenonT(60) DEF Stop, StopFrom, Cleaned, Stopped
<1>3. CASE Destroy
  BY <1>3 DEF Destroy
<1>4. CASE NetTop
  BY <1>4 DEF NetTop
<1>5. CASE NetConnected
  <2>1. (q' = q \/ q' = Append(q, "connected")) /\ vc' = vc /\ vc.gateway # "orphan"
    BY <1>5 DEF NetConnected, Post
  <2> QED
    BY <2>1, DeleteLastPosted, Items
<1>6. CASE NetRetry
  BY <1>6 DEF NetRetry
<1>7. CASE NetLeaves
  BY <1>7 DEF NetLeaves, Leave
<1>8. CASE NetReceives
  <2>1. q' = Append(q, Head(wire)) /\ vc' = vc /\ Head(wire) \in Payload /\ vc.gateway # "orphan"
    BY <1>8 DEF NetReceives, Post
  <2>2. Head(wire) \in QItem /\ Head(wire) # "delete"
    BY <2>1, Items DEF Payload
  <2> QED
    BY <2>1, <2>2, DeleteLastPosted
<1>9. CASE NetCloseFrame
  BY <1>9 DEF NetCloseFrame, Leave, Post, Recoverable, CloseCode
<1>10. CASE NetCheck
  BY <1>10 DEF NetCheck, Post, MayRetry
<1>11. CASE NetJoins
  BY <1>11 DEF NetJoins
<1>12. CASE NetWhile
  BY <1>12 DEF NetWhile, Fault
<1>13. CASE NetEnds
  BY <1>13 DEF NetEnds
<1>14. CASE NetTail
  BY <1>14 DEF NetTail
<1>15. CASE HbEnds
  BY <1>15 DEF HbEnds
<1>16. CASE HbBeat
  <2>1. vc' = vc /\ gw.running /\ (q' = q \/ q' = WithoutAck(q))
    BY <1>16 DEF HbBeat
  <2>2. CASE q' = WithoutAck(q)
    <3>1. q' \in Seq(QItem) /\ Thins(q, q')
      BY <2>2, WithoutAckThins
    <3>2. PICK f \in [1..Len(q') -> 1..Len(q)] : \A k \in 1..Len(q') : q'[k] = q[f[k]]
      BY <3>1 DEF Thins
    <3>3. vc.gateway # "orphan" /\ vc'.gateway # "orphan"
      BY <2>1
    <3>4. \A i \in 1..Len(q) : q[i] # "delete"
      BY <3>3
    <3>5. \A k \in 1..Len(q') : q'[k] # "delete"
      BY <3>2, <3>4, SMTT(30)
    <3> QED
      BY <3>3, <3>5
  <2> QED
    BY <2>1, <2>2
<1>17. CASE JoinNetwork
  BY <1>17 DEF JoinNetwork
<1>18. CASE JoinHeartbeat
  <2>1. CASE vc.gateway = "gone"
    BY <1>18, <2>1 DEF JoinHeartbeat
  <2>2. CASE vc.gateway # "gone"
    <3>1. q' = Append(q, "delete") /\ vc'.gateway = "orphan" /\ vc.gateway = "live"
      BY <1>18, <2>2 DEF JoinHeartbeat, Stopped, Cleaned
    <3>2. "delete" \in QItem /\ q' \in Seq(QItem)
      BY <3>1, Items
    <3>3. Len(q') = Len(q) + 1 /\ Len(q) \in Nat /\ q'[Len(q) + 1] = "delete" /\ \A i \in 1..Len(q) : q'[i] = q[i]
      BY <3>1, <3>2, AppendIs
    <3>4. q' # <<>> /\ q'[Len(q')] = "delete" /\ \A i \in 1..Len(q') - 1 : q'[i] # "delete"
      BY <3>1, <3>3
    <3> QED
      BY <3>1, <3>4
  <2> QED
    BY <2>1, <2>2
<1>19. CASE SpawnHeartbeat
  BY <1>19 DEF SpawnHeartbeat
<1>20. CASE OnDelete
  <2>1. vc.gateway = "orphan" /\ q # <<>> /\ q[1] = "delete" /\ q' = Tail(q) /\ vc'.gateway = "gone"
    <3>1. q # <<>> /\ q[1] = "delete" /\ q' = Tail(q) /\ vc'.gateway = "gone" /\ 1 \in 1..Len(q)
      BY <1>20, TailIs DEF OnDelete, Handles
    <3> QED
      BY <3>1
  <2>2. Len(q) = 1
    <3>1. Len(q) \in Nat /\ 1 \in 1..Len(q)
      BY <2>1, TailIs
    <3>2. 1 \notin 1..Len(q) - 1
      BY <2>1
    <3>3. \A n \in Nat : 1 \in 1..n /\ 1 \notin 1..n - 1 => n = 1
      OBVIOUS
    <3> QED
      BY <3>1, <3>2, <3>3, Zenon
  <2>3. Len(q') = 0
    BY <2>1, <2>2, TailIs
  <2> QED
    BY <2>1, <2>3
<1>21. CASE OnGatewayConnected
  <2>1. q # <<>> /\ q' = Tail(q) /\ vc'.gateway = vc.gateway /\ Head(q) # "delete"
    BY <1>21 DEF OnGatewayConnected, Handles
  <2> QED
    BY <2>1, DeleteLastTail
<1>22. CASE OnGatewayDisconnected
  <2>1. q # <<>> /\ q' = Tail(q) /\ vc'.gateway = vc.gateway /\ Head(q) # "delete"
    BY <1>22 DEF OnGatewayDisconnected, Handles, Cleaned
  <2> QED
    BY <2>1, DeleteLastTail
<1>23. CASE OnHello
  <2>1. q # <<>> /\ q' = Tail(q) /\ vc'.gateway = vc.gateway /\ Head(q) # "delete"
    BY <1>23 DEF OnHello, Handles
  <2> QED
    BY <2>1, DeleteLastTail
<1>24. CASE OnReady
  <2>1. q # <<>> /\ q' = Tail(q) /\ vc'.gateway = vc.gateway /\ Head(q) # "delete"
    BY <1>24, ReadyIs DEF OnReady, Handles
  <2> QED
    BY <2>1, DeleteLastTail
<1>25. CASE OnResumed
  <2>1. q # <<>> /\ q' = Tail(q) /\ vc'.gateway = vc.gateway /\ Head(q) # "delete"
    BY <1>25 DEF OnResumed, Handles, Discovering, Cleaned, Established, Incomplete
  <2> QED
    BY <2>1, DeleteLastTail
<1>26. CASE OnSessionDescription
  <2>1. q # <<>> /\ q' = Tail(q) /\ vc'.gateway = vc.gateway /\ Head(q) # "delete"
    BY <1>26 DEF OnSessionDescription, Handles
  <2> QED
    BY <2>1, DeleteLastTail
<1>27. CASE OnAck
  <2>1. q # <<>> /\ q' = Tail(q) /\ vc'.gateway = vc.gateway /\ Head(q) # "delete"
    BY <1>27 DEF OnAck, Handles
  <2> QED
    BY <2>1, DeleteLastTail
<1>28. CASE OnIpDiscovered
  BY <1>28 DEF OnIpDiscovered, SrvSelect, Lost, Closes, Frames
<1>29. CASE OnIpDiscoveryFailed
  BY <1>29, ZenonT(60) DEF OnIpDiscoveryFailed, StopFrom, Cleaned, Stopped, Fault
<1>30. CASE SrvCloses
  BY <1>30 DEF SrvCloses, Fault, Closes, Frames
<1>31. CASE SrvFallsSilent
  BY <1>31 DEF SrvFallsSilent, Fault
<1>32. CASE SrvForgets
  BY <1>32 DEF SrvForgets, Fault
<1>33. CASE NetCut
  BY <1>33 DEF NetCut, Fault, Leave
<1>34. CASE NetConnectFails
  BY <1>34 DEF NetConnectFails, MayRetry, Post
<1>35. CASE Over
  BY <1>35 DEF Over, vars
<1>36. CASE UNCHANGED vars
  BY <1>36 DEF vars, srvVars
<1> QED
  BY <1>1, <1>2, <1>3, <1>4, <1>5, <1>6, <1>7, <1>8, <1>9, <1>10, <1>11, <1>12, <1>13, <1>14, <1>15, <1>16, <1>17, <1>18, <1>19, <1>20, <1>21, <1>22, <1>23, <1>24, <1>25, <1>26, <1>27, <1>28, <1>29, <1>30, <1>31, <1>32, <1>33, <1>34, <1>35, <1>36
     DEF Next, NetStep, HbStep, VoiceStep, VoiceEvent, Environment

\* The path is a sequence of items that begins with the queue.
LEMMA PathIs ==
  ASSUME Queues
  PROVE  /\ q \in Seq(Item) /\ wire \in Seq(Item) /\ Path \in Seq(Item) /\ Len(Path) \in Nat
         /\ Len(q) <= Len(Path) /\ \A i \in 1..Len(q) : Path[i] = q[i]
         /\ q = <<>> => Path = wire
         /\ wire = <<>> => Path = q
<1>1. q \in Seq(Item) /\ wire \in Seq(Item)
  BY Items DEF Queues
<1> QED
  BY <1>1 DEF Path

\* A handler takes the first item of the path, and may have it answered at its end.
LEMMA PathTaken ==
  ASSUME Queues, q # <<>>, q' = Tail(q)
  PROVE  /\ Path # <<>> /\ Head(q) = Path[1] /\ Head(q) = Head(Path)
         /\ wire' = wire => Path' = Tail(Path)
         /\ \A f \in WItem : wire' = Append(wire, f) => Path' = Append(Tail(Path), f)
<1>1. q \in Seq(Item) /\ wire \in Seq(Item)
  BY PathIs
<1>2. Tail(q) \o wire = Tail(q \o wire) /\ q \o wire # <<>> /\ Head(q \o wire) = Head(q) /\ Head(q) = (q \o wire)[1]
  BY <1>1
<1>3. \A f \in WItem : Tail(q) \o Append(wire, f) = Append(Tail(q) \o wire, f)
  BY <1>1, Items
<1> QED
  BY <1>2, <1>3 DEF Path

\* What the server sends is at the end of the path.
LEMMA PathSent ==
  ASSUME Queues, q' = q, NEW f \in WItem, wire' = Append(wire, f)
  PROVE  Path' = Append(Path, f)
<1>1. q \in Seq(Item) /\ wire \in Seq(Item) /\ f \in Item
  BY PathIs, Items
<1> QED
  BY <1>1 DEF Path

\* Receiving moves an item along the path and leaves the path as it is.
LEMMA PathReceived ==
  ASSUME Queues, wire # <<>>, q' = Append(q, Head(wire)), wire' = Tail(wire)
  PROVE  Path' = Path
<1>1. q \in Seq(Item) /\ wire \in Seq(Item)
  BY PathIs
<1>2. Append(q, Head(wire)) \o Tail(wire) = q \o wire
  BY <1>1
<1> QED
  BY <1>2 DEF Path

\* Of a connection that is left only what was received remains.
LEMMA PathLeft ==
  ASSUME Queues, q' = q, wire' = <<>>
  PROVE  Path' = q
<1>1. q \in Seq(Item)
  BY PathIs
<1> QED
  BY <1>1 DEF Path

\* A beat thins the path, and may have an ACK sent.
LEMMA PathBeaten ==
  ASSUME Queues, q' = WithoutAck(q), NEW t \in {<<"ACK">>, <<>>}, wire' = WithoutAck(wire) \o t
  PROVE  \E r \in Seq(Item) : Thins(Path, r) /\ Path' = r \o t
<1>1. q \in Seq(Item) /\ wire \in Seq(Item)
  BY PathIs
<1> DEFINE a == WithoutAck(q)
           b == WithoutAck(wire)
<1>2. a \in Seq(Item) /\ b \in Seq(Item) /\ Thins(q, a) /\ Thins(wire, b)
  BY <1>1, WithoutAckThins
<1>3. t \in Seq(Item)
  <2>1. "ACK" \in Item
    BY DEF Item, Payload
  <2>2. <<"ACK">> \in Seq(Item) /\ <<>> \in Seq(Item)
    BY <2>1
  <2> QED
    BY <2>2
<1>4. Path' = a \o (b \o t)
  BY DEF Path
<1> HIDE DEF a, b
<1>5. Thins(q \o wire, a \o b)
  BY <1>1, <1>2, ThinsJoined
<1>6. a \o (b \o t) = (a \o b) \o t /\ a \o b \in Seq(Item)
  BY <1>2, <1>3
<1> QED
  BY <1>4, <1>5, <1>6 DEF Path

\* A thinner sequence has the same items but for ACKs.
LEMMA ThinsItems ==
  ASSUME NEW s \in Seq(Item), NEW r \in Seq(Item), Thins(s, r)
  PROVE  /\ \A k \in 1..Len(r) : \E i \in 1..Len(s) : r[k] = s[i]
         /\ \A i \in 1..Len(s) : s[i] # "ACK" => \E k \in 1..Len(r) : r[k] = s[i]
<1>1. PICK d \in [1..Len(r) -> 1..Len(s)] :
        /\ \A k \in 1..Len(r) : r[k] = s[d[k]]
        /\ \A i \in 1..Len(s) : s[i] # "ACK" => \E k \in 1..Len(r) : d[k] = i
  BY DEF Thins
<1>2. ASSUME NEW i \in 1..Len(s), s[i] # "ACK" PROVE \E k \in 1..Len(r) : r[k] = s[i]
  <2>1. PICK k \in 1..Len(r) : d[k] = i
    BY <1>1, <1>2
  <2> QED
    BY <1>1, <2>1
<1> QED
  BY <1>1, <1>2

\* e is on its way to the voice thread.
Coming(e) == \E i \in 1..Len(Path) : Path[i] = e

\* What is under way while nothing moves,
LEMMA ComingSame ==
  ASSUME q' = q, wire' = wire
  PROVE  Path' = Path /\ \A e : Coming(e)' <=> Coming(e)
<1>1. Path' = Path
  BY DEF Path
<1> QED
  BY <1>1 DEF Coming

\* ... when a frame is received,
LEMMA ComingReceived ==
  ASSUME Queues, wire # <<>>, q' = Append(q, Head(wire)), wire' = Tail(wire)
  PROVE  Path' = Path /\ \A e : Coming(e)' <=> Coming(e)
<1>1. Path' = Path
  BY PathReceived
<1> QED
  BY <1>1 DEF Coming

\* ... when an event is handled,
LEMMA ComingTaken ==
  ASSUME Queues, q # <<>>, q' = Tail(q), wire' = wire
  PROVE  \A e : (Coming(e)' => Coming(e)) /\ (Coming(e) => e = Head(q) \/ Coming(e)')
<1>1. Path \in Seq(Item) /\ Path # <<>> /\ Head(q) = Path[1] /\ Path' = Tail(Path)
  BY PathIs, PathTaken
<1>2. /\ Len(Path') = Len(Path) - 1 /\ Len(Path) \in Nat
      /\ \A i \in 1..Len(Path) - 1 : i + 1 \in 1..Len(Path) /\ Path'[i] = Path[i + 1]
  BY <1>1, TailIs
<1>3. \A i \in 1..Len(Path) : i = 1 \/ (i - 1 \in 1..Len(Path) - 1 /\ Path'[i - 1] = Path[i])
  BY <1>2
<1>4. \A i \in 1..Len(Path') : i + 1 \in 1..Len(Path) /\ Path'[i] = Path[i + 1]
  BY <1>2
<1>5. \A i \in 1..Len(Path) : i = 1 \/ (i - 1 \in 1..Len(Path') /\ Path'[i - 1] = Path[i])
  BY <1>2, <1>3
<1>6. \A e : Coming(e)' => Coming(e)
  BY <1>4 DEF Coming
<1>7. \A e : Coming(e) => e = Head(q) \/ Coming(e)'
  BY <1>1, <1>5 DEF Coming
<1> QED
  BY <1>6, <1>7

\* ... when the server sends,
LEMMA ComingSent ==
  ASSUME Queues, q' = q, NEW f \in WItem, wire' = Append(wire, f)
  PROVE  \A e : Coming(e)' <=> Coming(e) \/ e = f
<1>1. Path \in Seq(Item) /\ f \in Item /\ Path' = Append(Path, f)
  BY PathIs, PathSent, Items
<1>2. /\ Len(Path') = Len(Path) + 1 /\ Len(Path) \in Nat /\ Path'[Len(Path) + 1] = f
      /\ \A i \in 1..Len(Path) : i \in 1..Len(Path) + 1 /\ Path'[i] = Path[i]
  BY <1>1, AppendIs
<1>3. Len(Path) + 1 \in 1..Len(Path) + 1 /\ \A i \in 1..Len(Path) + 1 : i = Len(Path) + 1 \/ i \in 1..Len(Path)
  BY <1>2
<1> QED
  BY <1>2, <1>3 DEF Coming

\* ... when an event is handled and answered,
LEMMA ComingAnswered ==
  ASSUME Queues, q # <<>>, q' = Tail(q), NEW f \in WItem, wire' = Append(wire, f)
  PROVE  \A e : (Coming(e)' => Coming(e) \/ e = f) /\ (Coming(e) => e = Head(q) \/ Coming(e)') /\ Coming(f)'
<1>1. Path \in Seq(Item) /\ f \in Item /\ Path # <<>> /\ Head(q) = Path[1] /\ Path' = Append(Tail(Path), f)
  BY PathIs, PathTaken, Items
<1> DEFINE p == Tail(Path)
<1>2. /\ p \in Seq(Item) /\ Len(p) = Len(Path) - 1 /\ Len(Path) \in Nat
      /\ \A i \in 1..Len(Path) - 1 : i + 1 \in 1..Len(Path) /\ p[i] = Path[i + 1]
  BY <1>1, TailIs
<1> HIDE DEF p
<1>4. /\ Len(Path') = Len(p) + 1 /\ Path'[Len(p) + 1] = f
      /\ \A i \in 1..Len(p) : i \in 1..Len(p) + 1 /\ Path'[i] = p[i]
  BY <1>1, <1>2, AppendIs DEF p
<1>3. \A i \in 1..Len(Path) : i = 1 \/ (i - 1 \in 1..Len(p) /\ i - 1 \in 1..Len(Path') /\ Path'[i - 1] = Path[i])
  BY <1>2, <1>4
<1>5. Len(p) + 1 \in 1..Len(Path') /\ \A i \in 1..Len(Path') : i = Len(p) + 1 \/ (i \in 1..Len(p) /\ i + 1 \in 1..Len(Path) /\ Path'[i] = Path[i + 1])
  BY <1>2, <1>4
<1>6. \A e : Coming(e)' => Coming(e) \/ e = f
  BY <1>4, <1>5 DEF Coming
<1>7. \A e : Coming(e) => e = Head(q) \/ Coming(e)'
  BY <1>1, <1>3 DEF Coming
<1>8. Coming(f)'
  BY <1>4, <1>5 DEF Coming
<1> QED
  BY <1>6, <1>7, <1>8

\* ... and when the heart beats.
LEMMA ComingBeaten ==
  ASSUME Queues, q' = WithoutAck(q), NEW t \in {<<"ACK">>, <<>>}, wire' = WithoutAck(wire) \o t
  PROVE  /\ \A e : (Coming(e)' => Coming(e) \/ e = "ACK") /\ (e # "ACK" /\ Coming(e) => Coming(e)')
         /\ t = <<"ACK">> => Coming("ACK")'
<1>1. PICK r \in Seq(Item) : Thins(Path, r) /\ Path' = r \o t
  BY PathBeaten
<1>2. Path \in Seq(Item)
  BY PathIs
<1>3. /\ \A k \in 1..Len(r) : \E i \in 1..Len(Path) : r[k] = Path[i]
      /\ \A i \in 1..Len(Path) : Path[i] # "ACK" => \E k \in 1..Len(r) : r[k] = Path[i]
  BY <1>1, <1>2, ThinsItems
<1>4. CASE t = <<>>
  <2>1. r \o <<>> = r
    OBVIOUS
  <2>2. Path' = r
    BY <1>1, <1>4, <2>1
  <2> QED
    BY <1>3, <1>4, <2>2 DEF Coming
<1>5. CASE t = <<"ACK">>
  <2>1. /\ Len(r \o <<"ACK">>) = Len(r) + 1 /\ Len(r) \in Nat /\ (r \o <<"ACK">>)[Len(r) + 1] = "ACK"
        /\ \A i \in 1..Len(r) : (r \o <<"ACK">>)[i] = r[i]
    OBVIOUS
  <2>2. /\ Len(Path') = Len(r) + 1 /\ Len(r) \in Nat /\ Path'[Len(r) + 1] = "ACK"
        /\ \A i \in 1..Len(r) : Path'[i] = r[i]
    BY <1>1, <1>5, <2>1
  <2>3. Len(r) + 1 \in 1..Len(Path') /\ \A i \in 1..Len(Path') : i = Len(r) + 1 \/ i \in 1..Len(r)
    BY <2>2
  <2>4. \A i \in 1..Len(r) : i \in 1..Len(Path')
    BY <2>2
  <2>5. Coming("ACK")'
    BY <2>2, <2>3 DEF Coming
  <2>6. \A e : Coming(e)' => Coming(e) \/ e = "ACK"
    BY <1>3, <2>2, <2>3 DEF Coming
  <2>7. \A e : e # "ACK" /\ Coming(e) => Coming(e)'
    BY <1>3, <2>2, <2>4 DEF Coming
  <2> QED
    BY <2>5, <2>6, <2>7
<1> QED
  BY <1>4, <1>5

\* What the actions with several outcomes do, field by field.
LEMMA HelloIs ==
  ASSUME gw \in Gw, OnHello
  PROVE  /\ Handles("HELLO") /\ vpc = "loop" /\ vpc' = "spawn" /\ late' = (late \/ Orphaned)
         /\ npc' = npc /\ hb' = hb /\ vc' = vc /\ faults' = faults
         /\ gw'.ack /\ ~gw'.isResuming /\ gw'.canResume = gw.canResume /\ gw'.running = gw.running
         /\ gw'.shouldReconnect = gw.shouldReconnect
         /\ \/ /\ gw.isResuming /\ gw.canResume /\ srv = "open" /\ srv' = "session" /\ wire' = Append(wire, "RESUMED")
               /\ keyed' = keyed
            \/ /\ ~(gw.isResuming /\ gw.canResume) /\ srv = "open" /\ srv' = "session" /\ wire' = Append(wire, "READY")
            \/ /\ srv = "open" /\ srv' = "closed" /\ wire' = Append(wire, "invalid") /\ keyed' = keyed /\ gw.isResuming
            \/ /\ srv = "session" /\ srv' = "closed" /\ wire' = Append(wire, "other") /\ keyed' = keyed
            \/ /\ srv \notin {"open", "session"} /\ srv' = srv /\ wire' = wire /\ keyed' = keyed
<1>1. /\ Handles("HELLO") /\ vpc = "loop" /\ vpc' = "spawn" /\ late' = (late \/ Orphaned)
      /\ npc' = npc /\ hb' = hb /\ vc' = vc /\ faults' = faults
  BY Zenon DEF OnHello, Handles
<1>2. /\ gw'.ack /\ ~gw'.isResuming /\ gw'.canResume = gw.canResume /\ gw'.running = gw.running
      /\ gw'.shouldReconnect = gw.shouldReconnect
  BY DEF OnHello, Gw
<1>3. \/ /\ gw.isResuming /\ gw.canResume /\ srv = "open" /\ srv' = "session" /\ wire' = Append(wire, "RESUMED")
         /\ keyed' = keyed
      \/ /\ ~(gw.isResuming /\ gw.canResume) /\ srv = "open" /\ srv' = "session" /\ wire' = Append(wire, "READY")
      \/ /\ srv = "open" /\ srv' = "closed" /\ wire' = Append(wire, "invalid") /\ keyed' = keyed /\ gw.isResuming
      \/ /\ srv = "session" /\ srv' = "closed" /\ wire' = Append(wire, "other") /\ keyed' = keyed
      \/ /\ srv \notin {"open", "session"} /\ srv' = srv /\ wire' = wire /\ keyed' = keyed
  <2>1. CASE gw.isResuming /\ gw.canResume
    <3>1. SrvResume
      BY <2>1 DEF OnHello
    <3> QED
      BY <2>1, <3>1 DEF SrvResume, Closes, Frames, Lost, srvVars
  <2>2. CASE ~(gw.isResuming /\ gw.canResume)
    <3>1. SrvIdentify
      BY <2>2 DEF OnHello
    <3> QED
      BY <2>2, <3>1 DEF SrvIdentify, Closes, Frames, Lost, srvVars
  <2> QED
    BY <2>1, <2>2
<1> QED
  BY <1>1, <1>2, <1>3

\* The same of OnResumed.
LEMMA ResumedIs ==
  ASSUME gw \in Gw, vc \in Vc, OnResumed
  PROVE  /\ Handles("RESUMED") /\ vpc = "loop" /\ vpc' = vpc /\ late' = (late \/ Orphaned)
         /\ npc' = npc /\ hb' = hb /\ srv' = srv /\ wire' = wire /\ keyed' = keyed /\ faults' = faults
         /\ gw'.canResume /\ gw'.running = gw.running /\ gw'.shouldReconnect = gw.shouldReconnect
         /\ gw'.isResuming = gw.isResuming /\ gw'.ack = gw.ack
         /\ vc'.gateway = vc.gateway /\ vc'.asked = vc.asked
         /\ \/ ~vc.ssrc /\ vc' = vc
            \/ vc'.state = "DiscoveringIP" /\ vc'.udp = "asking" /\ ~vc'.encryption
            \/ /\ vc'.state = "Connected" /\ vc'.udp = vc.udp /\ vc.udp # "none" /\ vc'.encryption /\ vc.encryption
<1>1. /\ Handles("RESUMED") /\ vpc = "loop" /\ vpc' = vpc /\ late' = (late \/ Orphaned)
      /\ npc' = npc /\ hb' = hb /\ srv' = srv /\ wire' = wire /\ keyed' = keyed /\ faults' = faults
  BY Zenon DEF OnResumed, Handles, srvVars
<1>2. /\ gw'.canResume /\ gw'.running = gw.running /\ gw'.shouldReconnect = gw.shouldReconnect
      /\ gw'.isResuming = gw.isResuming /\ gw'.ack = gw.ack
  BY DEF OnResumed, Established, Gw
<1>3. /\ Discovering(vc) \in Vc /\ Discovering(vc).state = "DiscoveringIP" /\ Discovering(vc).udp = "asking"
      /\ ~Discovering(vc).encryption /\ Discovering(vc).gateway = vc.gateway /\ Discovering(vc).asked = vc.asked
  BY DEF Discovering, Cleaned, Vc, States
<1>4. vc' = IF ~vc.ssrc THEN vc ELSE IF Incomplete THEN Discovering(vc) ELSE [vc EXCEPT !.state = "Connected"]
  BY DEF OnResumed
<1>5. CASE ~vc.ssrc
  BY <1>1, <1>2, <1>4, <1>5
<1>6. CASE vc.ssrc /\ Incomplete
  BY <1>1, <1>2, <1>3, <1>4, <1>6
<1>7. CASE vc.ssrc /\ ~Incomplete
  <2>1. vc' = [vc EXCEPT !.state = "Connected"] /\ vc.encryption /\ vc.udp # "none"
    BY <1>4, <1>7 DEF Incomplete
  <2>2. vc'.state = "Connected" /\ vc'.udp = vc.udp /\ vc'.encryption = vc.encryption /\ vc'.gateway = vc.gateway /\ vc'.asked = vc.asked
    BY <2>1 DEF Vc
  <2> QED
    BY <1>1, <1>2, <2>1, <2>2
<1> QED
  BY <1>5, <1>6, <1>7 DEF Vc

\* The same of OnIpDiscovered.
LEMMA DiscoveredIs ==
  ASSUME vc \in Vc, OnIpDiscovered
  PROVE  /\ vpc = "loop" /\ vc.udp # "none" /\ gw' = gw /\ npc' = npc /\ hb' = hb /\ q' = q /\ late' = late /\ faults' = faults
         /\ keyed' = keyed /\ vc'.gateway = vc.gateway /\ vc'.encryption = vc.encryption /\ vc'.udp # "none"
         /\ \/ /\ vc.gateway = "live" /\ vpc' = "loop" /\ vc'.state = "WaitingForSession"
               /\ \/ srv = "session" /\ srv' = "session" /\ wire' = Append(wire, "DESCRIPTION")
                  \/ srv = "open" /\ srv' = "closed" /\ wire' = Append(wire, "other")
                  \/ srv \notin {"open", "session"} /\ srv' = srv /\ wire' = wire
            \/ vc.gateway # "live" /\ vpc' = "crashed" /\ vc' = vc /\ srv' = srv /\ wire' = wire
<1>1. vpc = "loop" /\ vc.udp = "asking" /\ gw' = gw /\ npc' = npc /\ hb' = hb /\ q' = q /\ late' = late /\ faults' = faults
  BY DEF OnIpDiscovered
<1>2. CASE vc.gateway = "live"
  <2>1. vc' = [vc EXCEPT !.udp = "bound", !.state = "WaitingForSession"] /\ SrvSelect /\ vpc' = vpc
    BY <1>2 DEF OnIpDiscovered
  <2>2. /\ keyed' = keyed
        /\ \/ srv = "session" /\ srv' = "session" /\ wire' = Append(wire, "DESCRIPTION")
           \/ srv = "open" /\ srv' = "closed" /\ wire' = Append(wire, "other")
           \/ srv \notin {"open", "session"} /\ srv' = srv /\ wire' = wire
    BY <2>1 DEF SrvSelect, Closes, Frames, Lost, srvVars
  <2>3. vc'.udp = "bound" /\ vc'.state = "WaitingForSession" /\ vc'.gateway = vc.gateway /\ vc'.encryption = vc.encryption
    BY <2>1 DEF Vc
  <2> QED
    BY <1>1, <1>2, <2>1, <2>2, <2>3
<1>3. CASE vc.gateway # "live"
  BY <1>1, <1>3 DEF OnIpDiscovered, srvVars
<1> QED
  BY <1>2, <1>3

Types == gw \in Gw /\ vc \in Vc /\ Control /\ Queues

\* No connection was made yet.
Fresh == npc \in {"none", "top", "connecting", "retry"} \/ (npc = "while" /\ gw.shouldReconnect)

Untouched ==
  q = <<>> /\ hb = "none" /\ vpc # "spawn" /\ vc.udp = "none" /\ ~gw.canResume /\ ~gw.isResuming

Up ==
  /\ srv \in {"open", "session"} /\ ~gw.isResuming
  /\ \A i \in 1..Len(wire) : wire[i] \in Payload
  /\ srv = "open" => /\ Path \in {<<"connected", "HELLO">>, <<"HELLO">>}
                     /\ hb = "none" /\ vpc # "spawn" /\ vc.udp = "none" /\ ~gw.canResume
  /\ srv = "session" => ~Coming("HELLO")
  /\ (hb = "wait" \/ vpc = "spawn") /\ ~gw.ack => Coming("ACK")

\* Without a fault a connection is never left but to stop the client.
Calm ==
  faults = 0 =>
    /\ Fresh => Untouched
    /\ npc # "join" /\ (npc \in {"connecting", "recv", "check"} => ~gw.shouldReconnect)
    /\ npc \in {"check", "ending", "tail"} \/ (npc = "while" /\ ~gw.shouldReconnect) => ~gw.running
    /\ npc = "done" /\ gw.running => q \in {<<>>, <<"disconnected">>} /\ hb = "none" /\ vpc # "spawn"
    /\ hb = "wait" => npc = "recv" \/ ~gw.running
    /\ npc = "recv" /\ gw.running => Up

\* A sequence of two, built item by item.
LEMMA Pair ==
  ASSUME NEW S, NEW x \in S, NEW y \in S
  PROVE  Append(<<>>, x) \o <<y>> = <<x, y>>
<1>1. Append(<<>>, x) = <<x>>
  OBVIOUS
<1>2. <<x>> \in Seq(S) /\ <<y>> \in Seq(S)
  OBVIOUS
<1>3. <<x>> \o <<y>> = <<x, y>>
  <2>1. Append(<<x>>, y) = <<x>> \o <<y>>
    BY <1>2, AppendIsConcat
  <2>2. Append(<<x>>, y) = <<x, y>>
    <3> DEFINE s == Append(<<x>>, y)
               t == <<x, y>>
    <3>1. s \in Seq(S) /\ Len(s) = 2 /\ s[1] = x /\ s[2] = y
      <4>1. Len(<<x>>) = 1 /\ <<x>>[1] = x
        OBVIOUS
      <4> QED
        BY <1>2, <4>1, AppendIs
    <3>2. t \in Seq(S) /\ Len(t) = 2 /\ t[1] = x /\ t[2] = y
      OBVIOUS
    <3> HIDE DEF s, t
    <3>3. \A i \in 1..Len(s) : s[i] = t[i]
      BY <3>1, <3>2
    <3>4. s = t
      BY <3>1, <3>2, <3>3, SeqEqual
    <3> QED
      BY <3>4 DEF s, t
  <2> QED
    BY <2>1, <2>2
<1> QED
  BY <1>1, <1>3

\* What is under way on the first connection.
LEMMA ConnectedHello == Append(<<>>, "connected") \o <<"HELLO">> = <<"connected", "HELLO">>
<1>1. "connected" \in Item /\ "HELLO" \in Item
  BY Items
<1> QED
  BY <1>1, Pair

\* No step of an undisturbed call drops a connection that is up.
LEMMA CalmStep ==
  ASSUME Types, Owned, Calm, [Next]_vars
  PROVE  Calm'
<1> USE DEF Types, Gw, Vc, Control, Owned, Wired, Unused, Stopping, DeleteLast, Joining, Loop, Calm, Fresh, Untouched, srvVars
<1>1. CASE Start
  BY <1>1 DEF Start
<1>2. CASE Stop
  BY <1>2, ComingSame, ZenonT(60) DEF Stop, StopFrom, Cleaned, Stopped, Up
<1>3. CASE Destroy
  BY <1>3, ZenonT(60) DEF Destroy
<1>4. CASE NetTop
  BY <1>4 DEF NetTop
<1>5. CASE NetConnected
  <2> SUFFICES ASSUME faults' = 0 PROVE Calm'
    BY DEF Calm
  <2>1. /\ npc = "connecting" /\ npc' = "recv" /\ srv' = "open" /\ wire' = <<"HELLO">> /\ gw' = gw /\ hb' = hb /\ vpc' = vpc
        /\ vc' = vc /\ faults' = faults /\ (gw.running => q' = Append(q, "connected"))
    BY <1>5 DEF NetConnected, Post
  <2>2. q = <<>> /\ Untouched /\ ~gw.shouldReconnect
    BY <2>1
  <2>3. gw.running => Path' = <<"connected", "HELLO">>
    <3> QED
      BY <2>1, <2>2, ConnectedHello DEF Path
  <2>4. \A i \in 1..Len(wire') : wire'[i] \in Payload
    <3>1. \A i \in 1..Len(<<"HELLO">>) : <<"HELLO">>[i] = "HELLO"
      OBVIOUS
    <3> QED
      BY <2>1, <3>1, Items
  <2>5. gw.running => Up'
    BY <2>1, <2>2, <2>3, <2>4 DEF Up
  <2> QED
    BY <2>1, <2>2, <2>5
<1>6. CASE NetRetry
  BY <1>6 DEF NetRetry
<1>7. CASE NetLeaves
  BY <1>7 DEF NetLeaves, Leave
<1>8. CASE NetReceives
  <2> SUFFICES ASSUME faults' = 0 PROVE Calm'
    BY DEF Calm
  <2>1. /\ npc = "recv" /\ npc' = npc /\ gw' = gw /\ hb' = hb /\ vpc' = vpc /\ vc' = vc /\ faults' = faults /\ srv' = srv
        /\ wire # <<>> /\ wire' = Tail(wire) /\ q' = Append(q, Head(wire)) /\ gw.running
    BY <1>8 DEF NetReceives, Post
  <2>2. Up /\ Path' = Path /\ \A e : Coming(e)' <=> Coming(e)
    BY <2>1, ComingReceived
  <2>3. \A i \in 1..Len(wire') : wire'[i] \in Payload
    <3>1. wire \in Seq(WItem) /\ wire # <<>> /\ wire' = Tail(wire)
      BY <2>1 DEF Queues
    <3>2. Len(wire') = Len(wire) - 1 /\ \A i \in 1..Len(wire) - 1 : i + 1 \in 1..Len(wire) /\ wire'[i] = wire[i + 1]
      BY <3>1, TailIs
    <3> QED
      BY <2>2, <3>2 DEF Up
  <2>4. Up'
    BY <2>1, <2>2, <2>3 DEF Up
  <2> QED
    BY <2>1, <2>4
<1>9. CASE NetCloseFrame
  <2> SUFFICES ASSUME faults' = 0 PROVE FALSE
    BY DEF Calm
  <2>1. npc = "recv" /\ gw.running /\ wire # <<>> /\ Head(wire) \in CloseCode /\ faults' = faults
    BY <1>9 DEF NetCloseFrame
  <2>2. Up
    BY <2>1
  <2>3. 1 \in 1..Len(wire) /\ Head(wire) = wire[1]
    BY <2>1, TailIs
  <2> QED
    BY <2>1, <2>2, <2>3 DEF Up, CloseCode, Payload
<1>10. CASE NetCheck
  BY <1>10 DEF NetCheck, Post, MayRetry
<1>11. CASE NetJoins
  BY <1>11 DEF NetJoins
<1>12. CASE NetWhile
  BY <1>12 DEF NetWhile, Fault
<1>13. CASE NetEnds
  BY <1>13 DEF NetEnds
<1>14. CASE NetTail
  BY <1>14 DEF NetTail
<1>15. CASE HbEnds
  BY <1>15 DEF HbEnds
<1>16. CASE HbBeat
  <2> SUFFICES ASSUME faults' = 0 PROVE Calm'
    BY DEF Calm
  <2>1. Idle /\ faults' = faults /\ faults = 0
    BY <1>16, VoiceClientAssumption DEF HbBeat, Fault
  <2>2. hb = "wait" /\ gw.running /\ npc = "recv" /\ Up /\ vpc = "loop" /\ q = <<>> /\ wire = <<>>
    BY <1>16, <2>1 DEF HbBeat, Idle
  <2>3. ~Coming("ACK")
    <3>1. Path = <<>>
      BY <2>2, PathIs
    <3> QED
      BY <3>1 DEF Coming
  <2>4. gw.ack /\ srv = "session"
    BY <2>2, <2>3 DEF Up
  <2>5. /\ gw' = [gw EXCEPT !.ack = FALSE] /\ q' = WithoutAck(q) /\ wire' = WithoutAck(wire) \o <<"ACK">>
        /\ hb' = hb /\ npc' = npc /\ vpc' = vpc /\ vc' = vc /\ srv' = srv
    BY <1>16, <2>4 DEF HbBeat
  <2>6. ~Coming("HELLO")' /\ Coming("ACK")'
    BY <2>2, <2>4, <2>5, ComingBeaten DEF Up
  <2>7. \A i \in 1..Len(wire') : wire'[i] \in Payload
    <3>1. wire' = <<"ACK">>
      <4>1. <<>> \o <<"ACK">> = <<"ACK">>
        OBVIOUS
      <4> QED
        BY <2>2, <2>5, <4>1, NoAckInNothing
    <3>2. \A i \in 1..Len(<<"ACK">>) : <<"ACK">>[i] = "ACK"
      OBVIOUS
    <3> QED
      BY <3>1, <3>2, Items
  <2>8. Up'
    BY <2>2, <2>4, <2>5, <2>6, <2>7 DEF Up
  <2> QED
    BY <2>1, <2>2, <2>5, <2>8
<1>17. CASE JoinNetwork
  BY <1>17 DEF JoinNetwork
<1>18. CASE JoinHeartbeat
  BY <1>18 DEF JoinHeartbeat, Stopped, Cleaned
<1>19. CASE SpawnHeartbeat
  <2> SUFFICES ASSUME faults' = 0 PROVE Calm'
    BY DEF Calm
  <2>1. /\ vpc = "spawn" /\ vpc' = "loop" /\ hb' = (IF hb = "none" THEN "wait" ELSE hb) /\ npc' = npc /\ gw' = gw /\ q' = q
        /\ vc' = vc /\ wire' = wire /\ srv' = srv /\ faults' = faults
    BY <1>19 DEF SpawnHeartbeat
  <2>2. ~Fresh /\ (gw.running => npc = "recv") /\ faults = 0
    BY <2>1
  <2>3. gw.running => Up'
    <3> SUFFICES ASSUME gw.running PROVE Up'
      OBVIOUS
    <3>1. Up /\ srv = "session" /\ npc = "recv"
      BY <2>1, <2>2 DEF Up
    <3> QED
      BY <2>1, <3>1, ComingSame DEF Up
  <2> QED
    BY <2>1, <2>2, <2>3
<1>20. CASE OnDelete
  <2>1. q # <<>> /\ Head(q) = "delete" /\ gw' = gw /\ npc' = npc /\ faults' = faults
    BY <1>20 DEF OnDelete, Handles
  <2>2. vc.gateway = "orphan"
    BY <2>1, TailIs
  <2>3. npc = "done" /\ ~gw.running
    BY <2>2
  <2> QED
    BY <1>20, <2>1, <2>3 DEF OnDelete
<1>21. CASE OnGatewayConnected
  <2> SUFFICES ASSUME faults' = 0 PROVE Calm'
    BY DEF Calm
  <2>1. /\ Handles("connected") /\ npc' = npc /\ hb' = hb /\ srv' = srv /\ wire' = wire /\ faults' = faults /\ vpc' = vpc /\ vc'.udp = vc.udp /\ gw' = gw
    BY <1>21 DEF OnGatewayConnected, Handles
  <2>2. q # <<>> /\ Head(q) = "connected" /\ q' = Tail(q) /\ ~Fresh /\ faults = 0
    BY <2>1 DEF Handles
  <2>3. ~(npc = "done" /\ gw.running)
    BY <2>2
  <2>4. npc = "recv" /\ gw'.running => Up'
    <3> SUFFICES ASSUME npc = "recv", gw'.running PROVE Up'
      OBVIOUS
    <3>1. Up /\ Path[1] = "connected" /\ Path' = Tail(Path)
      BY <2>1, <2>2, PathTaken
    <3>2. srv = "open" => Path' = <<"HELLO">>
      <4>1. Tail(<<"connected", "HELLO">>) = <<"HELLO">> /\ <<"HELLO">>[1] # "connected"
        OBVIOUS
      <4> QED
        BY <3>1, <4>1 DEF Up
    <3>3. (Coming("HELLO")' => Coming("HELLO")) /\ (Coming("ACK") => Coming("ACK")')
      BY <2>1, <2>2, ComingTaken
    <3> QED
      BY <2>1, <3>1, <3>2, <3>3 DEF Up
  <2> QED
    BY <2>1, <2>2, <2>3, <2>4
<1>22. CASE OnGatewayDisconnected
  <2> SUFFICES ASSUME faults' = 0 PROVE Calm'
    BY DEF Calm
  <2>1. /\ Handles("disconnected") /\ npc' = npc /\ hb' = hb /\ srv' = srv /\ wire' = wire /\ faults' = faults /\ gw' = gw /\ vpc' = vpc
    BY <1>22 DEF OnGatewayDisconnected, Handles
  <2>2. q # <<>> /\ Head(q) = "disconnected" /\ q' = Tail(q) /\ ~Fresh /\ faults = 0
    BY <2>1 DEF Handles
  <2>3. npc = "done" /\ gw.running => q' = <<>> /\ hb = "none" /\ vpc # "spawn"
    BY <2>2
  <2>4. npc = "recv" /\ gw'.running => Up'
    <3> SUFFICES ASSUME npc = "recv", gw'.running PROVE Up'
      OBVIOUS
    <3>1. Up /\ Path[1] = "disconnected" /\ gw.running
      BY <2>1, <2>2, PathTaken
    <3>2. srv = "session"
      BY <3>1 DEF Up
    <3>3. ~Coming("HELLO")' /\ (Coming("ACK") => Coming("ACK")')
      BY <2>1, <2>2, <3>1, <3>2, ComingTaken DEF Up
    <3> QED
      BY <2>1, <3>1, <3>2, <3>3 DEF Up
  <2> QED
    BY <2>1, <2>2, <2>3, <2>4
<1>23. CASE OnHello
  <2> SUFFICES ASSUME faults' = 0 PROVE Calm'
    BY DEF Calm
  <2>1. /\ Handles("HELLO") /\ npc' = npc /\ hb' = hb /\ vc' = vc /\ faults' = faults /\ gw'.ack /\ ~gw'.isResuming
        /\ gw'.canResume = gw.canResume /\ gw'.running = gw.running /\ gw'.shouldReconnect = gw.shouldReconnect
    BY <1>23, HelloIs
  <2>2. q # <<>> /\ Head(q) = "HELLO" /\ q' = Tail(q) /\ ~Fresh /\ faults = 0
    BY <2>1 DEF Handles
  <2>3. ~(npc = "done" /\ gw.running)
    BY <2>2
  <2>4. npc = "recv" /\ gw'.running => Up'
    <3> SUFFICES ASSUME npc = "recv", gw'.running PROVE Up'
      OBVIOUS
    <3>1. Up /\ Path # <<>> /\ Path[1] = "HELLO"
      BY <2>1, <2>2, PathTaken
    <3>2. srv = "open"
      <4>1. Coming("HELLO")
        <5>1. Path \in Seq(Item)
          BY PathIs
        <5>2. 1 \in 1..Len(Path)
          BY <3>1, <5>1, TailIs
        <5> QED
          BY <3>1, <5>2 DEF Coming
      <4> QED
        BY <3>1, <4>1 DEF Up
    <3>3. Path = <<"HELLO">> /\ ~gw.canResume /\ ~gw.isResuming
      <4>1. <<"connected", "HELLO">>[1] # "HELLO"
        OBVIOUS
      <4> QED
        BY <3>1, <3>2, <4>1 DEF Up
    <3>4. srv' = "session" /\ wire' = Append(wire, "READY")
      BY <1>23, <3>2, <3>3, HelloIs
    <3>5. Path' = <<"READY">>
      <4>1. "READY" \in WItem
        BY Items
      <4>2. Path' = Append(Tail(Path), "READY")
        BY <2>2, <3>4, <4>1, PathTaken
      <4>3. Append(Tail(<<"HELLO">>), "READY") = <<"READY">>
        OBVIOUS
      <4> QED
        BY <3>3, <4>2, <4>3
    <3>6. ~Coming("HELLO")'
      <4>1. \A i \in 1..Len(<<"READY">>) : <<"READY">>[i] = "READY"
        OBVIOUS
      <4> QED
        BY <3>5, <4>1 DEF Coming
    <3>7. \A i \in 1..Len(wire') : wire'[i] \in Payload
      <4>1. wire \in Seq(WItem) /\ "READY" \in WItem /\ "READY" \in Payload
        BY Items DEF Queues
      <4>2. /\ Len(wire') = Len(wire) + 1 /\ Len(wire) \in Nat /\ wire'[Len(wire) + 1] = "READY"
            /\ \A i \in 1..Len(wire) : wire'[i] = wire[i]
        BY <3>4, <4>1, AppendIs
      <4>3. \A i \in 1..Len(wire') : i \in 1..Len(wire) \/ i = Len(wire) + 1
        BY <4>2
      <4> QED
        BY <3>1, <4>1, <4>2, <4>3 DEF Up
    <3> QED
      BY <2>1, <3>4, <3>6, <3>7 DEF Up
  <2> QED
    BY <2>1, <2>2, <2>3, <2>4
<1>24. CASE OnReady
  <2> SUFFICES ASSUME faults' = 0 PROVE Calm'
    BY DEF Calm
  <2>1. /\ Handles("READY") /\ npc' = npc /\ hb' = hb /\ srv' = srv /\ wire' = wire /\ faults' = faults
        /\ vpc' = vpc /\ gw'.running = gw.running /\ gw'.shouldReconnect = gw.shouldReconnect
        /\ gw'.isResuming = gw.isResuming /\ gw'.ack = gw.ack
    BY <1>24, ReadyIs, VoiceClientAssumption
  <2>2. q # <<>> /\ Head(q) = "READY" /\ q' = Tail(q) /\ ~Fresh /\ faults = 0
    BY <2>1 DEF Handles
  <2>3. npc = "done" /\ gw.running => FALSE
    BY <2>2
  <2>4. npc = "recv" /\ gw'.running => Up'
    <3> SUFFICES ASSUME npc = "recv", gw'.running PROVE Up'
      OBVIOUS
    <3>1. Up /\ Path[1] = "READY" /\ gw.running
      BY <2>1, <2>2, PathTaken
    <3>2. srv = "session"
      BY <3>1 DEF Up
    <3>3. ~Coming("HELLO")' /\ (Coming("ACK") => Coming("ACK")')
      BY <2>1, <2>2, <3>1, <3>2, ComingTaken DEF Up
    <3> QED
      BY <2>1, <3>1, <3>2, <3>3 DEF Up
  <2> QED
    BY <2>1, <2>2, <2>3, <2>4
<1>25. CASE OnResumed
  <2> SUFFICES ASSUME faults' = 0 PROVE Calm'
    BY DEF Calm
  <2>1. /\ Handles("RESUMED") /\ npc' = npc /\ hb' = hb /\ srv' = srv /\ wire' = wire /\ faults' = faults
        /\ vpc' = vpc /\ gw'.running = gw.running /\ gw'.shouldReconnect = gw.shouldReconnect
        /\ gw'.isResuming = gw.isResuming /\ gw'.ack = gw.ack
    BY <1>25, ResumedIs
  <2>2. q # <<>> /\ Head(q) = "RESUMED" /\ q' = Tail(q) /\ ~Fresh /\ faults = 0
    BY <2>1 DEF Handles
  <2>3. npc = "done" /\ gw.running => FALSE
    BY <2>2
  <2>4. npc = "recv" /\ gw'.running => Up'
    <3> SUFFICES ASSUME npc = "recv", gw'.running PROVE Up'
      OBVIOUS
    <3>1. Up /\ Path[1] = "RESUMED" /\ gw.running
      BY <2>1, <2>2, PathTaken
    <3>2. srv = "session"
      BY <3>1 DEF Up
    <3>3. ~Coming("HELLO")' /\ (Coming("ACK") => Coming("ACK")')
      BY <2>1, <2>2, <3>1, <3>2, ComingTaken DEF Up
    <3> QED
      BY <2>1, <3>1, <3>2, <3>3 DEF Up
  <2> QED
    BY <2>1, <2>2, <2>3, <2>4
<1>26. CASE OnSessionDescription
  <2> SUFFICES ASSUME faults' = 0 PROVE Calm'
    BY DEF Calm
  <2>1. /\ Handles("DESCRIPTION") /\ npc' = npc /\ hb' = hb /\ srv' = srv /\ wire' = wire /\ faults' = faults /\ gw' = gw /\ vpc' = vpc
    BY <1>26 DEF OnSessionDescription, Handles
  <2>2. q # <<>> /\ Head(q) = "DESCRIPTION" /\ q' = Tail(q) /\ ~Fresh /\ faults = 0
    BY <2>1 DEF Handles
  <2>3. npc = "done" /\ gw.running => FALSE
    BY <2>2
  <2>4. npc = "recv" /\ gw'.running => Up'
    <3> SUFFICES ASSUME npc = "recv", gw'.running PROVE Up'
      OBVIOUS
    <3>1. Up /\ Path[1] = "DESCRIPTION" /\ gw.running
      BY <2>1, <2>2, PathTaken
    <3>2. srv = "session"
      BY <3>1 DEF Up
    <3>3. ~Coming("HELLO")' /\ (Coming("ACK") => Coming("ACK")')
      BY <2>1, <2>2, <3>1, <3>2, ComingTaken DEF Up
    <3> QED
      BY <2>1, <3>1, <3>2, <3>3 DEF Up
  <2> QED
    BY <2>1, <2>2, <2>3, <2>4
<1>27. CASE OnAck
  <2> SUFFICES ASSUME faults' = 0 PROVE Calm'
    BY DEF Calm
  <2>1. /\ Handles("ACK") /\ npc' = npc /\ hb' = hb /\ srv' = srv /\ wire' = wire /\ faults' = faults /\ vpc' = vpc /\ vc' = vc
        /\ gw'.ack /\ gw'.running = gw.running /\ gw'.shouldReconnect = gw.shouldReconnect
        /\ gw'.isResuming = gw.isResuming /\ gw'.canResume = gw.canResume
    BY <1>27 DEF OnAck, Handles
  <2>2. q # <<>> /\ Head(q) = "ACK" /\ q' = Tail(q) /\ ~Fresh /\ faults = 0
    BY <2>1 DEF Handles
  <2>3. ~(npc = "done" /\ gw.running)
    BY <2>2
  <2>4. npc = "recv" /\ gw'.running => Up'
    <3> SUFFICES ASSUME npc = "recv", gw'.running PROVE Up'
      OBVIOUS
    <3>1. Up /\ Path[1] = "ACK"
      BY <2>1, <2>2, PathTaken
    <3>2. srv = "session"
      BY <3>1 DEF Up
    <3>3. ~Coming("HELLO")'
      BY <2>1, <2>2, <3>1, <3>2, ComingTaken DEF Up
    <3> QED
      BY <2>1, <3>1, <3>2, <3>3 DEF Up
  <2> QED
    BY <2>1, <2>2, <2>3, <2>4
<1>28. CASE OnIpDiscovered
  <2> SUFFICES ASSUME faults' = 0 PROVE Calm'
    BY DEF Calm
  <2>1. /\ vpc = "loop" /\ vpc' # "spawn" /\ vc.udp # "none" /\ gw' = gw /\ npc' = npc /\ hb' = hb /\ q' = q /\ faults' = faults
        /\ \/ srv = "session" /\ srv' = "session" /\ wire' = Append(wire, "DESCRIPTION")
           \/ srv = "open" \/ (srv' = srv /\ wire' = wire)
    BY <1>28, DiscoveredIs
  <2>2. ~Fresh
    BY <2>1
  <2>3. npc = "recv" /\ gw.running => Up'
    <3> SUFFICES ASSUME npc = "recv", gw.running PROVE Up'
      OBVIOUS
    <3>1. Up /\ srv = "session"
      BY <2>1 DEF Up
    <3>2. CASE wire' = wire /\ srv' = srv
      BY <2>1, <3>1, <3>2, ComingSame DEF Up
    <3>3. CASE srv' = "session" /\ wire' = Append(wire, "DESCRIPTION")
      <4>1. wire \in Seq(WItem) /\ "DESCRIPTION" \in WItem /\ "DESCRIPTION" \in Payload
        BY Items DEF Queues
      <4>2. /\ Len(wire') = Len(wire) + 1 /\ Len(wire) \in Nat /\ wire'[Len(wire) + 1] = "DESCRIPTION"
            /\ \A i \in 1..Len(wire) : wire'[i] = wire[i]
        BY <3>3, <4>1, AppendIs
      <4>3. \A i \in 1..Len(wire') : i \in 1..Len(wire) \/ i = Len(wire) + 1
        BY <4>2
      <4>4. \A i \in 1..Len(wire') : wire'[i] \in Payload
        BY <3>1, <4>1, <4>2, <4>3 DEF Up
      <4>5. \A e : Coming(e)' <=> Coming(e) \/ e = "DESCRIPTION"
        BY <2>1, <3>3, <4>1, ComingSent
      <4> QED
        BY <2>1, <3>1, <3>3, <4>4, <4>5 DEF Up
    <3> QED
      BY <2>1, <3>1, <3>2, <3>3
  <2> QED
    BY <2>1, <2>2, <2>3
<1>29. CASE OnIpDiscoveryFailed
  BY <1>29 DEF OnIpDiscoveryFailed, StopFrom, Cleaned, Stopped, Fault
<1>30. CASE SrvCloses
  BY <1>30 DEF SrvCloses, Fault, Closes, Frames
<1>31. CASE SrvFallsSilent
  BY <1>31 DEF SrvFallsSilent, Fault
<1>32. CASE SrvForgets
  BY <1>32 DEF SrvForgets, Fault
<1>33. CASE NetCut
  BY <1>33 DEF NetCut, Fault, Leave
<1>34. CASE NetConnectFails
  BY <1>34 DEF NetConnectFails, MayRetry, Post
<1>35. CASE Over
  BY <1>35 DEF Over, vars
<1>36. CASE UNCHANGED vars
  BY <1>36 DEF vars, Path, Coming, Up
<1> QED
  BY <1>1, <1>2, <1>3, <1>4, <1>5, <1>6, <1>7, <1>8, <1>9, <1>10, <1>11, <1>12, <1>13, <1>14, <1>15, <1>16, <1>17, <1>18, <1>19, <1>20, <1>21, <1>22, <1>23, <1>24, <1>25, <1>26, <1>27, <1>28, <1>29, <1>30, <1>31, <1>32, <1>33, <1>34, <1>35, <1>36
     DEF Next, NetStep, HbStep, VoiceStep, VoiceEvent, Environment

Answer == {"READY", "RESUMED"}

\* The answer to the handshake comes before any description, and only once.
Ordered(s) ==
  /\ \A i \in 1..Len(s) : s[i] \in Answer \cup {"DESCRIPTION", "ACK"}
  /\ \A i, j \in 1..Len(s) : s[i] \in Answer /\ s[j] \in Answer \cup {"DESCRIPTION"} => i <= j

\* The HELLO of an open connection is the last but for ACKs; the client is, or will
\* be when it handles it, in state st.
Awaits(s, st) ==
  \E i \in 1..Len(s) :
    /\ s[i] = "HELLO" /\ \A j \in 1..Len(s) : j > i => s[j] = "ACK"
    /\ \/ i > 1 /\ s[i - 1] = "connected"
       \/ i = 1 /\ st = "Identifying"

\* The end that is on its way clears the key of every description on its way.
Ends(s) ==
  \E i \in 1..Len(s) : s[i] = "disconnected" /\ \A j \in 1..Len(s) : j > i => s[j] # "DESCRIPTION"

\* Handling the next event of a session leaves the rest in order, and no answer behind an answer or a description.
LEMMA OrderedTail ==
  ASSUME NEW s \in Seq(Item), s # <<>>, Ordered(s)
  PROVE  /\ Ordered(Tail(s)) /\ s[1] \in Answer \cup {"DESCRIPTION", "ACK"}
         /\ s[1] # "ACK" => \A i \in 1..Len(Tail(s)) : Tail(s)[i] \notin Answer
<1> DEFINE t == Tail(s)
<1>1. /\ Len(t) = Len(s) - 1 /\ Len(s) \in Nat /\ 1 \in 1..Len(s)
      /\ \A i \in 1..Len(s) - 1 : i + 1 \in 1..Len(s) /\ t[i] = s[i + 1]
  BY TailIs
<1> HIDE DEF t
<1>2. \A i \in 1..Len(t) : i \in Nat /\ i + 1 \in 1..Len(s) /\ t[i] = s[i + 1] /\ ~(i + 1 <= 1)
  BY <1>1
<1>3. \A i, j \in 1..Len(t) : i + 1 <= j + 1 => i <= j
  BY <1>1
<1>4. \A i \in 1..Len(t) : t[i] \in Answer \cup {"DESCRIPTION", "ACK"}
  BY <1>2 DEF Ordered
<1>5. \A i, j \in 1..Len(t) : t[i] \in Answer /\ t[j] \in Answer \cup {"DESCRIPTION"} => i <= j
  BY <1>2, <1>3 DEF Ordered
<1>6. s[1] # "ACK" => \A i \in 1..Len(t) : t[i] \notin Answer
  BY <1>1, <1>2 DEF Ordered
<1>7. s[1] \in Answer \cup {"DESCRIPTION", "ACK"}
  BY <1>1 DEF Ordered
<1>8. Ordered(t)
  BY <1>4, <1>5 DEF Ordered
<1> QED
  BY <1>6, <1>7, <1>8 DEF t

\* A description, or an ACK, may follow at any time.
LEMMA OrderedAppended ==
  ASSUME NEW s \in Seq(Item), Ordered(s), NEW e \in {"DESCRIPTION", "ACK"}
  PROVE  Ordered(Append(s, e))
<1> DEFINE t == Append(s, e)
<1>1. e \in Item
  BY Items
<1>2. /\ Len(t) = Len(s) + 1 /\ Len(s) \in Nat /\ t[Len(s) + 1] = e
      /\ \A i \in 1..Len(s) : t[i] = s[i]
  BY <1>1, AppendIs
<1> HIDE DEF t
<1>3. \A i \in 1..Len(t) : i \in 1..Len(s) \/ i = Len(s) + 1
  BY <1>2
<1>4. \A i \in 1..Len(t) : t[i] \in Answer \cup {"DESCRIPTION", "ACK"}
  BY <1>2, <1>3 DEF Ordered
<1>5. \A i, j \in 1..Len(t) : t[i] \in Answer /\ t[j] \in Answer \cup {"DESCRIPTION"} => i <= j
  <2> TAKE i, j \in 1..Len(t)
  <2> HAVE t[i] \in Answer /\ t[j] \in Answer \cup {"DESCRIPTION"}
  <2>1. i \in 1..Len(s) /\ t[i] = s[i]
    BY <1>2, <1>3 DEF Answer
  <2>2. CASE j \in 1..Len(s)
    BY <1>2, <2>1, <2>2 DEF Ordered
  <2>3. CASE j = Len(s) + 1
    BY <1>2, <2>1, <2>3
  <2> QED
    BY <1>3, <2>2, <2>3
<1>6. Ordered(t)
  BY <1>4, <1>5 DEF Ordered
<1> QED
  BY <1>6 DEF t

\* Fewer ACKs leave the order as it was.
LEMMA OrderedThinned ==
  ASSUME NEW s \in Seq(Item), NEW r \in Seq(Item), Thins(s, r), Ordered(s)
  PROVE  Ordered(r)
<1>1. PICK d \in [1..Len(r) -> 1..Len(s)] :
        /\ \A k \in 1..Len(r) : r[k] = s[d[k]]
        /\ \A k, l \in 1..Len(r) : k < l => d[k] < d[l]
  BY DEF Thins
<1>2. \A k, l \in 1..Len(r) : d[k] <= d[l] => k <= l
  <2> TAKE k, l \in 1..Len(r)
  <2>1. k \in Int /\ l \in Int /\ d[k] \in Int /\ d[l] \in Int /\ (l < k => d[l] < d[k])
    BY <1>1
  <2> QED
    BY <2>1
<1>3. \A k \in 1..Len(r) : d[k] \in 1..Len(s)
  BY <1>1
<1> QED
  BY <1>1, <1>2, <1>3 DEF Ordered

\* Handling an event before its HELLO leaves a connection waiting for it.
LEMMA AwaitsTail ==
  ASSUME NEW s \in Seq(Item), s # <<>>, s[1] # "HELLO", NEW st, Awaits(s, st), NEW su,
         s[1] = "connected" => su = "Identifying"
  PROVE  Awaits(Tail(s), su)
<1> DEFINE t == Tail(s)
<1>1. /\ Len(t) = Len(s) - 1 /\ Len(s) \in Nat
      /\ \A i \in 1..Len(s) - 1 : i + 1 \in 1..Len(s) /\ t[i] = s[i + 1]
  BY TailIs
<1> HIDE DEF t
<1>2. PICK i \in 1..Len(s) :
        /\ s[i] = "HELLO" /\ \A j \in 1..Len(s) : j > i => s[j] = "ACK"
        /\ \/ i > 1 /\ s[i - 1] = "connected"
           \/ i = 1 /\ st = "Identifying"
  BY DEF Awaits
<1>3. i > 1 /\ s[i - 1] = "connected" /\ i - 1 \in 1..Len(t) /\ (i - 1) + 1 = i
  BY <1>1, <1>2
<1>4. t[i - 1] = "HELLO" /\ \A j \in 1..Len(t) : j > i - 1 => t[j] = "ACK"
  BY <1>1, <1>2, <1>3
<1>5. CASE i = 2
  BY <1>2, <1>3, <1>4, <1>5 DEF Awaits, t
<1>6. CASE i > 2
  <2>1. (i - 1) - 1 \in 1..Len(t) /\ ((i - 1) - 1) + 1 = i - 1 /\ i - 1 > 1
    BY <1>1, <1>3, <1>6
  <2>2. t[(i - 1) - 1] = "connected"
    BY <1>1, <1>3, <2>1
  <2> QED
    BY <1>3, <1>4, <2>1, <2>2 DEF Awaits, t
<1> QED
  BY <1>3, <1>5, <1>6

\* So does an ACK behind it,
LEMMA AwaitsAppended ==
  ASSUME NEW s \in Seq(Item), NEW st, Awaits(s, st)
  PROVE  Awaits(Append(s, "ACK"), st)
<1> DEFINE t == Append(s, "ACK")
<1>1. "ACK" \in Item
  BY Items
<1>2. /\ Len(t) = Len(s) + 1 /\ Len(s) \in Nat /\ t[Len(s) + 1] = "ACK"
      /\ \A i \in 1..Len(s) : t[i] = s[i]
  BY <1>1, AppendIs
<1> HIDE DEF t
<1>3. \A i \in 1..Len(t) : i \in 1..Len(s) \/ i = Len(s) + 1
  BY <1>2
<1>4. PICK i \in 1..Len(s) :
        /\ s[i] = "HELLO" /\ \A j \in 1..Len(s) : j > i => s[j] = "ACK"
        /\ \/ i > 1 /\ s[i - 1] = "connected"
           \/ i = 1 /\ st = "Identifying"
  BY DEF Awaits
<1>5. i \in 1..Len(t) /\ t[i] = "HELLO" /\ \A j \in 1..Len(t) : j > i => t[j] = "ACK"
  BY <1>2, <1>3, <1>4
<1>6. i > 1 => i - 1 \in 1..Len(s) /\ t[i - 1] = s[i - 1]
  BY <1>2
<1>7. Awaits(t, st)
  BY <1>4, <1>5, <1>6 DEF Awaits
<1> QED
  BY <1>7 DEF t

\* ... and an ACK taken away.
LEMMA AwaitsThinned ==
  ASSUME NEW s \in Seq(Item), NEW r \in Seq(Item), Thins(s, r), NEW st, Awaits(s, st)
  PROVE  Awaits(r, st)
<1>1. PICK d \in [1..Len(r) -> 1..Len(s)] :
        /\ \A k \in 1..Len(r) : r[k] = s[d[k]]
        /\ \A k, l \in 1..Len(r) : k < l => d[k] < d[l]
        /\ \A i \in 1..Len(s) : s[i] # "ACK" => \E k \in 1..Len(r) : d[k] = i
  BY DEF Thins
<1>2. PICK i \in 1..Len(s) :
        /\ s[i] = "HELLO" /\ \A j \in 1..Len(s) : j > i => s[j] = "ACK"
        /\ \/ i > 1 /\ s[i - 1] = "connected"
           \/ i = 1 /\ st = "Identifying"
  BY DEF Awaits
<1>3. PICK k \in 1..Len(r) : d[k] = i
  BY <1>1, <1>2
<1>4. r[k] = "HELLO"
  BY <1>1, <1>2, <1>3
<1>5. \A l \in 1..Len(r) : l > k => r[l] = "ACK"
  <2> TAKE l \in 1..Len(r)
  <2> HAVE l > k
  <2>1. d[k] < d[l] /\ d[l] \in 1..Len(s) /\ r[l] = s[d[l]]
    BY <1>1
  <2> QED
    BY <1>2, <1>3, <2>1
<1>6. CASE i = 1 /\ st = "Identifying"
  <2>1. k = 1
    <3>1. 1 \in 1..Len(r) /\ d[1] \in 1..Len(s) /\ (1 < k => d[1] < d[k])
      BY <1>1
    <3> QED
      BY <1>3, <1>6, <3>1
  <2> QED
    BY <1>4, <1>5, <1>6, <2>1 DEF Awaits
<1>7. CASE i > 1 /\ s[i - 1] = "connected"
  <2>1. i - 1 \in 1..Len(s)
    BY <1>7
  <2>2. PICK l \in 1..Len(r) : d[l] = i - 1
    BY <1>1, <1>7, <2>1
  <2>3. l < k
    <3>1. l \in Int /\ k \in Int /\ l # k
      BY <1>2, <1>3, <2>2
    <3>2. k < l => d[k] < d[l]
      BY <1>1
    <3> QED
      BY <1>2, <1>3, <2>2, <3>1, <3>2
  <2>4. l = k - 1
    <3>1. CASE l < k - 1
      <4>1. k - 1 \in 1..Len(r) /\ k - 1 < k
        BY <3>1
      <4>2. d[l] < d[k - 1] /\ d[k - 1] < d[k] /\ d[k - 1] \in 1..Len(s)
        BY <1>1, <3>1, <4>1
      <4> QED
        BY <1>2, <1>3, <2>2, <4>2
    <3> QED
      BY <2>3, <3>1
  <2>5. r[k - 1] = "connected" /\ k > 1
    BY <1>1, <1>7, <2>2, <2>4
  <2> QED
    BY <1>4, <1>5, <2>5 DEF Awaits
<1> QED
  BY <1>2, <1>6, <1>7

\* An end on its way stays on its way until it is handled.
LEMMA EndsTail ==
  ASSUME NEW s \in Seq(Item), s # <<>>, Ends(s)
  PROVE  \/ Ends(Tail(s))
         \/ s[1] = "disconnected" /\ \A i \in 1..Len(Tail(s)) : Tail(s)[i] # "DESCRIPTION"
<1> DEFINE t == Tail(s)
<1>1. /\ Len(t) = Len(s) - 1 /\ Len(s) \in Nat
      /\ \A i \in 1..Len(s) - 1 : i + 1 \in 1..Len(s) /\ t[i] = s[i + 1]
  BY TailIs
<1> HIDE DEF t
<1>2. PICK i \in 1..Len(s) : s[i] = "disconnected" /\ \A j \in 1..Len(s) : j > i => s[j] # "DESCRIPTION"
  BY DEF Ends
<1>3. CASE i = 1
  <2>1. \A j \in 1..Len(t) : j + 1 > i
    BY <1>1, <1>3
  <2> QED
    BY <1>1, <1>2, <1>3, <2>1 DEF t
<1>4. CASE i > 1
  <2>1. i - 1 \in 1..Len(t) /\ (i - 1) + 1 = i /\ \A j \in 1..Len(t) : j > i - 1 => j + 1 > i
    BY <1>1, <1>4
  <2>2. t[i - 1] = "disconnected" /\ \A j \in 1..Len(t) : j > i - 1 => t[j] # "DESCRIPTION"
    BY <1>1, <1>2, <2>1
  <2> QED
    BY <2>1, <2>2 DEF Ends, t
<1> QED
  BY <1>3, <1>4

\* It is not undone by what follows, unless that is a description.
LEMMA EndsAppended ==
  ASSUME NEW s \in Seq(Item), NEW e \in Item, e # "DESCRIPTION"
  PROVE  (Ends(s) => Ends(Append(s, e))) /\ Ends(Append(s, "disconnected"))
<1>1. ASSUME NEW f \in Item, f # "DESCRIPTION" PROVE Ends(s) => Ends(Append(s, f))
  <2> DEFINE t == Append(s, f)
  <2>2. /\ Len(t) = Len(s) + 1 /\ Len(s) \in Nat /\ t[Len(s) + 1] = f
        /\ \A i \in 1..Len(s) : i \in 1..Len(t) /\ t[i] = s[i]
    BY AppendIs
  <2> HIDE DEF t
  <2>3. \A i \in 1..Len(t) : i \in 1..Len(s) \/ i = Len(s) + 1
    BY <2>2
  <2>4. Ends(s) => Ends(t)
    BY <1>1, <2>2, <2>3 DEF Ends
  <2> QED
    BY <2>4 DEF t
<1>2. Ends(Append(s, "disconnected"))
  <2> DEFINE t == Append(s, "disconnected")
  <2>1. "disconnected" \in Item
    BY Items
  <2>2. Len(t) = Len(s) + 1 /\ Len(s) \in Nat /\ t[Len(s) + 1] = "disconnected"
    BY <2>1, AppendIs
  <2> HIDE DEF t
  <2>3. Len(s) + 1 \in 1..Len(t) /\ \A j \in 1..Len(t) : ~(j > Len(s) + 1)
    BY <2>2
  <2>4. Ends(t)
    BY <2>2, <2>3 DEF Ends
  <2> QED
    BY <2>4 DEF t
<1> QED
  BY <1>1, <1>2

\* Fewer ACKs do not undo it either.
LEMMA EndsThinned ==
  ASSUME NEW s \in Seq(Item), NEW r \in Seq(Item), Thins(s, r), Ends(s)
  PROVE  Ends(r)
<1>1. PICK d \in [1..Len(r) -> 1..Len(s)] :
        /\ \A k \in 1..Len(r) : r[k] = s[d[k]]
        /\ \A k, l \in 1..Len(r) : k < l => d[k] < d[l]
        /\ \A i \in 1..Len(s) : s[i] # "ACK" => \E k \in 1..Len(r) : d[k] = i
  BY DEF Thins
<1>2. PICK i \in 1..Len(s) : s[i] = "disconnected" /\ \A j \in 1..Len(s) : j > i => s[j] # "DESCRIPTION"
  BY DEF Ends
<1>3. PICK k \in 1..Len(r) : d[k] = i
  BY <1>1, <1>2
<1>4. \A l \in 1..Len(r) : l > k => r[l] # "DESCRIPTION"
  <2> TAKE l \in 1..Len(r)
  <2> HAVE l > k
  <2>1. d[k] < d[l] /\ d[l] \in 1..Len(s) /\ r[l] = s[d[l]]
    BY <1>1
  <2> QED
    BY <1>2, <1>3, <2>1
<1> QED
  BY <1>1, <1>2, <1>3, <1>4 DEF Ends

\* A connection just made waits for its HELLO.
LEMMA AwaitsPosted ==
  ASSUME NEW s \in Seq(Item), NEW st
  PROVE  Append(s, "connected") \o <<"HELLO">> \in Seq(Item) /\ Awaits(Append(s, "connected") \o <<"HELLO">>, st)
<1> DEFINE t == Append(s, "connected")
           u == Append(t, "HELLO")
<1>1. "connected" \in Item /\ "HELLO" \in Item
  BY Items
<1>2. t \in Seq(Item) /\ Len(t) = Len(s) + 1 /\ Len(s) \in Nat /\ t[Len(s) + 1] = "connected"
  BY <1>1, AppendIs
<1> HIDE DEF t
<1>3. /\ u \in Seq(Item) /\ Len(u) = Len(t) + 1 /\ u[Len(t) + 1] = "HELLO"
      /\ \A i \in 1..Len(t) : u[i] = t[i]
  BY <1>1, <1>2, AppendIs
<1>4. u = t \o <<"HELLO">>
  BY <1>1, <1>2, AppendIsConcat
<1> HIDE DEF u
<1>5. Len(u) = Len(s) + 2 /\ u[Len(s) + 2] = "HELLO" /\ u[Len(s) + 1] = "connected"
  <2>1. Len(s) + 1 \in 1..Len(t) /\ Len(t) + 1 = Len(s) + 2
    BY <1>2
  <2> QED
    BY <1>2, <1>3, <2>1
<1>6. /\ Len(s) + 2 \in 1..Len(u) /\ Len(s) + 2 > 1 /\ (Len(s) + 2) - 1 = Len(s) + 1
      /\ \A j \in 1..Len(u) : ~(j > Len(s) + 2)
  BY <1>2, <1>5
<1>7. Awaits(u, st)
  BY <1>5, <1>6 DEF Awaits
<1> QED
  BY <1>3, <1>4, <1>7 DEF t

\* When the HELLO is next, and the only one, only ACKs are behind it.
LEMMA Greeted ==
  ASSUME NEW s \in Seq(Item), s # <<>>, s[1] = "HELLO", NEW st, Awaits(s, st),
         \A i \in 1..Len(Tail(s)) : Tail(s)[i] # "HELLO"
  PROVE  /\ st = "Identifying" /\ \A i \in 1..Len(Tail(s)) : Tail(s)[i] = "ACK"
         /\ \A i \in 1..Len(s) : s[i] \in {"HELLO", "ACK"}
<1> DEFINE t == Tail(s)
<1>1. /\ Len(t) = Len(s) - 1 /\ Len(s) \in Nat
      /\ \A i \in 1..Len(s) - 1 : i + 1 \in 1..Len(s) /\ t[i] = s[i + 1]
  BY TailIs
<1>2. \A i \in 1..Len(t) : t[i] # "HELLO"
  OBVIOUS
<1> HIDE DEF t
<1>3. PICK i \in 1..Len(s) :
        /\ s[i] = "HELLO" /\ \A j \in 1..Len(s) : j > i => s[j] = "ACK"
        /\ \/ i > 1 /\ s[i - 1] = "connected"
           \/ i = 1 /\ st = "Identifying"
  BY DEF Awaits
<1>4. i = 1
  <2>1. i > 1 => i - 1 \in 1..Len(t) /\ (i - 1) + 1 = i
    BY <1>1
  <2>2. ~(i > 1)
    BY <1>1, <1>2, <1>3, <2>1
  <2> QED
    BY <2>2
<1>5. \A j \in 1..Len(t) : j + 1 \in 1..Len(s) /\ j + 1 > 1 /\ t[j] = s[j + 1]
  BY <1>1
<1>6. \A j \in 1..Len(s) : j = 1 \/ j > 1
  OBVIOUS
<1> QED
  BY <1>3, <1>4, <1>5, <1>6 DEF t

\* An answer behind nothing but ACKs is in order.
LEMMA OrderedAnswered ==
  ASSUME NEW s \in Seq(Item), \A i \in 1..Len(s) : s[i] = "ACK", NEW e \in Answer
  PROVE  Ordered(Append(s, e))
<1> DEFINE t == Append(s, e)
<1>1. e \in Item
  BY Items DEF Answer
<1>2. /\ Len(t) = Len(s) + 1 /\ Len(s) \in Nat /\ t[Len(s) + 1] = e
      /\ \A i \in 1..Len(s) : t[i] = s[i]
  BY <1>1, AppendIs
<1> HIDE DEF t
<1>3. \A i \in 1..Len(t) : i \in 1..Len(s) \/ i = Len(s) + 1
  BY <1>2
<1>4. \A i \in 1..Len(t) : t[i] \in Answer \cup {"DESCRIPTION", "ACK"}
  BY <1>2, <1>3
<1>5. \A i, j \in 1..Len(t) : t[i] \in Answer /\ t[j] \in Answer \cup {"DESCRIPTION"} => i <= j
  BY <1>2, <1>3 DEF Answer
<1>6. Ordered(t)
  BY <1>4, <1>5 DEF Ordered
<1> QED
  BY <1>6 DEF t

\* What a handler finds behind the event it takes.
LEMMA OrphanedIs ==
  ASSUME Queues, q # <<>>
  PROVE  Orphaned <=> srv = "none" \/ \E i \in 1..Len(Tail(Path)) : Tail(Path)[i] = "HELLO"
<1>1. Tail(Path) = Tail(q) \o wire /\ Path \in Seq(Item)
  <2>1. q \in Seq(Item) /\ wire \in Seq(Item)
    BY PathIs
  <2> QED
    BY <2>1 DEF Path
<1>2. Tail(Path) \in Seq(Item)
  <2>1. q \in Seq(Item) /\ wire \in Seq(Item)
    BY PathIs
  <2>2. Tail(q) \in Seq(Item)
    BY <2>1
  <2>3. Tail(q) \o wire \in Seq(Item)
    BY <2>1, <2>2
  <2> QED
    BY <1>1, <2>3
<1>3. DOMAIN Tail(Path) = 1..Len(Tail(Path))
  BY <1>2
<1> QED
  BY <1>1, <1>3 DEF Orphaned, ToSet

\* The path after a beat: thinner, and with an ACK at its end or not.
LEMMA BeatenIs ==
  ASSUME Queues, q' = WithoutAck(q), NEW t \in {<<"ACK">>, <<>>}, wire' = WithoutAck(wire) \o t
  PROVE  \E r \in Seq(Item) : Thins(Path, r) /\ (Path' = r \/ Path' = Append(r, "ACK"))
<1>1. PICK r \in Seq(Item) : Thins(Path, r) /\ Path' = r \o t
  BY PathBeaten
<1>2. r \o <<>> = r
  OBVIOUS
<1>3. r \o <<"ACK">> = Append(r, "ACK")
  <2>1. "ACK" \in Item
    BY Items
  <2> QED
    BY <2>1, AppendIsConcat
<1> QED
  BY <1>1, <1>2, <1>3

\* A beat that finds its ACK.
LEMMA BeatIs ==
  ASSUME gw \in Gw, HbBeat
  PROVE  /\ npc' = npc /\ vpc' = vpc /\ vc' = vc /\ srv' = srv /\ keyed' = keyed /\ late' = late /\ gw.running /\ ~gw.shouldReconnect
         /\ gw'.running = gw.running /\ gw'.canResume = gw.canResume /\ gw'.isResuming = gw.isResuming
         /\ \/ /\ q' = WithoutAck(q) /\ (\E t \in {<<"ACK">>, <<>>} : wire' = WithoutAck(wire) \o t)
               /\ gw'.shouldReconnect = gw.shouldReconnect
            \/ q' = q /\ wire' = wire
<1>1. CASE gw.ack
  <2>1. \E t \in {<<"ACK">>, <<>>} : wire' = WithoutAck(wire) \o t
    BY <1>1 DEF HbBeat
  <2> QED
    BY <1>1, <2>1 DEF HbBeat, Gw
<1>2. CASE ~gw.ack
  BY <1>2 DEF HbBeat, Gw
<1> QED
  BY <1>1, <1>2 DEF Gw

HelloNext == vc.gateway = "live" /\ Loop /\ srv = "open" => Awaits(Path, vc.state)

\* On an open connection the HELLO is always on its way.
LEMMA HelloNextStep ==
  ASSUME Types, Owned, HelloNext, [Next]_vars
  PROVE  HelloNext'
<1> USE DEF Types, Gw, Vc, Control, Owned, Wired, Unused, Stopping, DeleteLast, Joining, Loop, HelloNext, srvVars
<1>1. CASE Start
  BY <1>1, ComingSame DEF Start
<1>2. CASE Stop
  BY <1>2, ComingSame DEF Stop, StopFrom, Cleaned, Stopped
<1>3. CASE Destroy
  BY <1>3, ComingSame DEF Destroy
<1>4. CASE NetTop
  BY <1>4, ComingSame DEF NetTop
<1>5. CASE NetConnected
  <2>1. /\ npc = "connecting" /\ wire' = <<"HELLO">> /\ vpc' = vpc /\ vc' = vc /\ (gw.running => q' = Append(q, "connected"))
    BY <1>5 DEF NetConnected, Post
  <2>2. q \in Seq(Item)
    BY PathIs
  <2> QED
    BY <2>1, <2>2, AwaitsPosted DEF Path
<1>6. CASE NetRetry
  BY <1>6, ComingSame DEF NetRetry
<1>7. CASE NetLeaves
  BY <1>7, ComingSame DEF NetLeaves, Leave
<1>8. CASE NetReceives
  <2>1. wire # <<>> /\ q' = Append(q, Head(wire)) /\ wire' = Tail(wire) /\ srv' = srv /\ vc' = vc /\ vpc' = vpc
    BY <1>8 DEF NetReceives, Post
  <2> QED
    BY <2>1, PathReceived
<1>9. CASE NetCloseFrame
  BY <1>9, ComingSame DEF NetCloseFrame, Leave, Post, Recoverable, CloseCode
<1>10. CASE NetCheck
  BY <1>10, ComingSame DEF NetCheck, Post, MayRetry
<1>11. CASE NetJoins
  BY <1>11, ComingSame DEF NetJoins
<1>12. CASE NetWhile
  BY <1>12, ComingSame DEF NetWhile, Fault
<1>13. CASE NetEnds
  BY <1>13, ComingSame DEF NetEnds
<1>14. CASE NetTail
  BY <1>14, ComingSame DEF NetTail
<1>15. CASE HbEnds
  BY <1>15, ComingSame DEF HbEnds
<1>16. CASE HbBeat
  <2> SUFFICES ASSUME vc.gateway = "live", Loop, srv = "open" PROVE Awaits(Path', vc.state)
    BY <1>16, BeatIs DEF HelloNext
  <2>1. Awaits(Path, vc.state)
    BY DEF HelloNext
  <2>2. CASE q' = q /\ wire' = wire
    BY <2>1, <2>2, ComingSame
  <2>3. CASE q' = WithoutAck(q) /\ \E t \in {<<"ACK">>, <<>>} : wire' = WithoutAck(wire) \o t
    <3>1. PICK r \in Seq(Item) : Thins(Path, r) /\ (Path' = r \/ Path' = Append(r, "ACK"))
      BY <2>3, BeatenIs
    <3>2. Path \in Seq(Item)
      BY PathIs
    <3>3. Awaits(r, vc.state)
      BY <2>1, <3>1, <3>2, AwaitsThinned
    <3> QED
      BY <3>1, <3>3, AwaitsAppended
  <2> QED
    BY <1>16, <2>2, <2>3, BeatIs
<1>17. CASE JoinNetwork
  BY <1>17, ComingSame DEF JoinNetwork
<1>18. CASE JoinHeartbeat
  BY <1>18, ComingSame DEF JoinHeartbeat, Stopped, Cleaned
<1>19. CASE SpawnHeartbeat
  BY <1>19, ComingSame DEF SpawnHeartbeat
<1>20. CASE OnDelete
  <2>1. q # <<>> /\ Head(q) = "delete" /\ vc'.gateway = "gone"
    BY <1>20 DEF OnDelete, Handles
  <2> QED
    BY <2>1
<1>21. CASE OnGatewayConnected
  <2>1. Handles("connected") /\ vpc' = vpc /\ srv' = srv /\ wire' = wire /\ vc'.gateway = vc.gateway /\ vc'.state = "Identifying"
    BY <1>21 DEF OnGatewayConnected, Handles
  <2> SUFFICES ASSUME vc.gateway = "live", Loop, srv = "open" PROVE Awaits(Path', vc'.state)
    BY <2>1 DEF HelloNext
  <2>2. q # <<>> /\ Head(q) = "connected" /\ q' = Tail(q)
    BY <2>1 DEF Handles
  <2>3. Path \in Seq(Item) /\ Path # <<>> /\ Path[1] = "connected" /\ Path' = Tail(Path)
    BY <2>1, <2>2, PathIs, PathTaken
  <2> QED
    BY <2>1, <2>3, AwaitsTail DEF HelloNext
<1>22. CASE OnGatewayDisconnected
  <2>1. Handles("disconnected") /\ vpc' = vpc /\ srv' = srv /\ wire' = wire /\ vc'.gateway = vc.gateway
    BY <1>22 DEF OnGatewayDisconnected, Handles, Cleaned
  <2> SUFFICES ASSUME vc.gateway = "live", Loop, srv = "open" PROVE Awaits(Path', vc'.state)
    BY <2>1 DEF HelloNext
  <2>2. q # <<>> /\ Head(q) = "disconnected" /\ q' = Tail(q)
    BY <2>1 DEF Handles
  <2>3. Path \in Seq(Item) /\ Path # <<>> /\ Path[1] = "disconnected" /\ Path' = Tail(Path)
    BY <2>1, <2>2, PathIs, PathTaken
  <2> QED
    BY <2>1, <2>3, AwaitsTail DEF HelloNext
<1>23. CASE OnHello
  BY <1>23, HelloIs
<1>24. CASE OnReady
  <2>1. Handles("READY") /\ srv' = srv /\ wire' = wire /\ vc'.gateway = vc.gateway
    BY <1>24, ReadyIs
  <2> SUFFICES ASSUME vc.gateway = "live", Loop, srv = "open" PROVE Awaits(Path', vc'.state)
    BY <1>24, <2>1, ReadyIs DEF HelloNext
  <2>2. q # <<>> /\ Head(q) = "READY" /\ q' = Tail(q)
    BY <2>1 DEF Handles
  <2>3. Path \in Seq(Item) /\ Path # <<>> /\ Path[1] = "READY" /\ Path' = Tail(Path)
    BY <2>1, <2>2, PathIs, PathTaken
  <2> QED
    BY <2>1, <2>3, AwaitsTail DEF HelloNext
<1>25. CASE OnResumed
  <2>1. Handles("RESUMED") /\ vpc' = vpc /\ srv' = srv /\ wire' = wire /\ vc'.gateway = vc.gateway
    BY <1>25, ResumedIs
  <2> SUFFICES ASSUME vc.gateway = "live", Loop, srv = "open" PROVE Awaits(Path', vc'.state)
    BY <2>1 DEF HelloNext
  <2>2. q # <<>> /\ Head(q) = "RESUMED" /\ q' = Tail(q)
    BY <2>1 DEF Handles
  <2>3. Path \in Seq(Item) /\ Path # <<>> /\ Path[1] = "RESUMED" /\ Path' = Tail(Path)
    BY <2>1, <2>2, PathIs, PathTaken
  <2> QED
    BY <2>1, <2>3, AwaitsTail DEF HelloNext
<1>26. CASE OnSessionDescription
  <2>1. Handles("DESCRIPTION") /\ vpc' = vpc /\ srv' = srv /\ wire' = wire /\ vc'.gateway = vc.gateway
    BY <1>26 DEF OnSessionDescription, Handles
  <2> SUFFICES ASSUME vc.gateway = "live", Loop, srv = "open" PROVE Awaits(Path', vc'.state)
    BY <2>1 DEF HelloNext
  <2>2. q # <<>> /\ Head(q) = "DESCRIPTION" /\ q' = Tail(q)
    BY <2>1 DEF Handles
  <2>3. Path \in Seq(Item) /\ Path # <<>> /\ Path[1] = "DESCRIPTION" /\ Path' = Tail(Path)
    BY <2>1, <2>2, PathIs, PathTaken
  <2> QED
    BY <2>1, <2>3, AwaitsTail DEF HelloNext
<1>27. CASE OnAck
  <2>1. Handles("ACK") /\ vpc' = vpc /\ srv' = srv /\ wire' = wire /\ vc'.gateway = vc.gateway
    BY <1>27 DEF OnAck, Handles
  <2> SUFFICES ASSUME vc.gateway = "live", Loop, srv = "open" PROVE Awaits(Path', vc'.state)
    BY <2>1 DEF HelloNext
  <2>2. q # <<>> /\ Head(q) = "ACK" /\ q' = Tail(q)
    BY <2>1 DEF Handles
  <2>3. Path \in Seq(Item) /\ Path # <<>> /\ Path[1] = "ACK" /\ Path' = Tail(Path)
    BY <2>1, <2>2, PathIs, PathTaken
  <2> QED
    BY <2>1, <2>3, AwaitsTail DEF HelloNext
<1>28. CASE OnIpDiscovered
  BY <1>28, DiscoveredIs, ComingSame
<1>29. CASE OnIpDiscoveryFailed
  BY <1>29, ComingSame DEF OnIpDiscoveryFailed, StopFrom, Cleaned, Stopped, Fault
<1>30. CASE SrvCloses
  BY <1>30, ComingSame DEF SrvCloses, Fault, Closes, Frames
<1>31. CASE SrvFallsSilent
  BY <1>31, ComingSame DEF SrvFallsSilent, Fault
<1>32. CASE SrvForgets
  BY <1>32, ComingSame DEF SrvForgets, Fault
<1>33. CASE NetCut
  BY <1>33, ComingSame DEF NetCut, Fault, Leave
<1>34. CASE NetConnectFails
  BY <1>34, ComingSame DEF NetConnectFails, MayRetry, Post
<1>35. CASE Over
  BY <1>35, ComingSame DEF Over, vars
<1>36. CASE UNCHANGED vars
  BY <1>36, ComingSame DEF vars
<1> QED
  BY <1>1, <1>2, <1>3, <1>4, <1>5, <1>6, <1>7, <1>8, <1>9, <1>10, <1>11, <1>12, <1>13, <1>14, <1>15, <1>16, <1>17, <1>18, <1>19, <1>20, <1>21, <1>22, <1>23, <1>24, <1>25, <1>26, <1>27, <1>28, <1>29, <1>30, <1>31, <1>32, <1>33, <1>34, <1>35, <1>36
     DEF Next, NetStep, HbStep, VoiceStep, VoiceEvent, Environment

\* What is under way in a session, and what the client shows meanwhile.
InSession ==
  ~late /\ vc.gateway = "live" /\ Loop /\ srv = "session" =>
    /\ Ordered(Path) /\ vc.state # "Disconnected"
    /\ Coming("READY") \/ Coming("RESUMED") => vc.state # "Connected"
    /\ Coming("DESCRIPTION") => vc.udp # "none"

\* A HELLO handled on time is the answer to an open connection.
LEMMA OnTime ==
  ASSUME Types, HelloNext, q # <<>>, q' = Tail(q), Head(q) = "HELLO", vc.gateway = "live", Loop, srv = "open", ~Orphaned
  PROVE  /\ vc.state = "Identifying" /\ \A i \in 1..Len(Path) : Path[i] \in {"HELLO", "ACK"}
         /\ \A e \in Answer : wire' = Append(wire, e) =>
              Ordered(Path') /\ Coming(e)' /\ \A f : Coming(f)' => f \in {"ACK", e}
<1>1. Path \in Seq(Item) /\ Path # <<>> /\ Path[1] = "HELLO"
  BY PathIs, PathTaken DEF Types
<1>2. \A i \in 1..Len(Tail(Path)) : Tail(Path)[i] # "HELLO"
  BY OrphanedIs DEF Types
<1>3. Awaits(Path, vc.state)
  BY DEF HelloNext
<1>4. /\ vc.state = "Identifying" /\ \A i \in 1..Len(Tail(Path)) : Tail(Path)[i] = "ACK"
      /\ \A i \in 1..Len(Path) : Path[i] \in {"HELLO", "ACK"}
  BY <1>1, <1>2, <1>3, Greeted
<1>5. Tail(Path) \in Seq(Item)
  BY <1>1
<1>6. ASSUME NEW e \in Answer, wire' = Append(wire, e)
      PROVE  Ordered(Path') /\ Coming(e)' /\ \A f : Coming(f)' => f \in {"ACK", e}
  <2>1. e \in WItem /\ e \in Item
    BY Items DEF Answer
  <2>2. Path' = Append(Tail(Path), e)
    BY <1>6, <2>1, PathTaken DEF Types
  <2>3. Ordered(Path')
    BY <1>4, <1>5, <2>2, OrderedAnswered
  <2>4. Coming(e)'
    BY <1>6, <2>1, ComingAnswered DEF Types
  <2> DEFINE t == Tail(Path)
  <2>5. /\ Len(Path') = Len(t) + 1 /\ Len(t) \in Nat /\ Path'[Len(t) + 1] = e
        /\ \A i \in 1..Len(t) : Path'[i] = t[i]
    BY <1>5, <2>1, <2>2, AppendIs
  <2>6. \A i \in 1..Len(t) : t[i] = "ACK"
    BY <1>4
  <2> HIDE DEF t
  <2>7. \A i \in 1..Len(Path') : i \in 1..Len(t) \/ i = Len(t) + 1
    BY <2>5
  <2>8. \A f : Coming(f)' => f \in {"ACK", e}
    BY <2>5, <2>6, <2>7 DEF Coming
  <2> QED
    BY <2>3, <2>4, <2>8
<1> QED
  BY <1>4, <1>6

\* The next event of a session, and what is left behind it.
LEMMA NextInSession ==
  ASSUME Types, InSession, ~late, vc.gateway = "live", Loop, srv = "session", q # <<>>, q' = Tail(q), wire' = wire
  PROVE  /\ Head(q) \in {"READY", "RESUMED", "DESCRIPTION", "ACK"} /\ Coming(Head(q))
         /\ Ordered(Path') /\ Path' = Tail(Path)
         /\ Head(q) # "ACK" => ~Coming("READY")' /\ ~Coming("RESUMED")'
         /\ \A e : (Coming(e)' => Coming(e)) /\ (Coming(e) => e = Head(q) \/ Coming(e)')
<1>1. Path \in Seq(Item) /\ Path # <<>> /\ Path[1] = Head(q) /\ Path' = Tail(Path)
  BY PathIs, PathTaken DEF Types
<1>2. Ordered(Path)
  BY DEF InSession
<1>3. /\ Ordered(Tail(Path)) /\ Path[1] \in Answer \cup {"DESCRIPTION", "ACK"}
      /\ Path[1] # "ACK" => \A i \in 1..Len(Tail(Path)) : Tail(Path)[i] \notin Answer
  BY <1>1, <1>2, OrderedTail
<1>4. 1 \in 1..Len(Path)
  BY <1>1, TailIs
<1>5. \A e : (Coming(e)' => Coming(e)) /\ (Coming(e) => e = Head(q) \/ Coming(e)')
  BY ComingTaken DEF Types
<1>6. Coming(Head(q))
  BY <1>1, <1>4 DEF Coming
<1>7. Head(q) # "ACK" => ~Coming("READY")' /\ ~Coming("RESUMED")'
  BY <1>1, <1>3 DEF Coming, Answer
<1> QED
  BY <1>1, <1>3, <1>5, <1>6, <1>7 DEF Answer

\* A beat leaves the order of a session as it was.
LEMMA BeatInSession ==
  ASSUME Types, HbBeat
  PROVE  /\ (Ordered(Path) => Ordered(Path')) /\ (Ends(Path) => Ends(Path'))
         /\ \A e : e # "ACK" => (Coming(e)' <=> Coming(e))
<1>1. Path \in Seq(Item)
  BY PathIs DEF Types
<1>2. CASE q' = q /\ wire' = wire
  BY <1>2, ComingSame
<1>3. ASSUME NEW t \in {<<"ACK">>, <<>>}, q' = WithoutAck(q), wire' = WithoutAck(wire) \o t
      PROVE  /\ (Ordered(Path) => Ordered(Path')) /\ (Ends(Path) => Ends(Path'))
             /\ \A e : e # "ACK" => (Coming(e)' <=> Coming(e))
  <2>1. PICK r \in Seq(Item) : Thins(Path, r) /\ (Path' = r \/ Path' = Append(r, "ACK"))
    BY <1>3, BeatenIs DEF Types
  <2>2. Ordered(Path) => Ordered(Path')
    BY <1>1, <2>1, OrderedThinned, OrderedAppended
  <2>3. Ends(Path) => Ends(Path')
    <3>1. "ACK" \in Item /\ "ACK" # "DESCRIPTION"
      BY Items
    <3> QED
      BY <1>1, <2>1, <3>1, EndsThinned, EndsAppended
  <2>4. \A e : (Coming(e)' => Coming(e) \/ e = "ACK") /\ (e # "ACK" /\ Coming(e) => Coming(e)')
    BY <1>3, ComingBeaten DEF Types
  <2> QED
    BY <2>2, <2>3, <2>4
<1> QED
  BY <1>2, <1>3, BeatIs DEF Types

\* Every step keeps the order of a session.
LEMMA InSessionStep ==
  ASSUME Types, Owned, HelloNext, InSession, [Next]_vars
  PROVE  InSession'
<1> USE DEF Types, Gw, Vc, Control, Owned, Wired, Unused, Stopping, DeleteLast, Joining, Loop, InSession, srvVars
<1>1. CASE Start
  BY <1>1, ComingSame DEF Start
<1>2. CASE Stop
  BY <1>2, ComingSame DEF Stop, StopFrom, Cleaned, Stopped
<1>3. CASE Destroy
  BY <1>3, ComingSame DEF Destroy
<1>4. CASE NetTop
  BY <1>4, ComingSame DEF NetTop
<1>5. CASE NetConnected
  BY <1>5, ComingSame DEF NetConnected, Post
<1>6. CASE NetRetry
  BY <1>6, ComingSame DEF NetRetry
<1>7. CASE NetLeaves
  BY <1>7, ComingSame DEF NetLeaves, Leave
<1>8. CASE NetReceives
  <2>1. wire # <<>> /\ q' = Append(q, Head(wire)) /\ wire' = Tail(wire) /\ srv' = srv /\ vc' = vc /\ vpc' = vpc /\ late' = late
    BY <1>8 DEF NetReceives, Post
  <2> QED
    BY <2>1, ComingReceived
<1>9. CASE NetCloseFrame
  BY <1>9, ComingSame DEF NetCloseFrame, Leave, Post, Recoverable, CloseCode
<1>10. CASE NetCheck
  BY <1>10, ComingSame DEF NetCheck, Post, MayRetry
<1>11. CASE NetJoins
  BY <1>11, ComingSame DEF NetJoins
<1>12. CASE NetWhile
  BY <1>12, ComingSame DEF NetWhile, Fault
<1>13. CASE NetEnds
  BY <1>13, ComingSame DEF NetEnds
<1>14. CASE NetTail
  BY <1>14, ComingSame DEF NetTail
<1>15. CASE HbEnds
  BY <1>15, ComingSame DEF HbEnds
<1>16. CASE HbBeat
  BY <1>16, BeatIs, BeatInSession
<1>17. CASE JoinNetwork
  BY <1>17, ComingSame DEF JoinNetwork
<1>18. CASE JoinHeartbeat
  BY <1>18, ComingSame DEF JoinHeartbeat, Stopped, Cleaned
<1>19. CASE SpawnHeartbeat
  BY <1>19, ComingSame DEF SpawnHeartbeat
<1>20. CASE OnDelete
  <2>1. q # <<>> /\ Head(q) = "delete" /\ vc'.gateway = "gone"
    BY <1>20 DEF OnDelete, Handles
  <2> QED
    BY <2>1
<1>21. CASE OnGatewayConnected
  <2>1. Handles("connected") /\ vpc = "loop" /\ srv' = srv /\ wire' = wire /\ vc'.gateway = vc.gateway /\ (late' = late \/ late' = (late \/ Orphaned))
    BY <1>21 DEF OnGatewayConnected, Handles
  <2> SUFFICES ASSUME ~late, vc.gateway = "live", srv = "session", Loop'
        PROVE  /\ Ordered(Path') /\ vc'.state # "Disconnected"
               /\ Coming("READY")' \/ Coming("RESUMED")' => vc'.state # "Connected"
               /\ Coming("DESCRIPTION")' => vc'.udp # "none"
    BY <2>1 DEF InSession
  <2>2. q # <<>> /\ Head(q) = "connected" /\ q' = Tail(q)
    BY <2>1 DEF Handles
  <2>3. /\ Head(q) \in {"READY", "RESUMED", "DESCRIPTION", "ACK"} /\ Coming(Head(q)) /\ Ordered(Path')
        /\ Head(q) # "ACK" => ~Coming("READY")' /\ ~Coming("RESUMED")'
        /\ \A f : Coming(f)' => Coming(f)
    BY <2>1, <2>2, NextInSession
  <2>4. /\ vc.state # "Disconnected" /\ (Coming("READY") \/ Coming("RESUMED") => vc.state # "Connected")
        /\ Coming("DESCRIPTION") => vc.udp # "none"
    BY <2>1 DEF InSession
  <2> QED
    BY <2>2, <2>3
<1>22. CASE OnGatewayDisconnected
  <2>1. Handles("disconnected") /\ vpc = "loop" /\ srv' = srv /\ wire' = wire /\ vc'.gateway = vc.gateway /\ (late' = late \/ late' = (late \/ Orphaned))
    BY <1>22 DEF OnGatewayDisconnected, Handles, Cleaned
  <2> SUFFICES ASSUME ~late, vc.gateway = "live", srv = "session", Loop'
        PROVE  /\ Ordered(Path') /\ vc'.state # "Disconnected"
               /\ Coming("READY")' \/ Coming("RESUMED")' => vc'.state # "Connected"
               /\ Coming("DESCRIPTION")' => vc'.udp # "none"
    BY <2>1 DEF InSession
  <2>2. q # <<>> /\ Head(q) = "disconnected" /\ q' = Tail(q)
    BY <2>1 DEF Handles
  <2>3. /\ Head(q) \in {"READY", "RESUMED", "DESCRIPTION", "ACK"} /\ Coming(Head(q)) /\ Ordered(Path')
        /\ Head(q) # "ACK" => ~Coming("READY")' /\ ~Coming("RESUMED")'
        /\ \A f : Coming(f)' => Coming(f)
    BY <2>1, <2>2, NextInSession
  <2>4. /\ vc.state # "Disconnected" /\ (Coming("READY") \/ Coming("RESUMED") => vc.state # "Connected")
        /\ Coming("DESCRIPTION") => vc.udp # "none"
    BY <2>1 DEF InSession
  <2> QED
    BY <2>2, <2>3
<1>23. CASE OnHello
  <2> SUFFICES ASSUME ~late', vc.gateway = "live", srv' = "session"
        PROVE  /\ Ordered(Path') /\ vc.state # "Disconnected"
               /\ Coming("READY")' \/ Coming("RESUMED")' => vc.state # "Connected"
               /\ Coming("DESCRIPTION")' => vc.udp # "none"
    BY <1>23, HelloIs DEF InSession
  <2>1. Handles("HELLO") /\ vpc = "loop" /\ ~Orphaned /\ srv = "open" /\ \E e \in Answer : wire' = Append(wire, e)
    BY <1>23, HelloIs DEF Answer
  <2>2. q # <<>> /\ Head(q) = "HELLO" /\ q' = Tail(q)
    BY <2>1 DEF Handles
  <2>3. PICK e \in Answer : wire' = Append(wire, e)
    BY <2>1
  <2>4. vc.state = "Identifying" /\ Ordered(Path') /\ \A f : Coming(f)' => f \in {"ACK", e}
    BY <2>1, <2>2, <2>3, OnTime
  <2> QED
    BY <2>4 DEF Answer
<1>24. CASE OnReady
  <2>1. Handles("READY") /\ vpc = "loop" /\ srv' = srv /\ wire' = wire /\ vc'.gateway = vc.gateway /\ (late' = late \/ late' = (late \/ Orphaned))
    BY <1>24, ReadyIs
  <2> SUFFICES ASSUME ~late, vc.gateway = "live", srv = "session", Loop'
        PROVE  /\ Ordered(Path') /\ vc'.state # "Disconnected"
               /\ Coming("READY")' \/ Coming("RESUMED")' => vc'.state # "Connected"
               /\ Coming("DESCRIPTION")' => vc'.udp # "none"
    BY <2>1 DEF InSession
  <2>2. q # <<>> /\ Head(q) = "READY" /\ q' = Tail(q)
    BY <2>1 DEF Handles
  <2>3. /\ Head(q) \in {"READY", "RESUMED", "DESCRIPTION", "ACK"} /\ Coming(Head(q)) /\ Ordered(Path')
        /\ Head(q) # "ACK" => ~Coming("READY")' /\ ~Coming("RESUMED")'
        /\ \A f : Coming(f)' => Coming(f)
    BY <2>1, <2>2, NextInSession
  <2>4. /\ vc.state # "Disconnected" /\ (Coming("READY") \/ Coming("RESUMED") => vc.state # "Connected")
        /\ Coming("DESCRIPTION") => vc.udp # "none"
    BY <2>1 DEF InSession
  <2>5. vc'.state # "Disconnected" /\ vc'.udp # "none"
    BY <1>24, <2>4, ReadyIs
  <2> QED
    BY <2>2, <2>3, <2>5
<1>25. CASE OnResumed
  <2>1. Handles("RESUMED") /\ vpc = "loop" /\ srv' = srv /\ wire' = wire /\ vc'.gateway = vc.gateway /\ (late' = late \/ late' = (late \/ Orphaned))
    BY <1>25, ResumedIs
  <2> SUFFICES ASSUME ~late, vc.gateway = "live", srv = "session", Loop'
        PROVE  /\ Ordered(Path') /\ vc'.state # "Disconnected"
               /\ Coming("READY")' \/ Coming("RESUMED")' => vc'.state # "Connected"
               /\ Coming("DESCRIPTION")' => vc'.udp # "none"
    BY <2>1 DEF InSession
  <2>2. q # <<>> /\ Head(q) = "RESUMED" /\ q' = Tail(q)
    BY <2>1 DEF Handles
  <2>3. /\ Head(q) \in {"READY", "RESUMED", "DESCRIPTION", "ACK"} /\ Coming(Head(q)) /\ Ordered(Path')
        /\ Head(q) # "ACK" => ~Coming("READY")' /\ ~Coming("RESUMED")'
        /\ \A f : Coming(f)' => Coming(f)
    BY <2>1, <2>2, NextInSession
  <2>4. /\ vc.state # "Disconnected" /\ (Coming("READY") \/ Coming("RESUMED") => vc.state # "Connected")
        /\ Coming("DESCRIPTION") => vc.udp # "none"
    BY <2>1 DEF InSession
  <2>5. vc'.state # "Disconnected" /\ (vc' = vc \/ vc'.udp # "none")
    BY <1>25, <2>4, ResumedIs
  <2> QED
    BY <2>2, <2>3, <2>4, <2>5
<1>26. CASE OnSessionDescription
  <2>1. Handles("DESCRIPTION") /\ vpc = "loop" /\ srv' = srv /\ wire' = wire /\ vc'.gateway = vc.gateway /\ (late' = late \/ late' = (late \/ Orphaned))
    BY <1>26 DEF OnSessionDescription, Handles
  <2> SUFFICES ASSUME ~late, vc.gateway = "live", srv = "session", Loop'
        PROVE  /\ Ordered(Path') /\ vc'.state # "Disconnected"
               /\ Coming("READY")' \/ Coming("RESUMED")' => vc'.state # "Connected"
               /\ Coming("DESCRIPTION")' => vc'.udp # "none"
    BY <2>1 DEF InSession
  <2>2. q # <<>> /\ Head(q) = "DESCRIPTION" /\ q' = Tail(q)
    BY <2>1 DEF Handles
  <2>3. /\ Head(q) \in {"READY", "RESUMED", "DESCRIPTION", "ACK"} /\ Coming(Head(q)) /\ Ordered(Path')
        /\ Head(q) # "ACK" => ~Coming("READY")' /\ ~Coming("RESUMED")'
        /\ \A f : Coming(f)' => Coming(f)
    BY <2>1, <2>2, NextInSession
  <2>4. /\ vc.state # "Disconnected" /\ (Coming("READY") \/ Coming("RESUMED") => vc.state # "Connected")
        /\ Coming("DESCRIPTION") => vc.udp # "none"
    BY <2>1 DEF InSession
  <2>5. vc'.state = "Connected" /\ vc'.udp = vc.udp
    BY <1>26 DEF OnSessionDescription
  <2> QED
    BY <2>2, <2>3, <2>4, <2>5
<1>27. CASE OnAck
  <2>1. Handles("ACK") /\ vpc = "loop" /\ srv' = srv /\ wire' = wire /\ vc'.gateway = vc.gateway /\ (late' = late \/ late' = (late \/ Orphaned))
    BY <1>27 DEF OnAck, Handles
  <2> SUFFICES ASSUME ~late, vc.gateway = "live", srv = "session", Loop'
        PROVE  /\ Ordered(Path') /\ vc'.state # "Disconnected"
               /\ Coming("READY")' \/ Coming("RESUMED")' => vc'.state # "Connected"
               /\ Coming("DESCRIPTION")' => vc'.udp # "none"
    BY <2>1 DEF InSession
  <2>2. q # <<>> /\ Head(q) = "ACK" /\ q' = Tail(q)
    BY <2>1 DEF Handles
  <2>3. /\ Head(q) \in {"READY", "RESUMED", "DESCRIPTION", "ACK"} /\ Coming(Head(q)) /\ Ordered(Path')
        /\ Head(q) # "ACK" => ~Coming("READY")' /\ ~Coming("RESUMED")'
        /\ \A f : Coming(f)' => Coming(f)
    BY <2>1, <2>2, NextInSession
  <2>4. /\ vc.state # "Disconnected" /\ (Coming("READY") \/ Coming("RESUMED") => vc.state # "Connected")
        /\ Coming("DESCRIPTION") => vc.udp # "none"
    BY <2>1 DEF InSession
  <2>5. vc' = vc
    BY <1>27 DEF OnAck
  <2> QED
    BY <2>3, <2>4, <2>5
<1>28. CASE OnIpDiscovered
  <2> SUFFICES ASSUME ~late, vc.gateway = "live", srv' = "session"
        PROVE  /\ Ordered(Path') /\ vc'.state # "Disconnected"
               /\ Coming("READY")' \/ Coming("RESUMED")' => vc'.state # "Connected"
               /\ Coming("DESCRIPTION")' => vc'.udp # "none"
    BY <1>28, DiscoveredIs DEF InSession
  <2>1. q' = q /\ srv = "session" /\ wire' = Append(wire, "DESCRIPTION") /\ vc'.state = "WaitingForSession" /\ vc'.udp # "none" /\ vpc = "loop"
    BY <1>28, DiscoveredIs
  <2>2. Path \in Seq(Item) /\ Ordered(Path) /\ "DESCRIPTION" \in WItem
    BY <2>1, PathIs, Items DEF InSession
  <2>3. Path' = Append(Path, "DESCRIPTION")
    BY <2>1, <2>2, PathSent
  <2>4. Ordered(Path')
    BY <2>2, <2>3, OrderedAppended
  <2> QED
    BY <2>1, <2>4
<1>29. CASE OnIpDiscoveryFailed
  BY <1>29, ComingSame DEF OnIpDiscoveryFailed, StopFrom, Cleaned, Stopped, Fault
<1>30. CASE SrvCloses
  BY <1>30, ComingSame DEF SrvCloses, Fault, Closes, Frames
<1>31. CASE SrvFallsSilent
  BY <1>31, ComingSame DEF SrvFallsSilent, Fault
<1>32. CASE SrvForgets
  BY <1>32, ComingSame DEF SrvForgets, Fault
<1>33. CASE NetCut
  BY <1>33, ComingSame DEF NetCut, Fault, Leave
<1>34. CASE NetConnectFails
  BY <1>34, ComingSame DEF NetConnectFails, MayRetry, Post
<1>35. CASE Over
  BY <1>35, ComingSame DEF Over, vars
<1>36. CASE UNCHANGED vars
  BY <1>36, ComingSame DEF vars
<1> QED
  BY <1>1, <1>2, <1>3, <1>4, <1>5, <1>6, <1>7, <1>8, <1>9, <1>10, <1>11, <1>12, <1>13, <1>14, <1>15, <1>16, <1>17, <1>18, <1>19, <1>20, <1>21, <1>22, <1>23, <1>24, <1>25, <1>26, <1>27, <1>28, <1>29, <1>30, <1>31, <1>32, <1>33, <1>34, <1>35, <1>36
     DEF Next, NetStep, HbStep, VoiceStep, VoiceEvent, Environment

\* A call that shows itself connected has what it shows.
Shown ==
  ~late /\ vc.gateway = "live" /\ srv = "session" /\ ~Coming("READY") /\ ~Coming("RESUMED") /\ vc.state = "Connected" =>
    vc.encryption /\ vc.udp # "none" /\ keyed

\* The key the client has is lost before it can resume: an end on its way clears it.
Dropped == Ends(Path) \/ (~vc.encryption /\ ~Coming("DESCRIPTION"))

\* Between two connections, and before the handshake of the next one.
Between == npc \in {"top", "connecting", "retry", "join"} \/ (npc = "while" /\ gw.shouldReconnect) \/ srv = "open"

Resumes ==
  ~late /\ vc.gateway = "live" /\ Loop =>
    /\ vc.encryption /\ (gw.canResume \/ Coming("RESUMED")) => keyed
    /\ gw.canResume /\ Between => gw.isResuming \/ Dropped
    /\ npc \in {"check", "while"} /\ gw.running /\ ~gw.shouldReconnect => Dropped
    /\ npc = "join" /\ gw.running => gw.shouldReconnect

\* Every step keeps what a connected call shows true.
LEMMA ShownStep ==
  ASSUME Types, Owned, HelloNext, InSession, Shown, Resumes, [Next]_vars
  PROVE  Shown'
<1> USE DEF Types, Gw, Vc, Control, Owned, Wired, Unused, Stopping, DeleteLast, Joining, Loop, Shown, srvVars
<1>1. CASE Start
  BY <1>1, ComingSame DEF Start
<1>2. CASE Stop
  BY <1>2, ComingSame DEF Stop, StopFrom, Cleaned, Stopped
<1>3. CASE Destroy
  BY <1>3, ComingSame DEF Destroy
<1>4. CASE NetTop
  BY <1>4, ComingSame DEF NetTop
<1>5. CASE NetConnected
  BY <1>5, ComingSame DEF NetConnected, Post
<1>6. CASE NetRetry
  BY <1>6, ComingSame DEF NetRetry
<1>7. CASE NetLeaves
  BY <1>7, ComingSame DEF NetLeaves, Leave
<1>8. CASE NetReceives
  <2>1. wire # <<>> /\ q' = Append(q, Head(wire)) /\ wire' = Tail(wire) /\ srv' = srv /\ vc' = vc /\ vpc' = vpc /\ late' = late /\ keyed' = keyed
    BY <1>8 DEF NetReceives, Post
  <2> QED
    BY <2>1, ComingReceived
<1>9. CASE NetCloseFrame
  BY <1>9, ComingSame DEF NetCloseFrame, Leave, Post, Recoverable, CloseCode
<1>10. CASE NetCheck
  BY <1>10, ComingSame DEF NetCheck, Post, MayRetry
<1>11. CASE NetJoins
  BY <1>11, ComingSame DEF NetJoins
<1>12. CASE NetWhile
  BY <1>12, ComingSame DEF NetWhile, Fault
<1>13. CASE NetEnds
  BY <1>13, ComingSame DEF NetEnds
<1>14. CASE NetTail
  BY <1>14, ComingSame DEF NetTail
<1>15. CASE HbEnds
  BY <1>15, ComingSame DEF HbEnds
<1>16. CASE HbBeat
  BY <1>16, BeatIs, BeatInSession
<1>17. CASE JoinNetwork
  BY <1>17, ComingSame DEF JoinNetwork
<1>18. CASE JoinHeartbeat
  BY <1>18, ComingSame DEF JoinHeartbeat, Stopped, Cleaned
<1>19. CASE SpawnHeartbeat
  BY <1>19, ComingSame DEF SpawnHeartbeat
<1>20. CASE OnDelete
  <2>1. q # <<>> /\ Head(q) = "delete" /\ vc'.gateway = "gone"
    BY <1>20 DEF OnDelete, Handles
  <2> QED
    BY <2>1
<1>21. CASE OnGatewayConnected
  <2>1. Handles("connected") /\ vpc = "loop" /\ srv' = srv /\ wire' = wire /\ vc'.gateway = vc.gateway /\ (late' = late \/ late' = (late \/ Orphaned))
    BY <1>21 DEF OnGatewayConnected, Handles
  <2> SUFFICES ASSUME ~late, vc.gateway = "live", srv = "session", ~Coming("READY")', ~Coming("RESUMED")', vc'.state = "Connected"
        PROVE  vc'.encryption /\ vc'.udp # "none" /\ keyed'
    BY <2>1 DEF Shown
  <2>2. q # <<>> /\ Head(q) = "connected" /\ q' = Tail(q)
    BY <2>1 DEF Handles
  <2>3. /\ Head(q) \in {"READY", "RESUMED", "DESCRIPTION", "ACK"} /\ Coming(Head(q))
        /\ \A f : (Coming(f)' => Coming(f)) /\ (Coming(f) => f = Head(q) \/ Coming(f)')
    BY <2>1, <2>2, NextInSession
  <2>4. /\ vc.state # "Disconnected" /\ (Coming("READY") \/ Coming("RESUMED") => vc.state # "Connected")
        /\ Coming("DESCRIPTION") => vc.udp # "none"
    BY <2>1 DEF InSession
  <2> QED
    BY <2>2, <2>3
<1>22. CASE OnGatewayDisconnected
  <2>1. Handles("disconnected") /\ vpc = "loop" /\ srv' = srv /\ wire' = wire /\ vc'.gateway = vc.gateway /\ (late' = late \/ late' = (late \/ Orphaned))
    BY <1>22 DEF OnGatewayDisconnected, Handles, Cleaned
  <2> SUFFICES ASSUME ~late, vc.gateway = "live", srv = "session", ~Coming("READY")', ~Coming("RESUMED")', vc'.state = "Connected"
        PROVE  vc'.encryption /\ vc'.udp # "none" /\ keyed'
    BY <2>1 DEF Shown
  <2>2. q # <<>> /\ Head(q) = "disconnected" /\ q' = Tail(q)
    BY <2>1 DEF Handles
  <2>3. /\ Head(q) \in {"READY", "RESUMED", "DESCRIPTION", "ACK"} /\ Coming(Head(q))
        /\ \A f : (Coming(f)' => Coming(f)) /\ (Coming(f) => f = Head(q) \/ Coming(f)')
    BY <2>1, <2>2, NextInSession
  <2>4. /\ vc.state # "Disconnected" /\ (Coming("READY") \/ Coming("RESUMED") => vc.state # "Connected")
        /\ Coming("DESCRIPTION") => vc.udp # "none"
    BY <2>1 DEF InSession
  <2> QED
    BY <2>2, <2>3
<1>23. CASE OnHello
  <2> SUFFICES ASSUME ~late', vc.gateway = "live", srv' = "session", ~Coming("READY")', ~Coming("RESUMED")' PROVE FALSE
    BY <1>23, HelloIs DEF Shown
  <2>1. Handles("HELLO") /\ vpc = "loop" /\ ~Orphaned /\ srv = "open" /\ \E e \in Answer : wire' = Append(wire, e)
    BY <1>23, HelloIs DEF Answer
  <2>2. q # <<>> /\ Head(q) = "HELLO" /\ q' = Tail(q)
    BY <2>1 DEF Handles
  <2>3. PICK e \in Answer : wire' = Append(wire, e)
    BY <2>1
  <2>4. Coming(e)'
    BY <2>1, <2>2, <2>3, OnTime
  <2> QED
    BY <2>4 DEF Answer
<1>24. CASE OnReady
  <2>1. Handles("READY") /\ vpc = "loop" /\ srv' = srv /\ wire' = wire /\ vc'.gateway = vc.gateway /\ (late' = late \/ late' = (late \/ Orphaned))
    BY <1>24, ReadyIs
  <2> SUFFICES ASSUME ~late, vc.gateway = "live", srv = "session", ~Coming("READY")', ~Coming("RESUMED")', vc'.state = "Connected"
        PROVE  vc'.encryption /\ vc'.udp # "none" /\ keyed'
    BY <2>1 DEF Shown
  <2>2. q # <<>> /\ Head(q) = "READY" /\ q' = Tail(q)
    BY <2>1 DEF Handles
  <2>3. /\ Head(q) \in {"READY", "RESUMED", "DESCRIPTION", "ACK"} /\ Coming(Head(q))
        /\ \A f : (Coming(f)' => Coming(f)) /\ (Coming(f) => f = Head(q) \/ Coming(f)')
    BY <2>1, <2>2, NextInSession
  <2>4. /\ vc.state # "Disconnected" /\ (Coming("READY") \/ Coming("RESUMED") => vc.state # "Connected")
        /\ Coming("DESCRIPTION") => vc.udp # "none"
    BY <2>1 DEF InSession
  <2>5. vc.state # "Connected" /\ vc'.state \in {vc.state, "DiscoveringIP", "Disconnected"}
    BY <1>24, <2>2, <2>3, <2>4, ReadyIs
  <2> QED
    BY <2>5
<1>25. CASE OnResumed
  <2>1. Handles("RESUMED") /\ vpc = "loop" /\ srv' = srv /\ wire' = wire /\ vc'.gateway = vc.gateway /\ (late' = late \/ late' = (late \/ Orphaned))
    BY <1>25, ResumedIs
  <2> SUFFICES ASSUME ~late, vc.gateway = "live", srv = "session", ~Coming("READY")', ~Coming("RESUMED")', vc'.state = "Connected"
        PROVE  vc'.encryption /\ vc'.udp # "none" /\ keyed'
    BY <2>1 DEF Shown
  <2>2. q # <<>> /\ Head(q) = "RESUMED" /\ q' = Tail(q)
    BY <2>1 DEF Handles
  <2>3. /\ Head(q) \in {"READY", "RESUMED", "DESCRIPTION", "ACK"} /\ Coming(Head(q))
        /\ \A f : (Coming(f)' => Coming(f)) /\ (Coming(f) => f = Head(q) \/ Coming(f)')
    BY <2>1, <2>2, NextInSession
  <2>4. /\ vc.state # "Disconnected" /\ (Coming("READY") \/ Coming("RESUMED") => vc.state # "Connected")
        /\ Coming("DESCRIPTION") => vc.udp # "none"
    BY <2>1 DEF InSession
  <2>5. vc.state # "Connected"
    BY <2>2, <2>3, <2>4
  <2>6. vc'.udp # "none" /\ vc'.encryption /\ vc.encryption /\ keyed' = keyed
    BY <1>25, <2>5, ResumedIs
  <2>7. keyed
    BY <2>1, <2>2, <2>3, <2>6 DEF Resumes
  <2> QED
    BY <2>6, <2>7
<1>26. CASE OnSessionDescription
  <2>1. Handles("DESCRIPTION") /\ vpc = "loop" /\ srv' = srv /\ wire' = wire /\ vc'.gateway = vc.gateway /\ (late' = late \/ late' = (late \/ Orphaned))
    BY <1>26 DEF OnSessionDescription, Handles
  <2> SUFFICES ASSUME ~late, vc.gateway = "live", srv = "session", ~Coming("READY")', ~Coming("RESUMED")', vc'.state = "Connected"
        PROVE  vc'.encryption /\ vc'.udp # "none" /\ keyed'
    BY <2>1 DEF Shown
  <2>2. q # <<>> /\ Head(q) = "DESCRIPTION" /\ q' = Tail(q)
    BY <2>1 DEF Handles
  <2>3. /\ Head(q) \in {"READY", "RESUMED", "DESCRIPTION", "ACK"} /\ Coming(Head(q))
        /\ \A f : (Coming(f)' => Coming(f)) /\ (Coming(f) => f = Head(q) \/ Coming(f)')
    BY <2>1, <2>2, NextInSession
  <2>4. /\ vc.state # "Disconnected" /\ (Coming("READY") \/ Coming("RESUMED") => vc.state # "Connected")
        /\ Coming("DESCRIPTION") => vc.udp # "none"
    BY <2>1 DEF InSession
  <2>5. vc'.encryption /\ vc'.udp = vc.udp /\ keyed'
    BY <1>26 DEF OnSessionDescription
  <2> QED
    BY <2>2, <2>3, <2>4, <2>5
<1>27. CASE OnAck
  <2>1. Handles("ACK") /\ vpc = "loop" /\ srv' = srv /\ wire' = wire /\ vc'.gateway = vc.gateway /\ (late' = late \/ late' = (late \/ Orphaned))
    BY <1>27 DEF OnAck, Handles
  <2> SUFFICES ASSUME ~late, vc.gateway = "live", srv = "session", ~Coming("READY")', ~Coming("RESUMED")', vc'.state = "Connected"
        PROVE  vc'.encryption /\ vc'.udp # "none" /\ keyed'
    BY <2>1 DEF Shown
  <2>2. q # <<>> /\ Head(q) = "ACK" /\ q' = Tail(q)
    BY <2>1 DEF Handles
  <2>3. /\ Head(q) \in {"READY", "RESUMED", "DESCRIPTION", "ACK"} /\ Coming(Head(q))
        /\ \A f : (Coming(f)' => Coming(f)) /\ (Coming(f) => f = Head(q) \/ Coming(f)')
    BY <2>1, <2>2, NextInSession
  <2>4. /\ vc.state # "Disconnected" /\ (Coming("READY") \/ Coming("RESUMED") => vc.state # "Connected")
        /\ Coming("DESCRIPTION") => vc.udp # "none"
    BY <2>1 DEF InSession
  <2>5. vc' = vc /\ keyed' = keyed
    BY <1>27 DEF OnAck
  <2> QED
    BY <2>2, <2>3, <2>5
<1>28. CASE OnIpDiscovered
  <2>1. CASE wire' = wire /\ srv' = srv
    BY <1>28, <2>1, DiscoveredIs, ComingSame
  <2>2. CASE ~(wire' = wire /\ srv' = srv)
    <3>1. srv' # "session" \/ vc'.state = "WaitingForSession"
      BY <1>28, <2>2, DiscoveredIs
    <3> QED
      BY <3>1
  <2> QED
    BY <2>1, <2>2
<1>29. CASE OnIpDiscoveryFailed
  BY <1>29, ComingSame, ZenonT(60) DEF OnIpDiscoveryFailed, StopFrom, Cleaned, Stopped, Fault
<1>30. CASE SrvCloses
  BY <1>30, ComingSame DEF SrvCloses, Fault, Closes, Frames
<1>31. CASE SrvFallsSilent
  BY <1>31, ComingSame DEF SrvFallsSilent, Fault
<1>32. CASE SrvForgets
  BY <1>32, ComingSame DEF SrvForgets, Fault
<1>33. CASE NetCut
  BY <1>33, ComingSame DEF NetCut, Fault, Leave
<1>34. CASE NetConnectFails
  BY <1>34, ComingSame DEF NetConnectFails, MayRetry, Post
<1>35. CASE Over
  BY <1>35, ComingSame DEF Over, vars
<1>36. CASE UNCHANGED vars
  BY <1>36, ComingSame DEF vars
<1> QED
  BY <1>1, <1>2, <1>3, <1>4, <1>5, <1>6, <1>7, <1>8, <1>9, <1>10, <1>11, <1>12, <1>13, <1>14, <1>15, <1>16, <1>17, <1>18, <1>19, <1>20, <1>21, <1>22, <1>23, <1>24, <1>25, <1>26, <1>27, <1>28, <1>29, <1>30, <1>31, <1>32, <1>33, <1>34, <1>35, <1>36
     DEF Next, NetStep, HbStep, VoiceStep, VoiceEvent, Environment

KeyHeld == ~late /\ vc.gateway = "live" /\ Loop /\ vc.encryption /\ (gw.canResume \/ Coming("RESUMED")) => keyed

Resuming == ~late /\ vc.gateway = "live" /\ Loop /\ gw.canResume /\ Between => gw.isResuming \/ Dropped

Falling ==
  ~late /\ vc.gateway = "live" /\ Loop =>
    /\ npc \in {"check", "while"} /\ gw.running /\ ~gw.shouldReconnect => Dropped
    /\ npc = "join" /\ gw.running => gw.shouldReconnect

\* The three parts of Resumes, each with its own reason.
LEMMA ResumesParts == Resumes <=> KeyHeld /\ Resuming /\ Falling
BY DEF Resumes, KeyHeld, Resuming, Falling

\* An event handled on time is one of the connection, and the handshake is made.
LEMMA OnTimeEvent ==
  ASSUME Types, HelloNext, vc.gateway = "live", Loop, q # <<>>, Head(q) # "HELLO", ~Orphaned
  PROVE  srv \notin {"none", "open"}
<1>1. srv # "none" /\ \A i \in 1..Len(Tail(Path)) : Tail(Path)[i] # "HELLO"
  BY OrphanedIs DEF Types
<1>2. Path \in Seq(Item) /\ Path # <<>> /\ Path[1] # "HELLO"
  <2>1. Path \in Seq(Item)
    BY PathIs DEF Types
  <2>2. Path # <<>> /\ Head(q) = Path[1]
    <3>1. q \in Seq(Item) /\ wire \in Seq(Item)
      BY PathIs DEF Types
    <3> QED
      BY <3>1 DEF Path
  <2> QED
    BY <2>1, <2>2
<1>3. ASSUME srv = "open" PROVE FALSE
  <2>1. PICK i \in 1..Len(Path) : Path[i] = "HELLO"
    BY <1>3 DEF HelloNext, Awaits
  <2> DEFINE t == Tail(Path)
  <2>2. /\ Len(t) = Len(Path) - 1 /\ Len(Path) \in Nat
        /\ \A k \in 1..Len(Path) - 1 : t[k] = Path[k + 1]
    BY <1>2, TailIs
  <2>3. \A k \in 1..Len(t) : t[k] # "HELLO"
    BY <1>1
  <2> HIDE DEF t
  <2>4. i # 1
    BY <1>2, <2>1
  <2>5. i - 1 \in 1..Len(t) /\ (i - 1) + 1 = i
    BY <2>2, <2>4
  <2> QED
    BY <2>1, <2>2, <2>3, <2>5
<1> QED
  BY <1>1, <1>3

\* An event handled leaves the key dropped, unless it is a description.
LEMMA DroppedTaken ==
  ASSUME Types, Dropped, NEW e, Handles(e), wire' = wire,
         e = "disconnected" => ~vc'.encryption, vc'.encryption => vc.encryption \/ e = "DESCRIPTION"
  PROVE  Dropped'
<1>1. q # <<>> /\ Head(q) = e /\ q' = Tail(q)
  BY DEF Handles
<1>2. Path \in Seq(Item) /\ Path # <<>> /\ Path[1] = e /\ Path' = Tail(Path)
  BY <1>1, PathIs, PathTaken DEF Types
<1>3. \A f : (Coming(f)' => Coming(f)) /\ (Coming(f) => f = e \/ Coming(f)')
  BY <1>1, ComingTaken DEF Types
<1>4. CASE Ends(Path)
  <2>1. \/ Ends(Tail(Path))
        \/ Path[1] = "disconnected" /\ \A i \in 1..Len(Tail(Path)) : Tail(Path)[i] # "DESCRIPTION"
    BY <1>2, <1>4, EndsTail
  <2>2. (\A i \in 1..Len(Path') : Path'[i] # "DESCRIPTION") => ~Coming("DESCRIPTION")'
    BY DEF Coming
  <2> QED
    BY <1>2, <2>1, <2>2 DEF Dropped
<1>5. CASE ~vc.encryption /\ ~Coming("DESCRIPTION")
  <2>1. e # "DESCRIPTION"
    <3>1. 1 \in 1..Len(Path)
      BY <1>2, TailIs
    <3> QED
      BY <1>2, <1>5, <3>1 DEF Coming
  <2> QED
    BY <1>3, <1>5, <2>1 DEF Dropped
<1> QED
  BY <1>4, <1>5 DEF Dropped

\* A new connection, or the end reported, behind what is queued already.
LEMMA DroppedPosted ==
  ASSUME Types, wire = <<>>
  PROVE  /\ Dropped /\ q' = Append(q, "connected") /\ wire' = <<"HELLO">> /\ vc' = vc => Dropped'
         /\ q' = Append(q, "disconnected") /\ wire' = <<>> => Dropped'
<1>1. q \in Seq(Item) /\ Path = q /\ {"connected", "HELLO", "disconnected"} \subseteq Item
  BY PathIs, Items DEF Types
<1>2. ASSUME q' = Append(q, "disconnected"), wire' = <<>> PROVE Dropped'
  <2>1. q' \in Seq(Item)
    BY <1>1, <1>2, AppendIs
  <2>2. Path' = q'
    BY <1>2, <2>1 DEF Path
  <2>3. Ends(Append(q, "disconnected"))
    <3>1. "disconnected" # "DESCRIPTION"
      OBVIOUS
    <3> QED
      BY <1>1, <3>1, EndsAppended
  <2> QED
    BY <1>2, <2>2, <2>3 DEF Dropped
<1>3. ASSUME Dropped, q' = Append(q, "connected"), wire' = <<"HELLO">>, vc' = vc PROVE Dropped'
  <2> DEFINE t == Append(q, "connected")
             u == Append(t, "HELLO")
  <2>1. t \in Seq(Item) /\ Len(t) = Len(q) + 1 /\ Len(q) \in Nat /\ t[Len(q) + 1] = "connected" /\ \A i \in 1..Len(q) : t[i] = q[i]
    BY <1>1, AppendIs
  <2>2. Path' = u
    BY <1>1, <1>3, <2>1, AppendIsConcat DEF Path
  <2>3. Ends(q) => Ends(t)
    BY <1>1, EndsAppended
  <2> HIDE DEF t
  <2>4. Ends(t) => Ends(u)
    BY <1>1, <2>1, EndsAppended
  <2>5. Len(u) = Len(t) + 1 /\ u[Len(t) + 1] = "HELLO" /\ \A i \in 1..Len(t) : u[i] = t[i]
    BY <1>1, <2>1, AppendIs
  <2> HIDE DEF u
  <2>6. \A i \in 1..Len(u) : i = Len(t) + 1 \/ (i \in 1..Len(t) /\ (i = Len(q) + 1 \/ i \in 1..Len(q)))
    BY <2>1, <2>5
  <2>7. (\A i \in 1..Len(q) : q[i] # "DESCRIPTION") => \A i \in 1..Len(u) : u[i] # "DESCRIPTION"
    BY <2>1, <2>5, <2>6
  <2>8. ~Coming("DESCRIPTION") => ~Coming("DESCRIPTION")'
    BY <1>1, <2>2, <2>7 DEF Coming
  <2> QED
    BY <1>1, <1>3, <2>2, <2>3, <2>4, <2>8 DEF Dropped
<1> QED
  BY <1>2, <1>3

\* The key stays dropped while nothing moves.
LEMMA DroppedSame ==
  ASSUME q' = q, wire' = wire, vc'.encryption => vc.encryption, Dropped
  PROVE  Dropped'
BY ComingSame DEF Dropped

\* What is under way when a connection is left, given up or made.
LEMMA ComingLeft ==
  ASSUME Queues
  PROVE  /\ q' = q /\ wire' = <<>> => \A e : Coming(e)' => Coming(e)
         /\ wire' = <<>> => \A f \in {"connected", "disconnected"} : q' = Append(q, f) => \A e : Coming(e)' => Coming(e) \/ e = f
         /\ q' = Append(q, "connected") /\ wire' = <<"HELLO">> => \A e : Coming(e)' => Coming(e) \/ e \in {"connected", "HELLO"}
         /\ q' = q /\ wire' = <<"HELLO">> => \A e : Coming(e)' => Coming(e) \/ e = "HELLO"
<1>1. q \in Seq(Item) /\ {"connected", "disconnected", "HELLO"} \subseteq Item
  BY PathIs, Items
<1>2. \A e : (\E i \in 1..Len(q) : q[i] = e) => Coming(e)
  <2>1. Len(Path) \in Nat /\ Len(q) <= Len(Path) /\ (\A i \in 1..Len(q) : Path[i] = q[i])
    BY PathIs
  <2>2. \A i \in 1..Len(q) : i \in 1..Len(Path) /\ Path[i] = q[i]
    BY <1>1, <2>1
  <2> QED
    BY <2>2 DEF Coming
<1>3. ASSUME NEW s \in Seq(Item), NEW f \in Item PROVE \A e : (\E i \in 1..Len(Append(s, f)) : Append(s, f)[i] = e) => (\E i \in 1..Len(s) : s[i] = e) \/ e = f
  <2> DEFINE t == Append(s, f)
  <2>1. /\ Len(t) = Len(s) + 1 /\ Len(s) \in Nat /\ t[Len(s) + 1] = f
        /\ \A i \in 1..Len(s) : t[i] = s[i]
    BY AppendIs
  <2> HIDE DEF t
  <2>2. \A i \in 1..Len(t) : i = Len(s) + 1 \/ i \in 1..Len(s)
    BY <2>1
  <2>3. \A e : (\E i \in 1..Len(t) : t[i] = e) => (\E i \in 1..Len(s) : s[i] = e) \/ e = f
    BY <2>1, <2>2
  <2> QED
    BY <2>3 DEF t
<1>4. \A f \in Item : Append(q, f) \in Seq(Item) /\ Append(q, f) \o <<>> = Append(q, f) /\ q \o <<>> = q
  BY <1>1
<1>5. \A f \in Item : Append(q, f) \o <<"HELLO">> = Append(Append(q, f), "HELLO") /\ q \o <<"HELLO">> = Append(q, "HELLO")
  BY <1>1, <1>4, AppendIsConcat
<1>6. q' = q /\ wire' = <<>> => \A e : Coming(e)' => Coming(e)
  BY <1>2, <1>1, <1>4 DEF Coming, Path
<1>7. ASSUME wire' = <<>>, NEW f \in {"connected", "disconnected"}, q' = Append(q, f) PROVE \A e : Coming(e)' => Coming(e) \/ e = f
  <2>1. Path' = Append(q, f) /\ f \in Item
    BY <1>1, <1>4, <1>7 DEF Path
  <2>2. \A e : (\E i \in 1..Len(Append(q, f)) : Append(q, f)[i] = e) => (\E i \in 1..Len(q) : q[i] = e) \/ e = f
    BY <1>1, <1>3, <2>1
  <2>3. \A e : Coming(e)' => (\E i \in 1..Len(q) : q[i] = e) \/ e = f
    BY <2>1, <2>2 DEF Coming
  <2> QED
    BY <1>2, <2>3
<1>8. ASSUME q' = Append(q, "connected"), wire' = <<"HELLO">> PROVE \A e : Coming(e)' => Coming(e) \/ e \in {"connected", "HELLO"}
  <2> DEFINE t == Append(q, "connected")
  <2>1. Path' = Append(t, "HELLO") /\ t \in Seq(Item)
    BY <1>1, <1>4, <1>5, <1>8 DEF Path
  <2>2. \A e : (\E i \in 1..Len(t) : t[i] = e) => (\E i \in 1..Len(q) : q[i] = e) \/ e = "connected"
    BY <1>1, <1>3
  <2> HIDE DEF t
  <2>3. \A e : (\E i \in 1..Len(Append(t, "HELLO")) : Append(t, "HELLO")[i] = e) => (\E i \in 1..Len(t) : t[i] = e) \/ e = "HELLO"
    BY <1>1, <1>3, <2>1
  <2>4. \A e : Coming(e)' => (\E i \in 1..Len(t) : t[i] = e) \/ e = "HELLO"
    BY <2>1, <2>3 DEF Coming
  <2> QED
    BY <1>2, <2>2, <2>4
<1>9. ASSUME q' = q, wire' = <<"HELLO">> PROVE \A e : Coming(e)' => Coming(e) \/ e = "HELLO"
  <2>1. Path' = Append(q, "HELLO")
    BY <1>1, <1>5, <1>9 DEF Path
  <2>2. \A e : (\E i \in 1..Len(Append(q, "HELLO")) : Append(q, "HELLO")[i] = e) => (\E i \in 1..Len(q) : q[i] = e) \/ e = "HELLO"
    BY <1>1, <1>3
  <2>3. \A e : Coming(e)' => (\E i \in 1..Len(q) : q[i] = e) \/ e = "HELLO"
    BY <2>1, <2>2 DEF Coming
  <2> QED
    BY <1>2, <2>3
<1> QED
  BY <1>6, <1>7, <1>8, <1>9

\* The key of a client that may resume is always that of the session.
LEMMA KeyHeldStep ==
  ASSUME Types, Owned, HelloNext, KeyHeld, Resuming, [Next]_vars
  PROVE  KeyHeld'
<1> USE DEF Types, Gw, Vc, Control, Owned, Wired, Unused, Stopping, DeleteLast, Joining, Loop, KeyHeld, srvVars
<1>1. CASE Start
  BY <1>1, ComingSame DEF Start
<1>2. CASE Stop
  BY <1>2, ComingSame DEF Stop, StopFrom, Cleaned, Stopped
<1>3. CASE Destroy
  BY <1>3, ComingSame DEF Destroy
<1>4. CASE NetTop
  BY <1>4, ComingSame DEF NetTop
<1>5. CASE NetConnected
  <2>1. Coming("RESUMED")' => Coming("RESUMED")
    BY <1>5, ComingLeft, ComingSame DEF NetConnected, Post
  <2> QED
    BY <1>5, <2>1 DEF NetConnected, Post
<1>6. CASE NetRetry
  BY <1>6, ComingSame DEF NetRetry
<1>7. CASE NetLeaves
  <2>1. Coming("RESUMED")' => Coming("RESUMED")
    BY <1>7, ComingLeft DEF NetLeaves, Leave
  <2> QED
    BY <1>7, <2>1 DEF NetLeaves, Leave
<1>8. CASE NetReceives
  <2>1. /\ wire # <<>> /\ q' = Append(q, Head(wire)) /\ wire' = Tail(wire) /\ vc' = vc /\ vpc' = vpc /\ late' = late /\ keyed' = keyed
        /\ gw' = gw
    BY <1>8 DEF NetReceives, Post
  <2> QED
    BY <2>1, ComingReceived
<1>9. CASE NetCloseFrame
  <2>1. Coming("RESUMED")' => Coming("RESUMED")
    BY <1>9, ComingLeft, ComingSame DEF NetCloseFrame, Leave, Post, Recoverable, CloseCode
  <2> QED
    BY <1>9, <2>1 DEF NetCloseFrame, Leave, Post, Recoverable, CloseCode
<1>10. CASE NetCheck
  <2>1. Coming("RESUMED")' => Coming("RESUMED")
    BY <1>10, ComingLeft, ComingSame DEF NetCheck, Post, MayRetry
  <2> QED
    BY <1>10, <2>1 DEF NetCheck, Post, MayRetry
<1>11. CASE NetJoins
  BY <1>11, ComingSame DEF NetJoins
<1>12. CASE NetWhile
  BY <1>12, ComingSame DEF NetWhile, Fault
<1>13. CASE NetEnds
  BY <1>13, ComingSame DEF NetEnds
<1>14. CASE NetTail
  BY <1>14, ComingSame DEF NetTail
<1>15. CASE HbEnds
  BY <1>15, ComingSame DEF HbEnds
<1>16. CASE HbBeat
  BY <1>16, BeatIs, BeatInSession
<1>17. CASE JoinNetwork
  BY <1>17, ComingSame DEF JoinNetwork
<1>18. CASE JoinHeartbeat
  BY <1>18, ComingSame DEF JoinHeartbeat, Stopped, Cleaned
<1>19. CASE SpawnHeartbeat
  BY <1>19, ComingSame DEF SpawnHeartbeat
<1>20. CASE OnDelete
  <2>1. q # <<>> /\ Head(q) = "delete" /\ vc'.gateway = "gone"
    BY <1>20 DEF OnDelete, Handles
  <2> QED
    BY <2>1
<1>21. CASE OnGatewayConnected
  <2>1. /\ Handles("connected") /\ wire' = wire /\ vc'.encryption = vc.encryption /\ vc'.gateway = vc.gateway /\ vpc' = vpc
        /\ late' = late /\ keyed' = keyed /\ gw' = gw
    BY <1>21 DEF OnGatewayConnected, Handles
  <2> QED
    BY <2>1, ComingTaken DEF Handles
<1>22. CASE OnGatewayDisconnected
  <2>1. ~vc'.encryption
    BY <1>22 DEF OnGatewayDisconnected, Cleaned
  <2> QED
    BY <2>1
<1>23. CASE OnHello
  <2> SUFFICES ASSUME ~late', vc.gateway = "live", vc.encryption, gw.canResume \/ Coming("RESUMED")' PROVE keyed'
    BY <1>23, HelloIs DEF KeyHeld
  <2>1. Handles("HELLO") /\ vpc = "loop" /\ ~late /\ ~Orphaned
    BY <1>23, HelloIs
  <2>2. q # <<>> /\ Head(q) = "HELLO" /\ q' = Tail(q)
    BY <2>1 DEF Handles
  <2>3. CASE gw.isResuming /\ gw.canResume /\ srv = "open" /\ keyed' = keyed
    BY <2>1, <2>3
  <2>4. CASE ~(gw.isResuming /\ gw.canResume) /\ srv = "open" /\ wire' = Append(wire, "READY")
    <3>1. "READY" \in Answer
      BY DEF Answer
    <3>2. (\A i \in 1..Len(Path) : Path[i] \in {"HELLO", "ACK"}) /\ \A f : Coming(f)' => f \in {"ACK", "READY"}
      BY <2>1, <2>2, <2>4, <3>1, OnTime
    <3>3. gw.canResume
      BY <3>2
    <3>4. Dropped
      BY <2>1, <2>4, <3>3 DEF Resuming, Between
    <3>5. ~Ends(Path)
      BY <3>2 DEF Ends
    <3> QED
      BY <3>4, <3>5 DEF Dropped
  <2>5. CASE keyed' = keyed /\ (wire' = wire \/ \E f \in {"invalid", "other"} : wire' = Append(wire, f))
    <3>1. Coming("RESUMED")' => Coming("RESUMED")
      <4>1. CASE wire' = wire
        BY <2>2, <4>1, ComingTaken
      <4>2. ASSUME NEW f \in {"invalid", "other"}, wire' = Append(wire, f) PROVE Coming("RESUMED")' => Coming("RESUMED")
        <5>1. f \in WItem /\ f # "RESUMED"
          BY Items
        <5> QED
          BY <2>2, <4>2, <5>1, ComingAnswered
      <4> QED
        BY <2>5, <4>1, <4>2
    <3> QED
      BY <2>1, <2>5, <3>1
  <2> QED
    BY <1>23, <2>3, <2>4, <2>5, HelloIs
<1>24. CASE OnReady
  BY <1>24, ReadyIs
<1>25. CASE OnResumed
  <2>1. Handles("RESUMED") /\ vpc = "loop" /\ keyed' = keyed /\ (vc'.encryption => vc.encryption) /\ vc'.gateway = vc.gateway /\ (late => late')
    BY <1>25, ResumedIs
  <2>2. Coming("RESUMED")
    <3>1. q # <<>> /\ Head(q) = "RESUMED"
      BY <2>1 DEF Handles
    <3>2. q \in Seq(Item) /\ wire \in Seq(Item)
      BY PathIs
    <3>3. Path \in Seq(Item) /\ Path # <<>> /\ Path[1] = "RESUMED"
      BY <3>1, <3>2 DEF Path
    <3>4. 1 \in 1..Len(Path)
      BY <3>3, TailIs
    <3> QED
      BY <3>3, <3>4 DEF Coming
  <2> QED
    BY <2>1, <2>2
<1>26. CASE OnSessionDescription
  BY <1>26 DEF OnSessionDescription
<1>27. CASE OnAck
  <2>1. /\ Handles("ACK") /\ wire' = wire /\ vc' = vc /\ vpc' = vpc
        /\ late' = late /\ keyed' = keyed /\ gw'.canResume = gw.canResume
    BY <1>27 DEF OnAck, Handles
  <2> QED
    BY <2>1, ComingTaken DEF Handles
<1>28. CASE OnIpDiscovered
  <2>1. /\ vpc = "loop" /\ gw' = gw /\ q' = q /\ late' = late /\ keyed' = keyed /\ vc'.gateway = vc.gateway /\ vc'.encryption = vc.encryption
        /\ wire' = wire \/ \E f \in {"DESCRIPTION", "other"} : wire' = Append(wire, f)
    BY <1>28, DiscoveredIs
  <2>2. Coming("RESUMED")' => Coming("RESUMED")
    <3>1. CASE wire' = wire
      BY <2>1, <3>1, ComingSame
    <3>2. ASSUME NEW f \in {"DESCRIPTION", "other"}, wire' = Append(wire, f) PROVE Coming("RESUMED")' => Coming("RESUMED")
      <4>1. f \in WItem /\ f # "RESUMED"
        BY Items
      <4> QED
        BY <2>1, <3>2, <4>1, ComingSent
    <3> QED
      BY <2>1, <3>1, <3>2
  <2> QED
    BY <2>1, <2>2
<1>29. CASE OnIpDiscoveryFailed
  BY <1>29, ComingSame DEF OnIpDiscoveryFailed, StopFrom, Cleaned, Stopped, Fault
<1>30. CASE SrvCloses
  <2>1. PICK f \in CloseCode : wire' = Append(wire, f)
    BY <1>30 DEF SrvCloses, Closes, Frames, CloseCode
  <2>2. q' = q /\ gw' = gw /\ late' = late /\ vc' = vc /\ vpc' = vpc /\ keyed' = keyed
    BY <1>30 DEF SrvCloses, Closes, Frames
  <2>3. f \in WItem /\ f # "RESUMED"
    BY <2>1, Items
  <2> QED
    BY <2>1, <2>2, <2>3, ComingSent
<1>31. CASE SrvFallsSilent
  <2>1. Coming("RESUMED")' => Coming("RESUMED")
    BY <1>31, ComingLeft DEF SrvFallsSilent, Fault
  <2> QED
    BY <1>31, <2>1 DEF SrvFallsSilent, Fault
<1>32. CASE SrvForgets
  BY <1>32, ComingSame DEF SrvForgets, Fault
<1>33. CASE NetCut
  <2>1. Coming("RESUMED")' => Coming("RESUMED")
    BY <1>33, ComingLeft DEF NetCut, Fault, Leave
  <2> QED
    BY <1>33, <2>1 DEF NetCut, Fault, Leave
<1>34. CASE NetConnectFails
  <2>1. Coming("RESUMED")' => Coming("RESUMED")
    BY <1>34, ComingLeft, ComingSame DEF NetConnectFails, MayRetry, Post
  <2> QED
    BY <1>34, <2>1 DEF NetConnectFails, MayRetry, Post
<1>35. CASE Over
  BY <1>35, ComingSame DEF Over, vars
<1>36. CASE UNCHANGED vars
  BY <1>36, ComingSame DEF vars
<1> QED
  BY <1>1, <1>2, <1>3, <1>4, <1>5, <1>6, <1>7, <1>8, <1>9, <1>10, <1>11, <1>12, <1>13, <1>14, <1>15, <1>16, <1>17, <1>18, <1>19, <1>20, <1>21, <1>22, <1>23, <1>24, <1>25, <1>26, <1>27, <1>28, <1>29, <1>30, <1>31, <1>32, <1>33, <1>34, <1>35, <1>36
     DEF Next, NetStep, HbStep, VoiceStep, VoiceEvent, Environment

\* A client that may resume does, or has lost its key.
LEMMA ResumingStep ==
  ASSUME Types, Owned, HelloNext, Resuming, Falling, [Next]_vars
  PROVE  Resuming' /\ Falling'
<1> USE DEF Types, Gw, Vc, Control, Owned, Wired, Unused, Stopping, DeleteLast, Joining, Loop, Resuming, Falling, Between, srvVars
<1>1. CASE Start
  BY <1>1, DroppedSame DEF Start
<1>2. CASE Stop
  BY <1>2, DroppedSame DEF Stop, StopFrom, Cleaned, Stopped
<1>3. CASE Destroy
  BY <1>3, DroppedSame DEF Destroy
<1>4. CASE NetTop
  BY <1>4, DroppedSame DEF NetTop
<1>5. CASE NetConnected
  <2>1. /\ npc = "connecting" /\ npc' = "recv" /\ vc' = vc /\ vpc' = vpc /\ late' = late /\ gw' = gw /\ wire' = <<"HELLO">>
        /\ (gw.running => q' = Append(q, "connected"))
    BY <1>5 DEF NetConnected, Post
  <2>2. gw.running /\ Dropped => Dropped'
    BY <2>1, DroppedPosted
  <2> QED
    BY <2>1, <2>2
<1>6. CASE NetRetry
  BY <1>6, DroppedSame DEF NetRetry
<1>7. CASE NetLeaves
  BY <1>7, DroppedSame DEF NetLeaves, Leave
<1>8. CASE NetReceives
  <2>1. /\ npc = "recv" /\ npc' = npc /\ srv' = srv /\ vc' = vc /\ vpc' = vpc /\ late' = late /\ gw' = gw
        /\ wire # <<>> /\ q' = Append(q, Head(wire)) /\ wire' = Tail(wire)
    BY <1>8 DEF NetReceives, Post
  <2>2. Dropped => Dropped'
    BY <2>1, ComingReceived DEF Dropped
  <2> QED
    BY <2>1, <2>2
<1>9. CASE NetCloseFrame
  <2>1. /\ npc' = "check" /\ srv' = "none" /\ wire' = <<>> /\ vc' = vc /\ vpc' = vpc
        /\ gw'.shouldReconnect \/ q' = Append(q, "disconnected")
    BY <1>9 DEF NetCloseFrame, Leave, Post
  <2>2. q' = Append(q, "disconnected") => Dropped'
    <3> SUFFICES ASSUME q' = Append(q, "disconnected") PROVE Dropped'
      OBVIOUS
    <3>1. q \in Seq(Item) /\ "disconnected" \in Item /\ "disconnected" # "DESCRIPTION"
      BY PathIs, Items
    <3>2. Append(q, "disconnected") \in Seq(Item) /\ Ends(Append(q, "disconnected"))
      BY <3>1, EndsAppended, AppendIs
    <3>3. Append(q, "disconnected") \o <<>> = Append(q, "disconnected")
      BY <3>2
    <3> QED
      BY <2>1, <3>2, <3>3 DEF Dropped, Path
  <2> QED
    BY <2>1, <2>2
<1>10. CASE NetCheck
  BY <1>10, DroppedSame DEF NetCheck, MayRetry
<1>11. CASE NetJoins
  BY <1>11, DroppedSame DEF NetJoins
<1>12. CASE NetWhile
  BY <1>12, DroppedSame DEF NetWhile, Fault
<1>13. CASE NetEnds
  BY <1>13, DroppedSame DEF NetEnds
<1>14. CASE NetTail
  BY <1>14, DroppedSame DEF NetTail
<1>15. CASE HbEnds
  BY <1>15, DroppedSame DEF HbEnds
<1>16. CASE HbBeat
  <2>1. Dropped => Dropped'
    BY <1>16, BeatIs, BeatInSession DEF Dropped
  <2> QED
    BY <1>16, <2>1, BeatIs
<1>17. CASE JoinNetwork
  BY <1>17, DroppedSame DEF JoinNetwork
<1>18. CASE JoinHeartbeat
  BY <1>18, DroppedSame DEF JoinHeartbeat, Stopped, Cleaned
<1>19. CASE SpawnHeartbeat
  BY <1>19, DroppedSame DEF SpawnHeartbeat
<1>20. CASE OnDelete
  <2>1. q # <<>> /\ Head(q) = "delete" /\ vc'.gateway = "gone"
    BY <1>20 DEF OnDelete, Handles
  <2> QED
    BY <2>1
<1>21. CASE OnGatewayConnected
  <2>1. /\ Handles("connected") /\ vpc = "loop" /\ srv' = srv /\ wire' = wire /\ vc'.gateway = vc.gateway /\ late' = late /\ npc' = npc
        /\ gw'.canResume = gw.canResume /\ gw'.isResuming = gw.isResuming /\ gw'.running = gw.running
        /\ gw'.shouldReconnect = gw.shouldReconnect /\ vpc' = vpc
    BY <1>21 DEF OnGatewayConnected, Handles
  <2>2. Dropped => Dropped'
    BY <1>21, <2>1, DroppedTaken DEF OnGatewayConnected, Handles
  <2> QED
    BY <2>1, <2>2
<1>22. CASE OnGatewayDisconnected
  <2>1. /\ Handles("disconnected") /\ vpc = "loop" /\ srv' = srv /\ wire' = wire /\ vc'.gateway = vc.gateway /\ late' = late /\ npc' = npc
        /\ gw'.canResume = gw.canResume /\ gw'.isResuming = gw.isResuming /\ gw'.running = gw.running
        /\ gw'.shouldReconnect = gw.shouldReconnect /\ vpc' = vpc
    BY <1>22 DEF OnGatewayDisconnected, Handles, Cleaned
  <2>2. Dropped => Dropped'
    BY <1>22, <2>1, DroppedTaken DEF OnGatewayDisconnected, Handles, Cleaned
  <2> QED
    BY <2>1, <2>2
<1>23. CASE OnHello
  <2>1. vc' = vc /\ late' = (late \/ Orphaned) /\ npc' = npc /\ srv' # "open"
    BY <1>23, HelloIs
  <2>2. ~late' => srv # "none"
    BY <2>1 DEF Orphaned
  <2>3. ~late' => npc' = "recv" /\ ~Between'
    BY <2>1, <2>2
  <2> QED
    BY <2>1, <2>3
<1>24. CASE OnReady
  <2>1. /\ Handles("READY") /\ vpc = "loop" /\ vc'.gateway = vc.gateway /\ late' = (late \/ Orphaned) /\ npc' = npc /\ srv' = srv
    BY <1>24, ReadyIs
  <2>2. q # <<>> /\ Head(q) = "READY"
    BY <2>1 DEF Handles
  <2>3. vc.gateway = "live" /\ ~late' => srv \notin {"none", "open"}
    BY <2>1, <2>2, OnTimeEvent
  <2>4. vc.gateway = "live" /\ ~late' => npc' = "recv" /\ ~Between'
    BY <2>1, <2>3
  <2> QED
    BY <2>1, <2>4
<1>25. CASE OnResumed
  <2>1. /\ Handles("RESUMED") /\ vpc = "loop" /\ vc'.gateway = vc.gateway /\ late' = (late \/ Orphaned) /\ npc' = npc /\ srv' = srv
    BY <1>25, ResumedIs
  <2>2. q # <<>> /\ Head(q) = "RESUMED"
    BY <2>1 DEF Handles
  <2>3. vc.gateway = "live" /\ ~late' => srv \notin {"none", "open"}
    BY <2>1, <2>2, OnTimeEvent
  <2>4. vc.gateway = "live" /\ ~late' => npc' = "recv" /\ ~Between'
    BY <2>1, <2>3
  <2> QED
    BY <2>1, <2>4
<1>26. CASE OnSessionDescription
  <2>1. /\ Handles("DESCRIPTION") /\ vpc = "loop" /\ srv' = srv /\ wire' = wire /\ vc'.gateway = vc.gateway /\ late' = late /\ npc' = npc
        /\ gw'.canResume = gw.canResume /\ gw'.isResuming = gw.isResuming /\ gw'.running = gw.running
        /\ gw'.shouldReconnect = gw.shouldReconnect /\ vpc' = vpc
    BY <1>26 DEF OnSessionDescription, Handles
  <2>2. Dropped => Dropped'
    BY <1>26, <2>1, DroppedTaken DEF OnSessionDescription, Handles
  <2> QED
    BY <2>1, <2>2
<1>27. CASE OnAck
  <2>1. /\ Handles("ACK") /\ vpc = "loop" /\ srv' = srv /\ wire' = wire /\ vc'.gateway = vc.gateway /\ late' = late /\ npc' = npc
        /\ gw'.canResume = gw.canResume /\ gw'.isResuming = gw.isResuming /\ gw'.running = gw.running
        /\ gw'.shouldReconnect = gw.shouldReconnect /\ vpc' = vpc
    BY <1>27 DEF OnAck, Handles
  <2>2. Dropped => Dropped'
    BY <1>27, <2>1, DroppedTaken DEF OnAck, Handles
  <2> QED
    BY <2>1, <2>2
<1>28. CASE OnIpDiscovered
  <2>1. /\ gw' = gw /\ npc' = npc /\ q' = q /\ late' = late /\ vc'.gateway = vc.gateway /\ vc'.encryption = vc.encryption
        /\ vpc = "loop"
        /\ \/ srv' = srv /\ wire' = wire
           \/ srv \in {"open", "session"} /\ srv' # "open"
    BY <1>28, DiscoveredIs
  <2>2. CASE srv' = srv /\ wire' = wire
    BY <2>1, <2>2, DroppedSame
  <2>3. CASE srv \in {"open", "session"} /\ srv' # "open"
    BY <2>1, <2>3
  <2> QED
    BY <2>1, <2>2, <2>3
<1>29. CASE OnIpDiscoveryFailed
  BY <1>29, DroppedSame DEF OnIpDiscoveryFailed, StopFrom, Cleaned, Stopped, Fault
<1>30. CASE SrvCloses
  BY <1>30, DroppedSame DEF SrvCloses, Fault, Closes, Frames
<1>31. CASE SrvFallsSilent
  BY <1>31, DroppedSame DEF SrvFallsSilent, Fault
<1>32. CASE SrvForgets
  BY <1>32, DroppedSame DEF SrvForgets, Fault
<1>33. CASE NetCut
  BY <1>33, DroppedSame DEF NetCut, Fault, Leave
<1>34. CASE NetConnectFails
  <2>1. npc = "connecting" /\ vc' = vc /\ vpc' = vpc /\ late' = late /\ srv' = srv /\ wire' = wire
    BY <1>34 DEF NetConnectFails
  <2>2. CASE MayRetry
    <3>1. npc' = "retry" /\ q' = q /\ gw'.canResume = gw.canResume /\ gw'.isResuming = gw.isResuming
      BY <1>34, <2>2 DEF NetConnectFails
    <3> QED
      BY <2>1, <3>1, DroppedSame
  <2>3. CASE ~MayRetry
    BY <1>34, <2>1, <2>3 DEF NetConnectFails
  <2> QED
    BY <2>2, <2>3
<1>35. CASE Over
  BY <1>35, DroppedSame DEF Over, vars
<1>36. CASE UNCHANGED vars
  BY <1>36, DroppedSame DEF vars
<1> QED
  BY <1>1, <1>2, <1>3, <1>4, <1>5, <1>6, <1>7, <1>8, <1>9, <1>10, <1>11, <1>12, <1>13, <1>14, <1>15, <1>16, <1>17, <1>18, <1>19, <1>20, <1>21, <1>22, <1>23, <1>24, <1>25, <1>26, <1>27, <1>28, <1>29, <1>30, <1>31, <1>32, <1>33, <1>34, <1>35, <1>36
     DEF Next, NetStep, HbStep, VoiceStep, VoiceEvent, Environment

\* What holds in every state: the type invariant, the threads of the gateway and who owns
\* it, the undisturbed call, and the account of the key.
IInv == Types /\ Owned /\ Calm /\ HelloNext /\ InSession /\ Shown /\ KeyHeld /\ Resuming /\ Falling

\* The initial state.
LEMMA InitIInv == Init => IInv
<1> SUFFICES ASSUME Init PROVE IInv
  OBVIOUS
<1>1. Types
  <2>1. gw \in Gw
    BY VoiceClientAssumption DEF Init, Gw
  <2>2. vc \in Vc
    BY DEF Init, Vc, States
  <2>3. Control
    <3>1. faults \in 0..MaxFaults
      BY VoiceClientAssumption DEF Init
    <3>2. resumable \in BOOLEAN /\ keyed \in BOOLEAN /\ late \in BOOLEAN
      BY Zenon DEF Init
    <3>3. npc = "none" /\ hb = "none" /\ vpc = "loop" /\ srv = "none"
      BY DEF Init
    <3> QED
      BY <3>1, <3>2, <3>3 DEF Control
  <2>4. Queues
    BY DEF Init, Queues
  <2> QED
    BY <2>1, <2>2, <2>3, <2>4 DEF Types
<1>2. vc.gateway = "none" /\ npc = "none" /\ hb = "none" /\ q = <<>> /\ wire = <<>> /\ srv = "none" /\ vpc = "loop"
      /\ ~gw.running /\ ~gw.canResume /\ ~gw.isResuming /\ ~vc.encryption /\ vc.udp = "none"
  BY DEF Init
<1>3. Owned
  BY <1>2 DEF Owned, Unused, Wired, Stopping, DeleteLast, Joining, Loop
<1>4. Calm
  BY <1>2 DEF Calm, Fresh, Untouched, Init
<1>5. HelloNext /\ InSession /\ Shown /\ KeyHeld /\ Resuming /\ Falling
  BY <1>2 DEF HelloNext, InSession, Shown, KeyHeld, Resuming, Falling
<1> QED
  BY <1>1, <1>3, <1>4, <1>5 DEF IInv

\* Every step keeps the invariant.
LEMMA IInvStep == IInv /\ [Next]_vars => IInv'
<1> SUFFICES ASSUME IInv, [Next]_vars PROVE IInv'
  OBVIOUS
<1>1. gw \in Gw /\ vc \in Vc /\ Control /\ Queues /\ Owned
  BY DEF IInv, Types
<1>2. Types'
  BY <1>1, GwStep, VcStep, ControlStep, QueuesStep DEF Types
<1>3. Owned'
  BY <1>1, UnusedStep, WiredStep, StoppingStep, DeleteLastStep DEF Owned
<1>4. Calm' /\ HelloNext'
  BY CalmStep, HelloNextStep DEF IInv
<1>5. InSession'
  BY InSessionStep DEF IInv
<1>6. Shown'
  BY ShownStep, ResumesParts DEF IInv
<1>7. KeyHeld' /\ Resuming' /\ Falling'
  BY KeyHeldStep, ResumingStep DEF IInv
<1> QED
  BY <1>2, <1>3, <1>4, <1>5, <1>6, <1>7 DEF IInv

\* IInv is inductive, for any cap on reconnections, number of faults and length of the queue.
THEOREM ClientInvariance == Spec => []IInv
BY InitIInv, IInvStep, PTL DEF Spec

\* No thread outlives its gateway, and the threads of an undisturbed call never drop a connection
\* that is up (VoiceGateway::hardStop, heartbeatLoop), for any caps.
THEOREM ThreadsTrue == Spec => []Inv
<1>1. IInv => TypeOK
  BY TypeParts DEF IInv, Types
<1>2. IInv => NoThreadLeft
  BY DEF IInv, Owned, Stopping, Joining, NoThreadLeft
<1>3. IInv => Undisturbed
  <2> SUFFICES ASSUME IInv, faults = 0, npc = "recv" PROVE ~gw.shouldReconnect
    BY DEF Undisturbed
  <2> QED
    BY DEF IInv, Calm
<1>4. IInv => Inv
  BY <1>1, <1>2, <1>3 DEF Inv
<1> QED
  BY <1>4, ClientInvariance, PTL

\* Nothing but heartbeats under way: no answer, for one.
LEMMA QuietIs == Types /\ Quiet => ~Coming("READY") /\ ~Coming("RESUMED")
<1> SUFFICES ASSUME Types, Quiet PROVE ~Coming("READY") /\ ~Coming("RESUMED")
  OBVIOUS
<1>1. q \in Seq(Item) /\ wire \in Seq(Item) /\ Path \in Seq(Item)
  BY PathIs DEF Types
<1>2. ASSUME NEW s \in Seq(Item), WithoutAck(s) = <<>> PROVE \A i \in 1..Len(s) : s[i] = "ACK"
  <2>1. Thins(s, <<>>)
    BY <1>2, WithoutAckThins
  <2>2. Len(<<>>) = 0 /\ 1..0 = {}
    OBVIOUS
  <2> QED
    BY <2>1, <2>2 DEF Thins
<1>3. \A i \in 1..Len(q) : q[i] = "ACK"
  BY <1>1, <1>2 DEF Quiet
<1>4. \A i \in 1..Len(wire) : wire[i] = "ACK"
  BY <1>1, <1>2 DEF Quiet
<1>5. \A i \in 1..Len(q \o wire) : (i \in 1..Len(q) /\ (q \o wire)[i] = q[i]) \/ (i - Len(q) \in 1..Len(wire) /\ (q \o wire)[i] = wire[i - Len(q)])
  BY <1>1
<1>6. \A i \in 1..Len(Path) : Path[i] = "ACK"
  BY <1>3, <1>4, <1>5 DEF Path
<1> QED
  BY <1>6 DEF Coming

\* A call that shows itself connected in a quiet session has a socket and the session's key,
\* whatever was lost, resumed or begun again (VoiceClient::onGatewayResumed), for any caps.
THEOREM KeyTrue == Spec => []KeyCurrent
<1>1. IInv => KeyCurrent
  BY QuietIs DEF IInv, KeyCurrent, Shown
<1> QED
  BY <1>1, ClientInvariance, PTL

-----------------------------------------------------------------------------
(* DaveSession.                                                            *)

ReadyInGroup == dave.ready => dave.group # 0
Housed == ~dave.exists => /\ ~dave.enabled /\ ~dave.ready /\ dave.group = 0
                          /\ \A s \in Ssrcs : dec[s] = NoDec

\* A key is of the group there is and, unless CLIENT_CONNECT moved its SSRC, of the owner.
KeysOwned ==
  \A s \in Ssrcs : dec[s] \in Keys =>
    /\ dave.exists /\ dave.group # 0 /\ ssrcMap[s] # Nobody
    /\ s \notin silent => dec[s][1] = ssrcMap[s]

\* An SSRC's owner is in the call, or has left it with another SSRC.
OwnersIn == \A s \in Ssrcs \ behind : ssrcMap[s] # Nobody => ssrcMap[s] \in connected

DaveIInv == /\ DaveTypeOK /\ ReadyInGroup /\ Housed
        /\ EnabledKeyed /\ SpeakersKeyed /\ KeysOwned /\ OwnersIn /\ SameUsers

DecState == Keys \cup {NoDec, Unkeyed}
DaveState == [exists : BOOLEAN, version : Versions, pendingVersion : Versions,
              enabled : BOOLEAN, downgraded : BOOLEAN, ready : BOOLEAN,
              group : Groups, encryptor : Groups, users : SUBSET Users]

-----------------------------------------------------------------------------
\* Neither an absent decryptor nor one without a key can be mistaken for a key.
LEMMA NoKeys == NoDec \notin Keys /\ Unkeyed \notin Keys /\ NoDec # Unkeyed
  BY DaveAssumption DEF Keys

\* A ratchet is the user's key of the group, or what was there before.
LEMMA RatchetIs ==
  ASSUME NEW d \in DaveState, NEW u \in Users \cup {Nobody}, NEW old \in DecState
  PROVE  /\ Ratchet(d, u, old) \in DecState
         /\ old # NoDec => Ratchet(d, u, old) # NoDec
         /\ u # Nobody /\ d.group # 0 => Ratchet(d, u, old) = <<u, d.group>>
         /\ Ratchet(d, u, old) \in Keys => (u # Nobody /\ d.group # 0) \/ old \in Keys
         /\ u \in Users => <<u, d.group>>[1] = u
  <1>1. CASE u # Nobody /\ d.group # 0
    <2>1. <<u, d.group>> \in Keys
      BY <1>1, DaveAssumption DEF Keys, Groups, DaveState
    <2> QED BY <1>1, <2>1, NoKeys DEF Ratchet, DecState
  <1>2. CASE ~(u # Nobody /\ d.group # 0)
    BY <1>2 DEF Ratchet
  <1> QED BY <1>1, <1>2

\* A session that starts over has nothing left of its transition, group and keys.
LEMMA StartOver ==
  ASSUME NEW d \in DaveState, d.exists, d.users = connected',
         StartsOver(d), ssrcMap' \in [Ssrcs -> Users \cup {Nobody}],
         connected' \in SUBSET Users, issued' \in Groups, behind' \in SUBSET Ssrcs, OwnersIn'
  PROVE  DaveIInv'
  <1>1. /\ dave' \in DaveState
        /\ dave'.exists /\ ~dave'.enabled /\ ~dave'.ready /\ dave'.users = connected'
    <2>1. 0 \in Groups
      BY DaveAssumption DEF Groups
    <2>2. dave' = [d EXCEPT !.enabled = FALSE, !.downgraded = FALSE, !.ready = FALSE,
                            !.group = 0, !.encryptor = 0]
      BY DEF StartsOver, Reinit
    <2>3. dave' \in DaveState
      BY <2>1, <2>2 DEF DaveState
    <2> QED BY <2>2, <2>3 DEF DaveState
  <1>2. dec' = [s \in Ssrcs |-> NoDec] /\ silent' = {}
    BY DEF StartsOver, NoDecryptors
  <1>3. DaveTypeOK'
    BY <1>1, <1>2 DEF DaveTypeOK, DaveState
  <1>4. KeysOwned'
    BY <1>2, NoKeys DEF KeysOwned
  <1> QED
    BY <1>1, <1>3, <1>4 DEF DaveIInv, ReadyInGroup, Housed, EnabledKeyed, SpeakersKeyed, SameUsers

\* A transition that completes in a group leaves every decryptor with its speaker's key.
LEMMA Completion ==
  ASSUME DaveIInv, NEW d \in DaveState, d.exists, d.users = connected, d.group # 0,
         d.enabled = dave.enabled, d.downgraded = dave.downgraded,
         Completes(d), issued' \in Groups, UNCHANGED <<ssrcMap, connected, behind>>
  PROVE  DaveIInv'
  <1>1. dave' \in DaveState
    BY DEF Completes, Complete, DaveState
  <1>2. /\ dave'.exists /\ dave'.enabled /\ ~dave'.ready /\ ~dave'.downgraded
        /\ dave'.group = d.group /\ dave'.encryptor = d.group /\ dave'.users = connected
    BY DEF Completes, Complete, DaveState, DaveIInv, EnabledKeyed
  <1>3. \A s \in Ssrcs : /\ dec[s] \in DecState /\ ssrcMap[s] \in Users \cup {Nobody}
                         /\ ssrcMap'[s] = ssrcMap[s]
    BY DEF DaveIInv, DaveTypeOK, DecState
  <1>4. dec' = [s \in Ssrcs |-> IF dec[s] = NoDec THEN NoDec ELSE Ratchet(d, ssrcMap[s], dec[s])]
    BY DEF Completes, Rekeyed
  <1>5. DaveTypeOK'
    <2>1. dec' \in [Ssrcs -> DecState]
      BY <1>3, <1>4, RatchetIs DEF DecState
    <2> QED BY <1>1, <2>1 DEF DaveIInv, DaveTypeOK, DaveState, DecState, Completes
  <1>6. SpeakersKeyed'
    BY <1>2, <1>3, <1>4, RatchetIs DEF SpeakersKeyed
  <1>7. KeysOwned'
    BY <1>2, <1>3, <1>4, RatchetIs, NoKeys DEF KeysOwned, DaveIInv
  <1> QED
    BY <1>2, <1>5, <1>6, <1>7 DEF DaveIInv, ReadyInGroup, Housed, EnabledKeyed, OwnersIn, SameUsers

-----------------------------------------------------------------------------
\* The initial states, with any members known at the start.
LEMMA InitOK == DaveInit => DaveIInv
  <1> SUFFICES ASSUME DaveInit PROVE DaveIInv
    OBVIOUS
  <1>1. DaveTypeOK
    BY DaveAssumption DEF DaveInit, DaveTypeOK, NoSession, NoDecryptors, Versions, Groups
  <1> QED
    BY <1>1, NoKeys DEF DaveInit, NoSession, NoDecryptors, DaveIInv, ReadyInGroup, Housed,
       EnabledKeyed, SpeakersKeyed, KeysOwned, OwnersIn, SameUsers

\* The session's creation, its end, and a new epoch.
LEMMA LifeStep ==
  ASSUME DaveIInv
  PROVE  /\ \A v \in Versions : EnsureDaveSession(v) \/ OnPrepareEpoch(v) => DaveIInv'
         /\ CleanupTransport \/ StopCall => DaveIInv'
  <1> USE DEF DaveIInv
  <1>1. ASSUME NEW v \in Versions, Created(v), UNCHANGED <<ssrcMap, connected, issued, behind>>
        PROVE DaveIInv'
    <2> DEFINE d == [NoSession EXCEPT !.exists = TRUE, !.version = v,
                                      !.pendingVersion = v, !.users = connected]
    <2>1. d \in DaveState /\ d.exists /\ d.users = connected
      <3>1. 0 \in Groups /\ 0 \in Versions /\ connected \in SUBSET Users
        BY DaveAssumption DEF Versions, Groups, DaveTypeOK
      <3>2. NoSession \in DaveState
        BY <3>1 DEF NoSession, DaveState
      <3> QED BY <3>1, <3>2 DEF DaveState
    <2>2. StartsOver(d)
      BY <1>1 DEF Created
    <2> HIDE DEF d
    <2>3. OwnersIn' /\ behind' \in SUBSET Ssrcs
      BY <1>1 DEF OwnersIn, DaveTypeOK
    <2> QED BY <1>1, <2>1, <2>2, <2>3, StartOver DEF DaveTypeOK
  <1>2. ASSUME NEW v \in Versions, dave.exists, StartsOver([dave EXCEPT !.version = v]),
               UNCHANGED <<ssrcMap, connected, issued, behind>>
        PROVE DaveIInv'
    <2> DEFINE d == [dave EXCEPT !.version = v]
    <2>1. d \in DaveState /\ d.exists /\ d.users = connected
      BY <1>2 DEF DaveState, DaveTypeOK, SameUsers
    <2> HIDE DEF d
    <2>2. StartsOver(d)
      BY <1>2 DEF d
    <2>3. OwnersIn' /\ behind' \in SUBSET Ssrcs
      BY <1>2 DEF OwnersIn, DaveTypeOK
    <2> QED BY <1>2, <2>1, <2>2, <2>3, StartOver DEF DaveTypeOK
  <1>3. ASSUME dave' = NoSession, dec' = NoDecryptors, silent' = {},
               ssrcMap' \in [Ssrcs -> Users \cup {Nobody}], connected' \in SUBSET Users,
               issued' = issued, behind' \in SUBSET Ssrcs, OwnersIn'
        PROVE DaveIInv'
    <2>1. DaveTypeOK'
      BY <1>3, DaveAssumption DEF DaveTypeOK, NoSession, NoDecryptors, Versions, Groups
    <2> QED
      BY <1>3, <2>1, NoKeys DEF NoSession, NoDecryptors, ReadyInGroup, Housed,
         EnabledKeyed, SpeakersKeyed, KeysOwned, SameUsers
  <1>4. CleanupTransport => DaveIInv'
    BY <1>3 DEF CleanupTransport, DaveTypeOK, OwnersIn
  <1>5. StopCall => DaveIInv'
    BY <1>3 DEF StopCall, OwnersIn
  <1>6. \A v \in Versions : EnsureDaveSession(v) \/ OnPrepareEpoch(v) => DaveIInv'
    BY <1>1, <1>2 DEF EnsureDaveSession, OnPrepareEpoch
  <1> QED BY <1>4, <1>5, <1>6

\* Who joins is known to the session at once; nothing else of it changes.
LEMMA Join ==
  ASSUME DaveIInv, NEW u \in Users, Joins(u)
  PROVE  /\ dave' \in DaveState /\ connected' \in SUBSET Users
         /\ dave'.exists => dave'.users = connected'
         /\ \A f \in {"exists", "enabled", "downgraded", "ready", "group", "encryptor"} :
              dave'[f] = dave[f]
  <1>1. CASE dave.exists
    BY <1>1 DEF Joins, DaveIInv, DaveTypeOK, DaveState, SameUsers
  <1>2. CASE ~dave.exists
    BY <1>2 DEF Joins, DaveIInv, DaveTypeOK, DaveState
  <1> QED BY <1>1, <1>2

\* SPEAKING, CLIENTS_CONNECT and CLIENT_CONNECT.
LEMMA JoinStep ==
  ASSUME DaveIInv, NEW u \in Users
  PROVE  /\ \A s \in Ssrcs : OnSpeaking(s, u) \/ OnClientConnect(s, u) => DaveIInv'
         /\ OnClientsConnect(u) => DaveIInv'
  <1> USE DEF DaveIInv
  <1>0. dave \in DaveState /\ \A s \in Ssrcs : dec[s] \in DecState
    BY DEF DaveTypeOK, DaveState, DecState
  <1>1. ASSUME Joins(u)
        PROVE /\ dave' \in DaveState /\ connected' \in SUBSET Users
              /\ dave'.exists = dave.exists /\ dave'.enabled = dave.enabled
              /\ dave'.downgraded = dave.downgraded /\ dave'.ready = dave.ready
              /\ dave'.group = dave.group /\ dave'.encryptor = dave.encryptor
              /\ ReadyInGroup' /\ EnabledKeyed' /\ SameUsers'
              /\ connected \subseteq connected' /\ u \in connected'
              /\ BehindOf(u) \in SUBSET Ssrcs /\ BehindOf(u) \subseteq behind
              /\ \A t \in behind \ BehindOf(u) : ssrcMap[t] = u
    <2>1. /\ dave' \in DaveState /\ connected' \in SUBSET Users
          /\ dave'.exists = dave.exists /\ dave'.enabled = dave.enabled
          /\ dave'.downgraded = dave.downgraded /\ dave'.ready = dave.ready
          /\ dave'.group = dave.group /\ dave'.encryptor = dave.encryptor
          /\ dave'.exists => dave'.users = connected'
      BY <1>1, Join
    <2>2. connected' = connected \cup {u}
      BY <1>1 DEF Joins
    <2>3. /\ BehindOf(u) \in SUBSET Ssrcs /\ BehindOf(u) \subseteq behind
          /\ \A t \in behind \ BehindOf(u) : ssrcMap[t] = u
      BY DEF BehindOf, DaveTypeOK
    <2> QED BY <2>1, <2>2, <2>3 DEF ReadyInGroup, EnabledKeyed, SameUsers
  <1>2. ASSUME NEW s \in Ssrcs, OnSpeaking(s, u) PROVE DaveIInv'
    <2>1. /\ Joins(u) /\ ssrcMap' = [ssrcMap EXCEPT ![s] = u]
          /\ dec' = [dec EXCEPT ![s] = IF @ = NoDec THEN NoDec ELSE Ratchet(dave, u, @)]
          /\ silent' = silent \ {s} /\ issued' = issued /\ behind' = BehindOf(u) \ {s}
      BY <1>2 DEF OnSpeaking, Applied
    <2>2. /\ u # Nobody /\ Ratchet(dave, u, dec[s]) \in DecState
          /\ dec[s] # NoDec => Ratchet(dave, u, dec[s]) # NoDec
          /\ dave.group # 0 => Ratchet(dave, u, dec[s]) = <<u, dave.group>>
      BY <1>0, RatchetIs, DaveAssumption
    <2>3. DaveTypeOK'
      BY <1>1, <2>1, <2>2 DEF DaveTypeOK, DaveState, DecState
    <2>4. Housed'
      BY <1>1, <2>1 DEF Housed, DaveTypeOK
    <2>5. SpeakersKeyed'
      BY <1>1, <2>1, <2>2 DEF SpeakersKeyed, EnabledKeyed, DaveTypeOK
    <2>6. KeysOwned'
      <3> SUFFICES ASSUME NEW t \in Ssrcs, dec'[t] \in Keys
                   PROVE /\ dave'.exists /\ dave'.group # 0 /\ ssrcMap'[t] # Nobody
                         /\ t \notin silent' => dec'[t][1] = ssrcMap'[t]
        BY DEF KeysOwned
      <3>1. CASE t = s
        <4>1. /\ dec'[s] = IF dec[s] = NoDec THEN NoDec ELSE Ratchet(dave, u, dec[s])
              /\ ssrcMap'[s] = u
          BY <2>1 DEF DaveTypeOK
        <4>2. dec[s] # NoDec
          BY <3>1, <4>1, NoKeys
        <4>3. dave.exists
          BY <4>2 DEF Housed
        <4>4. dave.group # 0
          BY <1>0, <3>1, <4>1, <4>2 DEF KeysOwned, Ratchet
        <4>5. dec'[s] = <<u, dave.group>> /\ dave'.exists = dave.exists /\ dave'.group = dave.group
          BY <1>1, <2>1, <2>2, <4>1, <4>2, <4>4
        <4> QED BY <2>2, <3>1, <4>1, <4>3, <4>4, <4>5
      <3>2. CASE t # s
        <4>1. dec'[t] = dec[t] /\ ssrcMap'[t] = ssrcMap[t] /\ (t \notin silent' => t \notin silent)
          BY <2>1, <3>2 DEF DaveTypeOK
        <4>2. dave'.exists = dave.exists /\ dave'.group = dave.group
          BY <1>1, <2>1
        <4> QED BY <4>1, <4>2 DEF KeysOwned
      <3> QED BY <3>1, <3>2
    <2>7. OwnersIn'
      BY <1>1, <2>1 DEF OwnersIn, DaveTypeOK
    <2> QED BY <1>1, <2>1, <2>3, <2>4, <2>5, <2>6, <2>7
  <1>3. ASSUME NEW s \in Ssrcs, OnClientConnect(s, u) PROVE DaveIInv'
    <2>1. /\ Joins(u) /\ ssrcMap' = [ssrcMap EXCEPT ![s] = u]
          /\ silent' = (IF dec[s] # NoDec /\ ssrcMap[s] # u THEN silent \cup {s} ELSE silent)
          /\ behind' = BehindOf(u) \ {s}
          /\ UNCHANGED <<dec, issued>>
      BY <1>3 DEF OnClientConnect
    <2>2. u # Nobody
      BY DaveAssumption
    <2>3. DaveTypeOK'
      BY <1>1, <2>1 DEF DaveTypeOK, DaveState
    <2>4. Housed' /\ OwnersIn'
      BY <1>1, <2>1 DEF Housed, OwnersIn, DaveTypeOK
    <2>6. KeysOwned'
      <3> SUFFICES ASSUME NEW t \in Ssrcs, dec'[t] \in Keys
                   PROVE /\ dave'.exists /\ dave'.group # 0 /\ ssrcMap'[t] # Nobody
                         /\ t \notin silent' => dec'[t][1] = ssrcMap'[t]
        BY DEF KeysOwned
      <3>1. /\ dec'[t] = dec[t] /\ dec[t] # NoDec
            /\ ssrcMap'[t] = IF t = s THEN u ELSE ssrcMap[t]
        BY <2>1, NoKeys DEF DaveTypeOK
      <3>2. t \notin silent' => t \notin silent /\ ssrcMap'[t] = ssrcMap[t]
        BY <2>1, <3>1
      <3>3. dave'.exists = dave.exists /\ dave'.group = dave.group
        BY <1>1, <2>1
      <3> QED BY <2>2, <3>1, <3>2, <3>3 DEF KeysOwned
    <2>5. SpeakersKeyed'
      <3> SUFFICES ASSUME dave'.enabled, ~dave'.ready, NEW t \in Ssrcs, t \notin silent',
                          dec'[t] # NoDec, ssrcMap'[t] # Nobody
                   PROVE dec'[t] = <<ssrcMap'[t], dave'.group>>
        BY DEF SpeakersKeyed
      <3>1. t \notin silent /\ ssrcMap'[t] = ssrcMap[t] /\ dec'[t] = dec[t]
        BY <2>1 DEF DaveTypeOK
      <3> QED BY <1>1, <2>1, <3>1 DEF SpeakersKeyed
    <2> QED BY <1>1, <2>1, <2>3, <2>4, <2>5, <2>6
  <1>4. ASSUME OnClientsConnect(u) PROVE DaveIInv'
    <2>1. Joins(u) /\ behind' = BehindOf(u) /\ UNCHANGED <<dec, ssrcMap, issued, silent>>
      BY <1>4 DEF OnClientsConnect
    <2>2. DaveTypeOK'
      BY <1>1, <2>1 DEF DaveTypeOK, DaveState
    <2>3. Housed' /\ KeysOwned' /\ SpeakersKeyed'
      BY <1>1, <2>1 DEF Housed, KeysOwned, SpeakersKeyed
    <2>4. OwnersIn'
      BY <1>1, <2>1 DEF OwnersIn
    <2> QED BY <1>1, <2>1, <2>2, <2>3, <2>4
  <1> QED BY <1>2, <1>3, <1>4

\* A member leaves, and one of the member's decryptors with it.
LEMMA LeaveStep ==
  ASSUME DaveIInv, NEW u \in Users, OnClientDisconnect(u)
  PROVE  DaveIInv'
  <1> USE DEF DaveIInv
  <1>1. /\ connected' = connected \ {u} /\ issued' = issued
        /\ dave' = [dave EXCEPT !.users = @ \ {u}]
    BY DEF OnClientDisconnect
  <1>2. dave \in DaveState
    BY DEF DaveTypeOK, DaveState
  <1>3. /\ dave' \in DaveState /\ dave'.users = dave.users \ {u}
        /\ dave'.exists = dave.exists /\ dave'.enabled = dave.enabled
        /\ dave'.downgraded = dave.downgraded /\ dave'.ready = dave.ready
        /\ dave'.group = dave.group /\ dave'.encryptor = dave.encryptor
    BY <1>1, <1>2 DEF DaveState
  <1>4. ReadyInGroup' /\ EnabledKeyed' /\ SameUsers'
    BY <1>1, <1>3 DEF ReadyInGroup, EnabledKeyed, SameUsers
  <1>5. CASE (\A s \in Ssrcs : ssrcMap[s] # u) /\ UNCHANGED <<dec, ssrcMap, silent, behind>>
    <2>1. DaveTypeOK'
      BY <1>1, <1>3, <1>5 DEF DaveTypeOK, DaveState
    <2>2. Housed' /\ KeysOwned' /\ SpeakersKeyed'
      BY <1>3, <1>5 DEF Housed, KeysOwned, SpeakersKeyed
    <2>3. OwnersIn'
      BY <1>1, <1>5 DEF OwnersIn
    <2> QED BY <1>4, <2>1, <2>2, <2>3
  <1>6. ASSUME NEW s \in Ssrcs, dec' = [dec EXCEPT ![s] = NoDec],
               ssrcMap' = [ssrcMap EXCEPT ![s] = Nobody], silent' = silent \ {s},
               behind' = (behind \cup {t \in Ssrcs : ssrcMap[t] = u}) \ {s}
        PROVE DaveIInv'
    <2>1. DaveTypeOK'
      BY <1>1, <1>3, <1>6 DEF DaveTypeOK, DaveState
    <2>2. Housed'
      BY <1>3, <1>6 DEF Housed, DaveTypeOK
    <2>3. KeysOwned'
      BY <1>3, <1>6, NoKeys DEF KeysOwned, DaveTypeOK
    <2>4. SpeakersKeyed'
      BY <1>3, <1>6 DEF SpeakersKeyed, DaveTypeOK
    <2>5. OwnersIn'
      BY <1>1, <1>6 DEF OwnersIn, DaveTypeOK
    <2> QED BY <1>4, <2>1, <2>2, <2>3, <2>4, <2>5
  <1> QED BY <1>5, <1>6 DEF OnClientDisconnect

\* A step that changes only the fields a transition is announced with.
LEMMA AnnounceStep ==
  ASSUME DaveIInv, dave' \in DaveState, dave'.exists, dave.exists,
         dave'.users = dave.users, dave'.enabled = dave.enabled,
         dave'.downgraded = dave.downgraded, dave'.encryptor = dave.encryptor,
         \/ dave'.ready = dave.ready /\ dave'.group = dave.group
         \/ dave'.ready /\ dave'.group # 0,
         issued' \in Groups, UNCHANGED <<dec, ssrcMap, connected, silent, behind>>
  PROVE  DaveIInv'
  <1>1. DaveTypeOK'
    BY DEF DaveIInv, DaveTypeOK, DaveState
  <1>2. ReadyInGroup' /\ Housed' /\ EnabledKeyed' /\ SameUsers'
    BY DEF DaveIInv, ReadyInGroup, Housed, EnabledKeyed, SameUsers
  <1>3. SpeakersKeyed' /\ KeysOwned' /\ OwnersIn'
    BY DEF DaveIInv, SpeakersKeyed, KeysOwned, OwnersIn
  <1> QED BY <1>1, <1>2, <1>3 DEF DaveIInv

\* A commit or a welcome that the library accepts.
LEMMA CommitStep ==
  ASSUME DaveIInv, NEW id \in Ids, dave.exists, Accepts(id)
  PROVE  DaveIInv'
  <1> DEFINE d == Accepted
  <1>1. issued + 1 \in Groups /\ issued + 1 # 0 /\ issued' = issued + 1
    BY DaveAssumption DEF DaveIInv, DaveTypeOK, Groups, Accepts
  <1>2. /\ d \in DaveState /\ d.exists /\ d.users = connected /\ d.group = issued + 1
        /\ d.enabled = dave.enabled /\ d.downgraded = dave.downgraded
        /\ d.encryptor = dave.encryptor /\ d.ready /\ d.users = dave.users
    <2>1. dave \in DaveState
      BY DEF DaveIInv, DaveTypeOK, DaveState
    <2> QED BY <1>1, <2>1 DEF Accepted, DaveState, DaveIInv, SameUsers
  <1> HIDE DEF d
  <1>3. UNCHANGED <<ssrcMap, connected, behind>>
    BY DEF Accepts
  <1>4. CASE id = "zero"
    <2>1. Completes(d)
      BY <1>4 DEF Accepts, d
    <2> QED BY <1>1, <1>2, <1>3, <2>1, Completion
  <1>5. CASE id # "zero"
    <2>1. dave' = d /\ UNCHANGED <<dec, silent>>
      BY <1>5 DEF Accepts, d
    <2> QED BY <1>1, <1>2, <1>3, <2>1, AnnounceStep
  <1> QED BY <1>4, <1>5

\* A transition that is announced.
LEMMA PrepareStep ==
  ASSUME DaveIInv, NEW v \in Versions, OnPrepareTransition(v)
  PROVE  DaveIInv'
  <1>1. dave \in DaveState /\ dave.exists /\ dave' = [dave EXCEPT !.pendingVersion = v]
    BY DEF OnPrepareTransition, DaveIInv, DaveTypeOK, DaveState
  <1>2. /\ dave' \in DaveState /\ dave'.exists /\ dave'.users = dave.users
        /\ dave'.enabled = dave.enabled /\ dave'.downgraded = dave.downgraded
        /\ dave'.encryptor = dave.encryptor /\ dave'.ready = dave.ready
        /\ dave'.group = dave.group
    BY <1>1 DEF DaveState
  <1>3. issued' \in Groups /\ UNCHANGED <<dec, ssrcMap, connected, silent, behind>>
    BY DEF OnPrepareTransition, DaveIInv, DaveTypeOK
  <1> QED BY <1>1, <1>2, <1>3, AnnounceStep

\* A transition that is executed: a downgrade, a completion, nothing, or a new start.
LEMMA ExecuteStep ==
  ASSUME DaveIInv, NEW id \in Ids, OnExecuteTransition(id)
  PROVE  DaveIInv'
  <1> DEFINE d == [dave EXCEPT !.version = dave.pendingVersion]
  <1>1. dave \in DaveState /\ dave.exists /\ issued' \in Groups /\ UNCHANGED <<ssrcMap, connected, behind>>
    BY DEF OnExecuteTransition, DaveIInv, DaveTypeOK, DaveState
  <1>2. /\ d \in DaveState /\ d.exists /\ d.users = dave.users /\ d.users = connected
        /\ d.enabled = dave.enabled /\ d.downgraded = dave.downgraded
        /\ d.encryptor = dave.encryptor /\ d.ready = dave.ready /\ d.group = dave.group
    BY <1>1 DEF DaveState, DaveIInv, SameUsers
  <1>3. \/ dave' = [d EXCEPT !.enabled = FALSE, !.downgraded = TRUE] /\ UNCHANGED <<dec, silent>>
        \/ d.ready /\ Completes(d)
        \/ dave' = d /\ UNCHANGED <<dec, silent>>
        \/ StartsOver(d)
    BY DEF OnExecuteTransition
  <1> HIDE DEF d
  <1>4. CASE dave' = [d EXCEPT !.enabled = FALSE, !.downgraded = TRUE] /\ UNCHANGED <<dec, silent>>
    <2>1. /\ dave' \in DaveState /\ dave'.exists /\ ~dave'.enabled /\ dave'.users = connected
          /\ dave'.ready = dave.ready /\ dave'.group = dave.group
      BY <1>2, <1>4 DEF DaveState
    <2>2. DaveTypeOK'
      BY <1>1, <1>4, <2>1 DEF DaveIInv, DaveTypeOK, DaveState
    <2>3. KeysOwned' /\ OwnersIn'
      BY <1>1, <1>4, <2>1 DEF DaveIInv, KeysOwned, OwnersIn
    <2> QED
      BY <1>1, <2>1, <2>2, <2>3
         DEF DaveIInv, ReadyInGroup, Housed, EnabledKeyed, SpeakersKeyed, SameUsers
  <1>5. CASE d.ready /\ Completes(d)
    <2>1. d.group # 0
      BY <1>2, <1>5 DEF DaveIInv, ReadyInGroup
    <2> QED BY <1>1, <1>2, <1>5, <2>1, Completion
  <1>6. CASE dave' = d /\ UNCHANGED <<dec, silent>>
    BY <1>1, <1>2, <1>6, AnnounceStep
  <1>7. CASE StartsOver(d)
    <2>1. /\ ssrcMap' \in [Ssrcs -> Users \cup {Nobody}] /\ connected' \in SUBSET Users
          /\ behind' \in SUBSET Ssrcs /\ OwnersIn'
      BY <1>1 DEF DaveIInv, DaveTypeOK, OwnersIn
    <2> QED BY <1>1, <1>2, <1>7, <2>1, StartOver
  <1> QED BY <1>3, <1>4, <1>5, <1>6, <1>7

\* The first datagram of an SSRC makes its decryptor.
LEMMA DatagramStep ==
  ASSUME DaveIInv, NEW s \in Ssrcs, OnDatagram(s)
  PROVE  DaveIInv'
  <1> USE DEF DaveIInv
  <1>1. /\ dave \in DaveState /\ dave.exists /\ dave.enabled /\ dave.group # 0
        /\ ssrcMap[s] \in Users \cup {Nobody}
        /\ dec' = [dec EXCEPT ![s] = Ratchet(dave, ssrcMap[s], Unkeyed)]
        /\ UNCHANGED <<dave, ssrcMap, connected, issued, silent, behind>>
    BY DEF OnDatagram, DaveTypeOK, DaveState, EnabledKeyed
  <1>2. /\ Ratchet(dave, ssrcMap[s], Unkeyed) \in DecState
        /\ ssrcMap[s] # Nobody => Ratchet(dave, ssrcMap[s], Unkeyed) = <<ssrcMap[s], dave.group>>
        /\ Ratchet(dave, ssrcMap[s], Unkeyed) \in Keys => ssrcMap[s] # Nobody
    BY <1>1, RatchetIs, NoKeys DEF DecState
  <1>3. DaveTypeOK'
    BY <1>1, <1>2 DEF DaveTypeOK, DecState
  <1>4. ReadyInGroup' /\ Housed' /\ EnabledKeyed' /\ OwnersIn' /\ SameUsers'
    BY <1>1 DEF ReadyInGroup, Housed, EnabledKeyed, OwnersIn, SameUsers
  <1>5. SpeakersKeyed' /\ KeysOwned'
    BY <1>1, <1>2 DEF SpeakersKeyed, KeysOwned, DaveTypeOK
  <1> QED BY <1>3, <1>4, <1>5

-----------------------------------------------------------------------------
\* Each message of the voice gateway, and each datagram, keeps DaveIInv.
LEMMA Step == DaveIInv /\ [DaveNext]_daveVars => DaveIInv'
  <1> SUFFICES ASSUME DaveIInv, [DaveNext]_daveVars PROVE DaveIInv'
    OBVIOUS
  <1>1. CASE UNCHANGED daveVars
    BY <1>1 DEF daveVars, DaveIInv, DaveTypeOK, ReadyInGroup, Housed, EnabledKeyed, SpeakersKeyed,
       KeysOwned, OwnersIn, SameUsers
  <1>2. ASSUME NEW v \in Versions, EnsureDaveSession(v) \/ OnPrepareEpoch(v) PROVE DaveIInv'
    BY <1>2, LifeStep
  <1>3. ASSUME NEW v \in Versions, OnPrepareTransition(v) PROVE DaveIInv'
    BY <1>3, PrepareStep
  <1>4. CASE CleanupTransport \/ StopCall
    BY <1>4, LifeStep
  <1>5. ASSUME NEW s \in Ssrcs, NEW u \in Users, OnSpeaking(s, u) \/ OnClientConnect(s, u)
        PROVE DaveIInv'
    BY <1>5, JoinStep
  <1>6. ASSUME NEW u \in Users, OnClientsConnect(u) \/ OnClientDisconnect(u) PROVE DaveIInv'
    BY <1>6, JoinStep, LeaveStep
  <1>7. ASSUME NEW id \in Ids, OnAnnounceCommitTransition(id) PROVE DaveIInv'
    BY <1>7, CommitStep DEF OnAnnounceCommitTransition
  <1>8. ASSUME NEW id \in Ids, OnExecuteTransition(id) PROVE DaveIInv'
    BY <1>8, ExecuteStep
  <1>9. ASSUME NEW id \in Ids, NEW roster \in SUBSET Users, OnWelcome(id, roster) PROVE DaveIInv'
    BY <1>9, CommitStep DEF OnWelcome
  <1>10. ASSUME NEW s \in Ssrcs, OnDatagram(s) PROVE DaveIInv'
    BY <1>10, DatagramStep
  <1> QED
    BY <1>1, <1>2, <1>3, <1>4, <1>5, <1>6, <1>7, <1>8, <1>9, <1>10 DEF DaveNext

\* DaveIInv is inductive.
THEOREM DaveInvariance == DaveSpec => []DaveIInv
  BY InitOK, Step, PTL DEF DaveSpec

\* The keys held are those of members in the call, whoever comes and goes, but for the
\* second SSRC of one who left and an SSRC moved by CLIENT_CONNECT, for any users, SSRCs
\* and number of groups.
THEOREM CallMembers == DaveSpec => []MembersTrue
<1>1. DaveIInv => MembersTrue
  <2> SUFFICES ASSUME DaveIInv PROVE LeftUnheard
    BY DEF DaveIInv, MembersTrue
  <2>1. ASSUME NEW s \in Ssrcs, dec[s] \in Keys
        PROVE /\ dave.exists /\ ssrcMap[s] # Nobody
              /\ s \notin silent \cup behind => dec[s][1] \in connected
    BY <2>1 DEF DaveIInv, KeysOwned, OwnersIn
  <2> QED BY <2>1 DEF LeftUnheard
<1> QED BY <1>1, DaveInvariance, PTL

\* A call is never encrypted for a group it is not in, whatever comes between a commit
\* and its EXECUTE_TRANSITION.
THEOREM KeyOfGroup == DaveSpec => []EnabledKeyed
  BY DaveInvariance, PTL DEF DaveIInv

\* Every speaker known can be decrypted once the transition is executed.
THEOREM SpeakersHeard == DaveSpec => []SpeakersKeyed
  BY DaveInvariance, PTL DEF DaveIInv

=============================================================================
