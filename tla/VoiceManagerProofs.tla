------------------------ MODULE VoiceManagerProofs ------------------------
(***************************************************************************)
(* What is proved of VoiceManager for any guilds, users and bounds.        *)
(*                                                                         *)
(* The call: whatever server update is handled last is the newest, for the *)
(* account's guild unless it has left since (NewestFrom); a server update  *)
(* finds the account in its guild, or has the state that puts it there     *)
(* behind it, before any other server update (Paired, FirstSelf); an       *)
(* account without a call has one half of it, the other coming (Offered).  *)
(* A server update kept for its state makes the call before anything else  *)
(* is sent about servers, so it is enough that it is the newest.           *)
(*                                                                         *)
(* The microphone: what all the posted calls make of the pipeline agrees   *)
(* with the mute, before and after each of them (Mic).                     *)
(*                                                                         *)
(* The list: where a user is for the client, once the events are handled,  *)
(* is where the user is (Tracked), and the last signal about a user says   *)
(* what the voice server told last (Told); who is missing from the list,   *)
(* or one too many, still has a signal coming (Shown, Few).                *)
(***************************************************************************)
EXTENDS VoiceManager, WellFoundedInduction, TLAPS

Self == {e \in Event : e.type = "self"}
Leave == {e \in Self : e.place = Nowhere}
Update == {e \in Event : e.type = "server" /\ HasEndpoint(e)}

\* With the events w to come, those in S telling where somebody is, and c where the client
\* has them now, it has them at x before the i-th event.
LastIs(w, S, c, i, x) ==
  \/ \E j \in 1..i - 1 : w[j] \in S /\ w[j].place = x /\ \A k \in j + 1..i - 1 : w[k] \notin S
  \/ c = x /\ \A k \in 1..i - 1 : w[k] \notin S

\* The client's channel, c now, is x before the i-th event.
ChannelIs(w, c, i, x) == LastIs(w, Self, c, i, x)

\* The next state of the account after the i-th event is in guild g, and is before the
\* next voice server.
FirstSelf(w, i, g) ==
  \E k \in i + 1..Len(w) : /\ w[k] \in Self /\ w[k].place # Nowhere /\ Guild(w[k].place) = g
                           /\ \A j \in i + 1..k - 1 : w[j] \notin Self \cup Update

PairedAt(w, c, i) ==
  \E x \in Places \cup {Nowhere} :
    /\ ChannelIs(w, c, i, x)
    /\ Guild(x) = w[i].guild \/ FirstSelf(w, i, w[i].guild)
Paired(w, c) == \A i \in 1..Len(w) : w[i] \in Update => PairedAt(w, c, i)

\* Unless another follows the i-th event, voice server t of guild g is the newest, now,
\* and the account is in its guild: p is where it is.
NewestFrom(w, i, t, g, now, p) ==
  (\A j \in i + 1..Len(w) : w[j] \notin Update) =>
     t = now /\ ((\A j \in i + 1..Len(w) : w[j] \notin Leave) => g = Guild(p))

\* An account in a channel that does not leave it after the i-th event gets a voice server.
Offered(w, i, p) ==
  p # Nowhere /\ (\A j \in i + 1..Len(w) : w[j] \notin Leave) => \E j \in i + 1..Len(w) : w[j] \in Update

NewestAll(w, now, p) ==
  \A i \in 1..Len(w) : w[i] \in Update => NewestFrom(w, i, w[i].token, w[i].guild, now, p)
OfferedAll(w, p) == \A i \in 1..Len(w) : w[i] \in Leave => Offered(w, i, p)

-----------------------------------------------------------------------------
(* The invariant.                                                          *)

Types ==
  /\ at \in Places \cup {Nowhere} /\ token \in 0..MaxTokens /\ mute \in BOOLEAN
  /\ events \in Seq(Event) /\ signals \in Seq(Signal) /\ tasks \in Seq(Tasks)
  /\ channel \in Places \cup {Nowhere}
  /\ pending \in [server : Half \cup {None}, state : BOOLEAN]
  /\ conn \in Conn \cup {None}

\* A live signal is of the connection there is; the end of a connection is told once it ended.
LiveOwned ==
  \A i \in 1..Len(signals) : signals[i].live =>
    conn # None /\ (signals[i].type = "disconnected" => conn.phase = "ended")

Follows == ChannelIs(events, channel, Len(events) + 1, at)

\* The voice server of the connection, which is of the guild it is for or was paired with
\* another's state.
ConnNewest ==
  \E g \in Guilds : /\ NewestFrom(events, 0, conn.token, g, token, at)
                    /\ conn.mixed \/ g = Guild(conn.place)

Newest ==
  /\ NewestAll(events, token, at)
  /\ conn # None /\ pending.server = None => ConnNewest
  /\ pending.server # None => NewestFrom(events, 0, pending.server.token, pending.server.guild, token, at)

Coming ==
  /\ OfferedAll(events, at)
  /\ conn = None /\ ~gone /\ pending.server = None => Offered(events, 0, at)
  /\ pending.server # None /\ ~(conn = None /\ gone) => FirstSelf(events, 0, pending.server.guild)

\* A call has used both halves; without one, and unless it ended by itself, one is missing.
Halves ==
  /\ conn # None => channel # Nowhere
  /\ pending.state => channel # Nowhere
  /\ conn = None /\ ~gone => (pending.state <=> channel # Nowhere)
  /\ conn = None /\ ~gone /\ pending.state => pending.server = None

Guarded == Types /\ LiveOwned
IInv == Guarded /\ Follows /\ Paired(events, channel) /\ Newest /\ Coming /\ Halves

-----------------------------------------------------------------------------
(* Places and events.                                                      *)

LEMMA GuildOf ==
  /\ Guild(Nowhere) = None
  /\ \A p \in Places : p # Nowhere /\ Guild(p) \in Guilds
  /\ None \notin Guilds
  BY VoiceManagerAssumption DEF Guild, Places

LEMMA Kinds ==
  /\ Self \subseteq Event /\ Leave \subseteq Self /\ Update \subseteq Event /\ Self \cap Update = {}
  /\ \A e \in Event : e.type = "self" <=> e \in Self
  /\ \A e \in Self : e.place \in Places \cup {Nowhere} /\ (e \in Leave <=> e.place = Nowhere)
  /\ \A e \in Update : e.guild \in Guilds /\ e.token \in 1..MaxTokens
  /\ \A e \in Event : e.type = "server" /\ HasEndpoint(e) <=> e \in Update
  <1>1. \A e \in Event : e.type = "self" => e.place \in Places \cup {Nowhere}
    BY DEF Event
  <1>2. \A e \in Event : e.type = "server" => e.guild \in Guilds /\ e.token \in 0..MaxTokens
    BY DEF Event
  <1> QED
    BY <1>1, <1>2, VoiceManagerAssumption DEF Self, Leave, Update, HasEndpoint

LEMMA Makes ==
  /\ \A p \in Places \cup {Nowhere}, m \in BOOLEAN :
       SelfEvent(p, m) \in Self /\ SelfEvent(p, m).place = p
  /\ \A g \in Guilds, t \in 1..MaxTokens :
       /\ ServerEvent(g, t) \in Update /\ ServerEvent(g, t).guild = g /\ ServerEvent(g, t).token = t
       /\ ServerEvent(g, 0) \in Event /\ ServerEvent(g, 0) \notin Update \cup Self
  /\ \A u \in Users, p \in Places \cup {Nowhere} :
       /\ [type |-> "user", user |-> u, place |-> p] \in Event
       /\ [type |-> "user", user |-> u, place |-> p] \notin Update \cup Self
  <1>1. \A p \in Places \cup {Nowhere}, m \in BOOLEAN : SelfEvent(p, m) \in Event
    BY DEF SelfEvent, Event
  <1>2. \A g \in Guilds, t \in 0..MaxTokens : ServerEvent(g, t) \in Event
    BY DEF ServerEvent, Event
  <1>3. \A u \in Users, p \in Places \cup {Nowhere} : [type |-> "user", user |-> u, place |-> p] \in Event
    BY DEF Event
  <1> QED
    BY <1>1, <1>2, <1>3, VoiceManagerAssumption DEF Self, Update, HasEndpoint, SelfEvent, ServerEvent

-----------------------------------------------------------------------------
(* The head of the events is handled.                                      *)

LEMMA TailOf ==
  ASSUME NEW S, NEW w \in Seq(S), w # <<>>
  PROVE  /\ Tail(w) \in Seq(S) /\ Len(Tail(w)) = Len(w) - 1 /\ Len(w) \in Nat \ {0}
         /\ Head(w) = w[1] /\ Head(w) \in S
         /\ \A i \in 1..Len(w) - 1 : Tail(w)[i] = w[i + 1] /\ Tail(w)[i] \in S
  OBVIOUS

LEMMA LastTail ==
  ASSUME NEW w \in Seq(Event), w # <<>>, NEW S, NEW c, NEW x, NEW i \in 1..Len(w),
         LastIs(w, S, c, i + 1, x)
  PROVE  LastIs(Tail(w), S, IF Head(w) \in S THEN Head(w).place ELSE c, i, x)
  <1> DEFINE v == Tail(w)
  <1>1. /\ Len(v) = Len(w) - 1 /\ Len(w) \in Nat \ {0} /\ Head(w) = w[1]
        /\ \A j \in 1..Len(w) - 1 : v[j] = w[j + 1]
    BY TailOf
  <1> HIDE DEF v
  <1>2. CASE c = x /\ \A k \in 1..i : w[k] \notin S
    <2>1. \A k \in 1..i - 1 : v[k] \notin S
      BY <1>1, <1>2
    <2> QED
      BY <1>1, <1>2, <2>1 DEF LastIs, v
  <1>3. CASE \E j \in 1..i : w[j] \in S /\ w[j].place = x /\ \A k \in j + 1..i : w[k] \notin S
    <2> PICK j \in 1..i : w[j] \in S /\ w[j].place = x /\ \A k \in j + 1..i : w[k] \notin S
      BY <1>3
    <2>1. \A k \in j..i - 1 : v[k] \notin S
      BY <1>1
    <2>2. CASE j = 1
      BY <1>1, <2>1, <2>2 DEF LastIs, v
    <2>3. CASE j # 1
      <3>1. j - 1 \in 1..i - 1 /\ v[j - 1] = w[j] /\ \A k \in j - 1 + 1..i - 1 : v[k] \notin S
        BY <1>1, <2>1, <2>3
      <3> QED
        BY <3>1 DEF LastIs, v
    <2> QED
      BY <2>2, <2>3
  <1> QED
    BY <1>2, <1>3 DEF LastIs

\* The channel the client is in once e is handled.
Next1(c, e) == IF e \in Self THEN e.place ELSE c

LEMMA ChannelTail ==
  ASSUME NEW w \in Seq(Event), w # <<>>, NEW c, NEW x, NEW i \in 1..Len(w), ChannelIs(w, c, i + 1, x)
  PROVE  ChannelIs(Tail(w), Next1(c, Head(w)), i, x)
  BY LastTail DEF ChannelIs, Next1

LEMMA FirstSelfTail ==
  ASSUME NEW w \in Seq(Event), w # <<>>, NEW i \in 0..Len(w), NEW g
  PROVE  /\ i >= 1 => (FirstSelf(w, i, g) => FirstSelf(Tail(w), i - 1, g))
         /\ FirstSelf(w, 0, g) =>
              IF Head(w) \in Self THEN Head(w).place # Nowhere /\ Guild(Head(w).place) = g
              ELSE Head(w) \notin Update /\ FirstSelf(Tail(w), 0, g)
  <1> DEFINE v == Tail(w)
  <1>1. /\ Len(v) = Len(w) - 1 /\ Len(w) \in Nat \ {0} /\ Head(w) = w[1]
        /\ \A j \in 1..Len(w) - 1 : v[j] = w[j + 1]
    BY TailOf
  <1> HIDE DEF v
  <1>2. ASSUME NEW m \in 0..Len(w), NEW k \in m + 1..Len(w), k # 1, w[k] \in Self, w[k].place # Nowhere,
               Guild(w[k].place) = g, \A j \in m + 1..k - 1 : w[j] \notin Self \cup Update,
               NEW n \in {IF m = 0 THEN 0 ELSE m - 1}
        PROVE  FirstSelf(v, n, g)
    <2>1. k - 1 \in n + 1..Len(v) /\ v[k - 1] = w[k]
      BY <1>1, <1>2
    <2>2. \A j \in n + 1..k - 1 - 1 : v[j] \notin Self \cup Update
      BY <1>1, <1>2
    <2> QED
      BY <1>2, <2>1, <2>2 DEF FirstSelf
  <1>3. ASSUME i >= 1, FirstSelf(w, i, g) PROVE FirstSelf(v, i - 1, g)
    <2> PICK k \in i + 1..Len(w) : w[k] \in Self /\ w[k].place # Nowhere /\ Guild(w[k].place) = g
                                   /\ \A j \in i + 1..k - 1 : w[j] \notin Self \cup Update
      BY <1>3 DEF FirstSelf
    <2> QED
      BY <1>2, <1>3, <1>1
  <1>4. ASSUME FirstSelf(w, 0, g)
        PROVE  IF Head(w) \in Self THEN Head(w).place # Nowhere /\ Guild(Head(w).place) = g
               ELSE Head(w) \notin Update /\ FirstSelf(v, 0, g)
    <2> PICK k \in 0 + 1..Len(w) : w[k] \in Self /\ w[k].place # Nowhere /\ Guild(w[k].place) = g
                                   /\ \A j \in 0 + 1..k - 1 : w[j] \notin Self \cup Update
      BY <1>4 DEF FirstSelf
    <2>1. CASE k = 1
      BY <1>1, <2>1
    <2>2. CASE k # 1
      <3>1. w[1] \notin Self \cup Update
        BY <1>1, <2>2
      <3>2. FirstSelf(v, 0, g)
        BY <1>1, <1>2, <2>2
      <3> QED
        BY <1>1, <3>1, <3>2
    <2> QED
      BY <2>1, <2>2
  <1> QED
    BY <1>3, <1>4 DEF v

LEMMA PairedTail ==
  ASSUME NEW w \in Seq(Event), w # <<>>, NEW c, Paired(w, c)
  PROVE  Paired(Tail(w), Next1(c, Head(w)))
  <1>1. /\ Len(Tail(w)) = Len(w) - 1 /\ Len(w) \in Nat \ {0}
        /\ \A j \in 1..Len(w) - 1 : Tail(w)[j] = w[j + 1]
    BY TailOf
  <1> SUFFICES ASSUME NEW i \in 1..Len(w) - 1, w[i + 1] \in Update
               PROVE  PairedAt(Tail(w), Next1(c, Head(w)), i)
    BY <1>1 DEF Paired
  <1>2. PairedAt(w, c, i + 1) /\ i \in 1..Len(w) /\ i + 1 \in 0..Len(w) /\ i + 1 - 1 = i
    BY <1>1 DEF Paired
  <1> PICK x \in Places \cup {Nowhere} :
        /\ ChannelIs(w, c, i + 1, x)
        /\ Guild(x) = w[i + 1].guild \/ FirstSelf(w, i + 1, w[i + 1].guild)
    BY <1>2 DEF PairedAt
  <1>3. ChannelIs(Tail(w), Next1(c, Head(w)), i, x)
    BY <1>2, ChannelTail
  <1>4. FirstSelf(w, i + 1, w[i + 1].guild) => FirstSelf(Tail(w), i, w[i + 1].guild)
    BY <1>1, <1>2, FirstSelfTail
  <1> QED
    BY <1>1, <1>3, <1>4 DEF PairedAt

LEMMA NewestTail ==
  ASSUME NEW w \in Seq(Event), w # <<>>, NEW t, NEW g, NEW now, NEW p
  PROVE  /\ \A i \in 1..Len(w) : NewestFrom(w, i, t, g, now, p) => NewestFrom(Tail(w), i - 1, t, g, now, p)
         /\ NewestFrom(w, 0, t, g, now, p) /\ Head(w) \notin Update \cup Leave =>
              NewestFrom(Tail(w), 0, t, g, now, p)
  <1> DEFINE v == Tail(w)
  <1>1. /\ Len(v) = Len(w) - 1 /\ Len(w) \in Nat \ {0} /\ Head(w) = w[1]
        /\ \A j \in 1..Len(w) - 1 : v[j] = w[j + 1]
    BY TailOf
  <1> HIDE DEF v
  <1>2. ASSUME NEW i \in 1..Len(w), NEW S
        PROVE  (\A j \in i - 1 + 1..Len(v) : v[j] \notin S) => (\A j \in i + 1..Len(w) : w[j] \notin S)
    <2> SUFFICES ASSUME \A j \in i - 1 + 1..Len(v) : v[j] \notin S, NEW j \in i + 1..Len(w) PROVE w[j] \notin S
      OBVIOUS
    <2>1. j - 1 \in i - 1 + 1..Len(v) /\ v[j - 1] = w[j]
      BY <1>1
    <2> QED
      BY <2>1
  <1>3. ASSUME NEW S, Head(w) \notin S
        PROVE  (\A j \in 0 + 1..Len(v) : v[j] \notin S) => (\A j \in 0 + 1..Len(w) : w[j] \notin S)
    <2> SUFFICES ASSUME \A j \in 0 + 1..Len(v) : v[j] \notin S, NEW j \in 0 + 1..Len(w) PROVE w[j] \notin S
      OBVIOUS
    <2>1. CASE j = 1
      BY <1>1, <1>3, <2>1
    <2>2. CASE j # 1
      <3>1. j - 1 \in 0 + 1..Len(v) /\ v[j - 1] = w[j]
        BY <1>1, <2>2
      <3> QED
        BY <3>1
    <2> QED
      BY <2>1, <2>2
  <1> QED
    BY <1>2, <1>3 DEF NewestFrom, v

LEMMA OfferedTail ==
  ASSUME NEW w \in Seq(Event), w # <<>>, NEW p
  PROVE  /\ \A i \in 1..Len(w) : Offered(w, i, p) => Offered(Tail(w), i - 1, p)
         /\ Offered(w, 0, p) /\ Head(w) \notin Update \cup Leave => Offered(Tail(w), 0, p)
  <1> DEFINE v == Tail(w)
  <1>1. /\ Len(v) = Len(w) - 1 /\ Len(w) \in Nat \ {0} /\ Head(w) = w[1]
        /\ \A j \in 1..Len(w) - 1 : v[j] = w[j + 1]
    BY TailOf
  <1> HIDE DEF v
  <1>2. ASSUME NEW i \in 1..Len(w), \A j \in i - 1 + 1..Len(v) : v[j] \notin Leave, NEW j \in i + 1..Len(w)
        PROVE  w[j] \notin Leave
    <2>1. j - 1 \in i - 1 + 1..Len(v) /\ v[j - 1] = w[j]
      BY <1>1
    <2> QED
      BY <1>2, <2>1
  <1>3. ASSUME NEW i \in 1..Len(w), NEW j \in i + 1..Len(w), w[j] \in Update
        PROVE  \E k \in i - 1 + 1..Len(v) : v[k] \in Update
    <2>1. j - 1 \in i - 1 + 1..Len(v) /\ v[j - 1] = w[j]
      BY <1>1
    <2> QED
      BY <1>3, <2>1
  <1>4. ASSUME Head(w) \notin Leave, \A j \in 0 + 1..Len(v) : v[j] \notin Leave, NEW j \in 0 + 1..Len(w)
        PROVE  w[j] \notin Leave
    <2>1. j = 1 \/ (j - 1 \in 0 + 1..Len(v) /\ v[j - 1] = w[j])
      BY <1>1
    <2> QED
      BY <1>1, <1>4, <2>1
  <1>5. ASSUME Head(w) \notin Update, NEW j \in 0 + 1..Len(w), w[j] \in Update
        PROVE  \E k \in 0 + 1..Len(v) : v[k] \in Update
    <2>1. j - 1 \in 0 + 1..Len(v) /\ v[j - 1] = w[j]
      BY <1>1, <1>5
    <2> QED
      BY <1>5, <2>1
  <1>6. ASSUME NEW i \in 1..Len(w), Offered(w, i, p) PROVE Offered(v, i - 1, p)
    BY <1>2, <1>3, <1>6 DEF Offered
  <1>7. ASSUME Offered(w, 0, p), Head(w) \notin Update \cup Leave PROVE Offered(v, 0, p)
    BY <1>4, <1>5, <1>7 DEF Offered
  <1> QED
    BY <1>6, <1>7 DEF v

-----------------------------------------------------------------------------
(* Events are sent.                                                        *)

LEMMA Appended ==
  ASSUME NEW S, NEW w \in Seq(S), NEW e \in S
  PROVE  /\ Append(w, e) \in Seq(S) /\ Len(Append(w, e)) = Len(w) + 1 /\ Len(w) \in Nat
         /\ Append(w, e)[Len(w) + 1] = e
         /\ \A i \in 1..Len(w) : Append(w, e)[i] = w[i] /\ w[i] \in S
  OBVIOUS

LEMMA TwoAppended ==
  ASSUME NEW S, NEW w \in Seq(S), NEW a \in S, NEW b \in S
  PROVE  w \o <<a, b>> = Append(Append(w, a), b)
  OBVIOUS

LEMMA LastAppend ==
  ASSUME NEW w \in Seq(Event), NEW e \in Event, NEW S, NEW c
  PROVE  LET v == Append(w, e) IN
         /\ \A x : \A i \in 1..Len(w) + 1 : LastIs(w, S, c, i, x) => LastIs(v, S, c, i, x)
         /\ e \in S => LastIs(v, S, c, Len(v) + 1, e.place)
         /\ \A x : e \notin S /\ LastIs(w, S, c, Len(w) + 1, x) => LastIs(v, S, c, Len(v) + 1, x)
  <1> DEFINE v == Append(w, e)
  <1>1. Len(v) = Len(w) + 1 /\ Len(w) \in Nat /\ v[Len(w) + 1] = e /\ \A i \in 1..Len(w) : v[i] = w[i]
    BY Appended
  <1> HIDE DEF v
  <1>2. ASSUME NEW x, NEW i \in 1..Len(w) + 1, LastIs(w, S, c, i, x) PROVE LastIs(v, S, c, i, x)
    <2>1. \A k \in 1..i - 1 : v[k] = w[k]
      BY <1>1
    <2>2. CASE c = x /\ \A k \in 1..i - 1 : w[k] \notin S
      BY <2>1, <2>2 DEF LastIs
    <2>3. CASE \E j \in 1..i - 1 : w[j] \in S /\ w[j].place = x /\ \A k \in j + 1..i - 1 : w[k] \notin S
      <3> PICK j \in 1..i - 1 : w[j] \in S /\ w[j].place = x /\ \A k \in j + 1..i - 1 : w[k] \notin S
        BY <2>3
      <3>1. v[j] = w[j] /\ \A k \in j + 1..i - 1 : v[k] \notin S
        BY <2>1
      <3> QED
        BY <3>1 DEF LastIs
    <2> QED
      BY <1>2, <2>2, <2>3 DEF LastIs
  <1>3. ASSUME e \in S PROVE LastIs(v, S, c, Len(v) + 1, e.place)
    <2>1. Len(w) + 1 \in 1..Len(v) + 1 - 1 /\ \A k \in Len(w) + 1 + 1..Len(v) + 1 - 1 : v[k] \notin S
      BY <1>1
    <2> QED
      BY <1>1, <1>3, <2>1 DEF LastIs
  <1>4. ASSUME NEW x, e \notin S, LastIs(w, S, c, Len(w) + 1, x) PROVE LastIs(v, S, c, Len(v) + 1, x)
    <2>1. CASE c = x /\ \A k \in 1..Len(w) + 1 - 1 : w[k] \notin S
      <3>1. \A k \in 1..Len(v) + 1 - 1 : v[k] \notin S
        BY <1>1, <1>4, <2>1
      <3> QED
        BY <2>1, <3>1 DEF LastIs
    <2>2. CASE \E j \in 1..Len(w) + 1 - 1 : /\ w[j] \in S /\ w[j].place = x
                                            /\ \A k \in j + 1..Len(w) + 1 - 1 : w[k] \notin S
      <3> PICK j \in 1..Len(w) : /\ w[j] \in S /\ w[j].place = x
                                 /\ \A k \in j + 1..Len(w) + 1 - 1 : w[k] \notin S
        BY <1>1, <2>2
      <3>1. \A k \in j + 1..Len(v) + 1 - 1 : v[k] \notin S
        BY <1>1, <1>4
      <3>2. j \in 1..Len(v) + 1 - 1 /\ v[j] = w[j]
        BY <1>1
      <3> QED
        BY <3>1, <3>2 DEF LastIs
    <2> QED
      BY <1>4, <2>1, <2>2 DEF LastIs
  <1> QED
    BY <1>2, <1>3, <1>4 DEF v

LEMMA ChannelAppend ==
  ASSUME NEW w \in Seq(Event), NEW e \in Event, NEW c
  PROVE  LET v == Append(w, e) IN
         /\ \A x : \A i \in 1..Len(w) + 1 : ChannelIs(w, c, i, x) => ChannelIs(v, c, i, x)
         /\ e \in Self => ChannelIs(v, c, Len(v) + 1, e.place)
         /\ \A x : e \notin Self /\ ChannelIs(w, c, Len(w) + 1, x) => ChannelIs(v, c, Len(v) + 1, x)
  BY LastAppend DEF ChannelIs

LEMMA FirstSelfAppend ==
  ASSUME NEW w \in Seq(Event), NEW e \in Event, NEW i \in 0..Len(w), NEW g, FirstSelf(w, i, g)
  PROVE  FirstSelf(Append(w, e), i, g)
  <1>1. /\ Len(Append(w, e)) = Len(w) + 1 /\ Len(w) \in Nat
        /\ \A j \in 1..Len(w) : Append(w, e)[j] = w[j]
    BY Appended
  <1> QED
    BY <1>1 DEF FirstSelf

LEMMA PairedAppend ==
  ASSUME NEW w \in Seq(Event), NEW e \in Event, NEW c, NEW i \in 1..Len(w), PairedAt(w, c, i)
  PROVE  PairedAt(Append(w, e), c, i)
  <1> DEFINE v == Append(w, e)
  <1>1. Len(w) \in Nat /\ v[i] = w[i]
    BY Appended
  <1> PICK x \in Places \cup {Nowhere} :
        /\ ChannelIs(w, c, i, x)
        /\ Guild(x) = w[i].guild \/ FirstSelf(w, i, w[i].guild)
    BY DEF PairedAt
  <1>2. ChannelIs(v, c, i, x)
    BY <1>1, ChannelAppend
  <1>3. FirstSelf(w, i, w[i].guild) => FirstSelf(v, i, w[i].guild)
    BY <1>1, FirstSelfAppend
  <1> QED
    BY <1>1, <1>2, <1>3 DEF PairedAt

\* What is sent behind the other events leaves them paired, and is paired if it says where
\* the account is.
LEMMA PairedAllAppend ==
  ASSUME NEW w \in Seq(Event), NEW e \in Event, NEW c, Paired(w, c),
         e \in Update => PairedAt(Append(w, e), c, Len(w) + 1)
  PROVE  Paired(Append(w, e), c)
  BY Appended, PairedAppend DEF Paired

LEMMA PairedHere ==
  ASSUME NEW w \in Seq(Event), NEW e \in Event, NEW c, NEW x \in Places \cup {Nowhere},
         ChannelIs(w, c, Len(w) + 1, x), e.guild = Guild(x)
  PROVE  PairedAt(Append(w, e), c, Len(w) + 1)
  BY Appended, ChannelAppend DEF PairedAt

LEMMA NewestAppend ==
  ASSUME NEW w \in Seq(Event), NEW e \in Event, NEW i \in 0..Len(w), NEW t, NEW g, NEW now, NEW p, NEW q
  PROVE  /\ e \in Update => NewestFrom(Append(w, e), i, t, g, now, q)
         /\ NewestFrom(w, i, t, g, now, p) /\ (Guild(q) = Guild(p) \/ e \in Leave) =>
              NewestFrom(Append(w, e), i, t, g, now, q)
  <1> DEFINE v == Append(w, e)
  <1>1. /\ Len(v) = Len(w) + 1 /\ Len(w) \in Nat /\ v[Len(w) + 1] = e
        /\ \A j \in 1..Len(w) : v[j] = w[j]
    BY Appended
  <1> HIDE DEF v
  <1>2. e \in Update => \E j \in i + 1..Len(v) : v[j] \in Update
    BY <1>1
  <1>3. e \in Leave => \E j \in i + 1..Len(v) : v[j] \in Leave
    BY <1>1
  <1>4. ASSUME NEW S, \A j \in i + 1..Len(v) : v[j] \notin S PROVE \A j \in i + 1..Len(w) : w[j] \notin S
    BY <1>1, <1>4
  <1> QED
    BY <1>2, <1>3, <1>4 DEF NewestFrom, v

LEMMA OfferedAppend ==
  ASSUME NEW w \in Seq(Event), NEW e \in Event, NEW i \in 0..Len(w), NEW p, NEW q
  PROVE  /\ e \in Update => Offered(Append(w, e), i, q)
         /\ Offered(w, i, p) /\ (q # Nowhere => p # Nowhere) => Offered(Append(w, e), i, q)
  <1> DEFINE v == Append(w, e)
  <1>1. /\ Len(v) = Len(w) + 1 /\ Len(w) \in Nat /\ v[Len(w) + 1] = e
        /\ \A j \in 1..Len(w) : v[j] = w[j]
    BY Appended
  <1> HIDE DEF v
  <1>2. e \in Update => \E j \in i + 1..Len(v) : v[j] \in Update
    BY <1>1
  <1>3. (\A j \in i + 1..Len(v) : v[j] \notin Leave) => \A j \in i + 1..Len(w) : w[j] \notin Leave
    BY <1>1
  <1>4. (\E j \in i + 1..Len(w) : w[j] \in Update) => \E j \in i + 1..Len(v) : v[j] \in Update
    BY <1>1
  <1> QED
    BY <1>2, <1>3, <1>4 DEF Offered, v

LEMMA NewestAllAppend ==
  ASSUME NEW w \in Seq(Event), NEW e \in Event, NEW now, NEW p, NEW q
  PROVE  /\ e \in Update /\ e.token = now /\ e.guild = Guild(q) => NewestAll(Append(w, e), now, q)
         /\ e \notin Update /\ NewestAll(w, now, p) /\ (Guild(q) = Guild(p) \/ e \in Leave) =>
              NewestAll(Append(w, e), now, q)
  <1> DEFINE v == Append(w, e)
  <1>1. /\ Len(v) = Len(w) + 1 /\ Len(w) \in Nat /\ v[Len(w) + 1] = e
        /\ \A j \in 1..Len(w) : v[j] = w[j]
    BY Appended
  <1>2. ASSUME e \in Update, e.token = now, e.guild = Guild(q), NEW i \in 1..Len(v)
        PROVE  NewestFrom(v, i, v[i].token, v[i].guild, now, q)
    <2>1. CASE i = Len(w) + 1
      BY <1>1, <1>2, <2>1 DEF NewestFrom
    <2>2. CASE i # Len(w) + 1
      <3>1. i \in 0..Len(w)
        BY <1>1, <2>2
      <3> QED
        BY <1>2, <3>1, NewestAppend
    <2> QED
      BY <2>1, <2>2
  <1>3. ASSUME e \notin Update, NewestAll(w, now, p), Guild(q) = Guild(p) \/ e \in Leave,
               NEW i \in 1..Len(v), v[i] \in Update
        PROVE  NewestFrom(v, i, v[i].token, v[i].guild, now, q)
    <2>1. i \in 1..Len(w) /\ i \in 0..Len(w) /\ v[i] = w[i]
      BY <1>1, <1>3
    <2>2. NewestFrom(w, i, v[i].token, v[i].guild, now, p)
      BY <1>3, <2>1 DEF NewestAll
    <2> QED
      BY <1>3, <2>1, <2>2, NewestAppend
  <1> QED
    BY <1>2, <1>3 DEF NewestAll

LEMMA OfferedAllAppend ==
  ASSUME NEW w \in Seq(Event), NEW e \in Event, NEW p, NEW q
  PROVE  /\ e \in Update => OfferedAll(Append(w, e), q)
         /\ OfferedAll(w, p) /\ (q # Nowhere => p # Nowhere /\ e \notin Leave) =>
              OfferedAll(Append(w, e), q)
  <1> DEFINE v == Append(w, e)
  <1>1. /\ Len(v) = Len(w) + 1 /\ Len(w) \in Nat /\ v[Len(w) + 1] = e
        /\ \A j \in 1..Len(w) : v[j] = w[j]
    BY Appended
  <1>2. ASSUME e \in Update, NEW i \in 1..Len(v), v[i] \in Leave PROVE Offered(v, i, q)
    <2>1. i \in 0..Len(w)
      BY <1>1, <1>2, Kinds
    <2> QED
      BY <1>2, <2>1, OfferedAppend
  <1>3. ASSUME OfferedAll(w, p), q # Nowhere => p # Nowhere /\ e \notin Leave,
               NEW i \in 1..Len(v), v[i] \in Leave
        PROVE  Offered(v, i, q)
    <2>1. CASE q = Nowhere
      BY <2>1 DEF Offered
    <2>2. CASE q # Nowhere
      <3>1. i \in 1..Len(w) /\ i \in 0..Len(w) /\ v[i] = w[i]
        BY <1>1, <1>3, <2>2
      <3>2. Offered(w, i, p)
        BY <1>3, <3>1 DEF OfferedAll
      <3> QED
        BY <1>3, <2>2, <3>1, <3>2, OfferedAppend
    <2> QED
      BY <2>1, <2>2
  <1> QED
    BY <1>2, <1>3 DEF OfferedAll

LEMMA AllTail ==
  ASSUME NEW w \in Seq(Event), w # <<>>, NEW now, NEW p
  PROVE  /\ NewestAll(w, now, p) => NewestAll(Tail(w), now, p)
         /\ OfferedAll(w, p) => OfferedAll(Tail(w), p)
  <1> DEFINE v == Tail(w)
  <1>1. /\ Len(v) = Len(w) - 1 /\ Len(w) \in Nat \ {0}
        /\ \A j \in 1..Len(w) - 1 : v[j] = w[j + 1]
    BY TailOf
  <1> HIDE DEF v
  <1>2. ASSUME NEW i \in 1..Len(v) PROVE i + 1 \in 1..Len(w) /\ v[i] = w[i + 1] /\ i + 1 - 1 = i
    BY <1>1
  <1>3. ASSUME NewestAll(w, now, p), NEW i \in 1..Len(v), v[i] \in Update
        PROVE  NewestFrom(v, i, v[i].token, v[i].guild, now, p)
    <2>1. NewestFrom(w, i + 1, v[i].token, v[i].guild, now, p)
      BY <1>2, <1>3 DEF NewestAll
    <2>2. ASSUME NEW t, NEW g, NewestFrom(w, i + 1, t, g, now, p) PROVE NewestFrom(v, i, t, g, now, p)
      <3>1. PICK k \in 1..Len(w) : k = i + 1 /\ k - 1 = i
        BY <1>2
      <3>2. NewestFrom(w, k, t, g, now, p)
        BY <2>2, <3>1
      <3>3. NewestFrom(v, k - 1, t, g, now, p)
        BY <3>2, NewestTail DEF v
      <3> QED
        BY <3>1, <3>3
    <2> QED
      BY <2>1, <2>2
  <1>4. ASSUME OfferedAll(w, p), NEW i \in 1..Len(v), v[i] \in Leave PROVE Offered(v, i, p)
    <2>1. Offered(w, i + 1, p)
      BY <1>2, <1>4 DEF OfferedAll
    <2>2. i + 1 \in 1..Len(w) /\ i + 1 - 1 = i
      BY <1>2
    <2>3. Offered(v, i + 1 - 1, p)
      BY <2>1, <2>2, OfferedTail DEF v
    <2> QED
      BY <2>2, <2>3
  <1> QED
    BY <1>3, <1>4 DEF NewestAll, OfferedAll, v

-----------------------------------------------------------------------------
(* The signals are the connection's own.                                   *)

LEMMA Flagged ==
  ASSUME signals \in Seq(Signal)
  PROVE  /\ Stale \in Seq(Signal) /\ Len(Stale) = Len(signals)
         /\ \A i \in 1..Len(signals) : ~Stale[i].live
  <1>1. \A s \in Signal : [s EXCEPT !.live = FALSE] \in Signal /\ ~[s EXCEPT !.live = FALSE].live
    BY DEF Signal
  <1>2. DOMAIN signals = 1..Len(signals) /\ Len(signals) \in Nat /\ \A i \in 1..Len(signals) : signals[i] \in Signal
    OBVIOUS
  <1>3. Stale = [i \in 1..Len(signals) |-> [signals[i] EXCEPT !.live = FALSE]]
    BY <1>2 DEF Stale
  <1> HIDE DEF Stale
  <1>4. \A i \in 1..Len(signals) : Stale[i] \in Signal /\ ~Stale[i].live
    BY <1>1, <1>2, <1>3
  <1> QED
    BY <1>2, <1>3, <1>4

LEMMA Streams ==
  ASSUME events \in Seq(Event), signals \in Seq(Signal)
  PROVE  /\ events # <<>> => Tail(events) \in Seq(Event)
         /\ signals # <<>> => Tail(signals) \in Seq(Signal)
         /\ \A s \in Signal : Append(signals, s) \in Seq(Signal)
  OBVIOUS

LEMMA Joined ==
  ASSUME NEW S, NEW v \in Seq(S), NEW w \in Seq(S)
  PROVE  v \o w \in Seq(S)
  OBVIOUS

LEMMA PostsType == \A m : MutePosts(m) \in Seq(Tasks)
  <1>1. \A t \in Tasks : <<t>> \in Seq(Tasks)
    OBVIOUS
  <1>2. <<>> \in Seq(Tasks)
    OBVIOUS
  <1> QED
    BY <1>1, <1>2 DEF MutePosts, Tasks

\* The steps of the voice thread: the connection stays, and is to the same place.
LEMMA ThreadStep ==
  ASSUME Types, VoiceThread
  PROVE  /\ conn \in Conn /\ conn' \in Conn /\ conn # None /\ conn' # None
         /\ conn'.place = conn.place /\ conn'.token = conn.token /\ conn'.mixed = conn.mixed
         /\ RunTask => conn'.phase = conn.phase
  <1>1. \A c \in Conn : c # None
    BY VoiceManagerAssumption
  <1>2. CASE ClientConnects \/ ClientEnds
    <2>1. conn \in Conn /\ \E ph \in Phases : conn' = [conn EXCEPT !.phase = ph]
      BY <1>2 DEF Types, ClientConnects, ClientEnds, Phases
    <2>2. ~RunTask
      BY <1>2, <2>1 DEF ClientConnects, ClientEnds, RunTask, Conn
    <2> QED
      BY <1>1, <2>1, <2>2 DEF Conn
  <1>3. CASE RunTask
    <2>1. Head(tasks) \in Tasks /\ conn \in Conn
      BY <1>3, TailOf DEF Types, RunTask
    <2>2. Does(Audio, Head(tasks)).started \in BOOLEAN
      BY <2>1 DEF Does, Audio, Tasks, Conn
    <2>3. /\ conn' \in Conn /\ conn'.place = conn.place /\ conn'.token = conn.token
          /\ conn'.mixed = conn.mixed /\ conn'.phase = conn.phase
      BY <1>3, <2>1, <2>2 DEF RunTask, Conn
    <2> QED
      BY <1>1, <2>1, <2>3
  <1> QED
    BY <1>2, <1>3 DEF VoiceThread

LEMMA TypesStep ==
  ASSUME Types, [Next]_vars
  PROVE  Types'
  <1> USE DEF Types
  <1>1. CASE SrvMute
    BY <1>1, Makes, Appended, Kinds DEF SrvMute, callVars
  <1>2. CASE SrvServer
    <2>1. Guild(at) \in Guilds /\ token' \in 1..MaxTokens /\ token' \in 0..MaxTokens
      BY <1>2, GuildOf, VoiceManagerAssumption DEF SrvServer
    <2>2. ServerEvent(Guild(at), 0) \in Event /\ ServerEvent(Guild(at), token') \in Event
      BY <2>1, Makes, Kinds
    <2>3. events' \in Seq(Event)
      BY <1>2, <2>2, TwoAppended, Appended DEF SrvServer
    <2> QED
      BY <1>2, <2>1, <2>3 DEF SrvServer, callVars
  <1>3. ASSUME NEW p \in Places \cup {Nowhere}, SrvMove(p) PROVE Types'
    <2>1. mute' \in BOOLEAN /\ SelfEvent(p, mute') \in Event
      BY <1>3, Makes, Kinds DEF SrvMove
    <2>2. CASE Guild(p) \in {Guild(at), None}
      BY <1>3, <2>1, <2>2 DEF SrvMove, callVars
    <2>3. CASE Guild(p) \notin {Guild(at), None}
      <3>1. token' \in 1..MaxTokens /\ token' \in 0..MaxTokens
        BY <1>3, <2>3, VoiceManagerAssumption DEF SrvMove
      <3>2. ServerEvent(Guild(p), token') \in Event
        BY <2>3, <3>1, GuildOf, Makes, Kinds
      <3>3. \A a, b \in Event : events \o <<a, b>> \in Seq(Event)
        BY TwoAppended, Appended
      <3>4. events' \in Seq(Event)
        BY <1>3, <2>1, <2>3, <3>2, <3>3 DEF SrvMove
      <3> QED
        BY <1>3, <2>1, <3>1, <3>4 DEF SrvMove, callVars
    <2> QED
      BY <2>2, <2>3
  <1>4. ASSUME NEW p \in Places \cup {Nowhere}, NEW u \in Users, SrvUser(u, p) PROVE Types'
    BY <1>4, Makes DEF SrvUser, callVars
  <1>5. ASSUME NEW u \in Users, SrvReport(u) PROVE Types'
    <2>1. \A t \in {"joined", "left"} : [type |-> t, user |-> u, live |-> TRUE] \in Signal
      BY DEF Signal
    <2>2. signals' \in Seq(Signal)
      BY <1>5, <2>1, Streams DEF SrvReport, Signals
    <2> QED
      BY <1>5, <2>2 DEF SrvReport, callVars
  <1>6. CASE OnSelfLeft
    <2>1. signals' \in Seq(Signal) /\ events' \in Seq(Event)
      BY <1>6, Flagged DEF OnSelfLeft, Receives
    <2> QED
      BY <1>6, <2>1 DEF OnSelfLeft, StopVoiceThread, NoPending, serverVars
  <1>7. CASE OnSelfState
    <2>1. Head(events) \in Event /\ Head(events) \in Self /\ Head(events).place \in Places
      BY <1>7, TailOf, Kinds DEF OnSelfState, Receives
    <2>2. signals' \in Seq(Signal) /\ events' \in Seq(Event)
      <3> HIDE DEF Stale
      <3>1. signals' \in {signals, Stale} /\ events # <<>> /\ events' = Tail(events)
        BY <1>7 DEF OnSelfState, Receives
      <3> QED
        BY <3>1, Flagged, Streams
    <2>3. CASE pending.server # None /\ pending.server.guild = Guild(Head(events).place)
      <3>1. pending.server.token \in 1..MaxTokens
        BY <2>3 DEF Half
      <3>2. Connect(pending.server.token, tasks \o MutePosts(Head(events).mute), FALSE) /\ channel' \in Places
        BY <1>7, <2>1, <2>3 DEF OnSelfState
      <3>3. conn' \in Conn /\ tasks' = <<>>
        BY <3>1, <3>2 DEF Connect, StopVoiceThread, Conn, Phases
      <3>4. pending' = NoPending /\ UNCHANGED serverVars
        BY <1>7, <2>3 DEF OnSelfState
      <3> QED
        BY <2>2, <3>2, <3>3, <3>4 DEF NoPending, serverVars
    <2>4. CASE ~(pending.server # None /\ pending.server.guild = Guild(Head(events).place))
      <3>1. tasks' \in Seq(Tasks)
        <4>1. tasks' = tasks \o MutePosts(Head(events).mute)
          BY <1>7, <2>4 DEF OnSelfState
        <4> QED
          BY <4>1, PostsType, Joined
      <3>2. pending' \in [server : Half \cup {None}, state : BOOLEAN] /\ UNCHANGED conn
        BY <1>7, <2>4 DEF OnSelfState
      <3> QED
        BY <1>7, <2>1, <2>2, <3>1, <3>2 DEF OnSelfState, serverVars
    <2> QED
      BY <2>3, <2>4
  <1>8. CASE OnUserState \/ OnNoEndpoint
    <2>1. events' \in Seq(Event)
      BY <1>8, Streams DEF OnUserState, OnNoEndpoint, Receives
    <2> QED
      BY <1>8, <2>1 DEF OnUserState, OnNoEndpoint, serverVars, callVars
  <1>9. CASE OnServerReplaced \/ OnServerUpdate
    <2> DEFINE e == Head(events)
    <2>1. e \in Update /\ e.guild \in Guilds /\ e.token \in 1..MaxTokens
      BY <1>9, TailOf, Kinds DEF OnServerReplaced, OnServerUpdate, Receives
    <2>2. signals' \in Seq(Signal) /\ events' \in Seq(Event)
      <3> HIDE DEF Stale
      <3> QED
        BY <1>9, Flagged, Streams DEF OnServerReplaced, OnServerUpdate, Receives, callVars
    <2> HIDE DEF e
    <2>3. Remembered(e) \in [server : Half \cup {None}, state : BOOLEAN]
      BY <2>1 DEF Remembered, Half
    <2>4. ASSUME NEW m \in BOOLEAN, Connect(e.token, tasks, m), UNCHANGED channel, channel # Nowhere
          PROVE  conn' \in Conn /\ tasks' = <<>>
      BY <2>1, <2>4 DEF Connect, StopVoiceThread, Conn, Phases
    <2>5. CASE OnServerReplaced
      <3>1. channel # Nowhere
        BY <2>1, <2>5, GuildOf DEF OnServerReplaced, e
      <3>2. conn' \in Conn /\ tasks' = <<>>
        BY <2>4, <2>5, <3>1 DEF OnServerReplaced, e
      <3> QED
        BY <2>2, <2>5, <3>2 DEF OnServerReplaced, serverVars
    <2>6. CASE OnServerUpdate /\ pending.state /\ channel # Nowhere
      <3>1. conn' \in Conn /\ tasks' = <<>>
        BY <2>4, <2>6 DEF OnServerUpdate, e
      <3> QED
        <4>1. pending' = NoPending /\ UNCHANGED channel /\ UNCHANGED serverVars
          BY <2>6 DEF OnServerUpdate
        <4> QED
          BY <2>2, <3>1, <4>1 DEF NoPending, serverVars
    <2>7. CASE OnServerUpdate /\ ~(pending.state /\ channel # Nowhere)
      BY <2>2, <2>3, <2>7 DEF OnServerUpdate, serverVars, callVars, e
    <2> QED
      BY <1>9, <2>5, <2>6, <2>7
  <1>10. CASE OnStaleSignal \/ OnClientConnected \/ OnClientDisconnected
    <2>1. signals' \in Seq(Signal)
      BY <1>10, Streams DEF OnStaleSignal, OnClientConnected, OnClientDisconnected, Delivers
    <2> QED
      BY <1>10, <2>1 DEF OnStaleSignal, OnClientConnected, OnClientDisconnected, serverVars, callVars
  <1>11. CASE OnVoiceClientConnected
    <2>1. tasks' \in Seq(Tasks)
      <3>1. <<"start">> \in Seq(Tasks) /\ <<"startMuted">> \in Seq(Tasks)
        BY DEF Tasks
      <3> QED
        BY <1>11, <3>1, Joined DEF OnVoiceClientConnected, Posts
    <2> QED
      BY <1>11, <2>1 DEF OnVoiceClientConnected, Delivers, serverVars
  <1>12. CASE OnVoiceClientDisconnected
    <2>1. signals' \in Seq(Signal) /\ tasks' = <<>>
      BY <1>12, Flagged DEF OnVoiceClientDisconnected, StopVoiceThread
    <2> QED
      BY <1>12, <2>1 DEF OnVoiceClientDisconnected, serverVars
  <1>13. CASE ClientConnects \/ ClientEnds
    <2>1. signals' \in Seq(Signal)
      <3>1. \A t \in {"connected", "disconnected"} : [type |-> t, live |-> TRUE] \in Signal
        BY DEF Signal
      <3> QED
        BY <1>13, <3>1, Streams DEF ClientConnects, ClientEnds, Signals
    <2> QED
      BY <1>13, <2>1, ThreadStep DEF ClientConnects, ClientEnds, ThreadUnchanged, VoiceThread
  <1>14. CASE RunTask
    <2>1. tasks' \in Seq(Tasks)
      BY <1>14, TailOf DEF RunTask
    <2> QED
      BY <1>14, <2>1, ThreadStep DEF RunTask, ThreadUnchanged, VoiceThread
  <1>15. CASE UNCHANGED vars
    BY <1>15 DEF vars, serverVars, callVars
  <1> QED
    BY <1>1, <1>2, <1>3, <1>4, <1>5, <1>6, <1>7, <1>8, <1>9, <1>10, <1>11, <1>12, <1>13, <1>14, <1>15
    DEF Next, Server, OnEvent, OnSignal, VoiceThread

LEMMA LiveOwnedStep ==
  ASSUME Types, LiveOwned, [Next]_vars
  PROVE  LiveOwned'
  <1> USE DEF Types
  <1>1. ASSUME UNCHANGED <<conn, signals>> PROVE LiveOwned'
    BY <1>1 DEF LiveOwned
  <1>2. ASSUME signals' = Stale PROVE LiveOwned'
    BY <1>2, Flagged DEF LiveOwned
  <1>3. ASSUME conn = None, UNCHANGED signals PROVE LiveOwned'
    BY <1>3 DEF LiveOwned
  <1>4. CASE Server
    <2>1. ASSUME NEW u \in Users, SrvReport(u) PROVE LiveOwned'
      <3>1. UNCHANGED conn /\ conn # None
        BY <2>1 DEF SrvReport, Online, callVars
      <3>2. PICK s : s.type # "disconnected" /\ signals' = Append(signals, s)
        BY <2>1 DEF SrvReport, Signals
      <3> QED
        BY <3>1, <3>2 DEF LiveOwned
    <2> QED
      <3>1. \/ UNCHANGED <<conn, signals>>
            \/ \E u \in Users : SrvReport(u)
        BY <1>4 DEF Server, SrvMute, SrvServer, SrvMove, SrvUser, callVars
      <3> QED
        BY <1>1, <2>1, <3>1
  <1>5. CASE OnSelfLeft
    BY <1>2, <1>3, <1>5 DEF OnSelfLeft
  <1>6. CASE OnSelfState
    BY <1>1, <1>2, <1>3, <1>6 DEF OnSelfState
  <1>7. CASE OnUserState \/ OnNoEndpoint
    BY <1>1, <1>7 DEF OnUserState, OnNoEndpoint, callVars
  <1>8. CASE OnServerReplaced \/ OnServerUpdate
    BY <1>1, <1>2, <1>3, <1>8 DEF OnServerReplaced, OnServerUpdate, callVars
  <1>9. ASSUME signals # <<>>, signals' = Tail(signals), UNCHANGED conn PROVE LiveOwned'
    <2>1. /\ Len(signals') = Len(signals) - 1 /\ Len(signals) \in Nat \ {0}
          /\ \A i \in 1..Len(signals) - 1 : signals'[i] = signals[i + 1]
      BY <1>9, TailOf
    <2> QED
      BY <1>9, <2>1 DEF LiveOwned
  <1>10. CASE OnStaleSignal \/ OnVoiceClientConnected \/ OnClientConnected \/ OnClientDisconnected
    BY <1>9, <1>10 DEF OnStaleSignal, OnVoiceClientConnected, OnClientConnected, OnClientDisconnected,
                       Delivers, callVars
  <1>11. CASE OnVoiceClientDisconnected
    <2>1. Stale \in Seq(Signal) /\ Stale # <<>> /\ \A i \in 1..Len(Stale) : ~Stale[i].live
      BY <1>11, Flagged DEF OnVoiceClientDisconnected
    <2>2. /\ Len(signals') = Len(Stale) - 1 /\ Len(Stale) \in Nat \ {0}
          /\ \A i \in 1..Len(Stale) - 1 : signals'[i] = Stale[i + 1]
      BY <1>11, <2>1, TailOf DEF OnVoiceClientDisconnected
    <2> HIDE DEF Stale
    <2>3. ASSUME NEW i \in 1..Len(signals') PROVE ~signals'[i].live
      <3>1. i \in 1..Len(Stale) - 1 /\ i + 1 \in 1..Len(Stale)
        BY <2>2
      <3> QED
        BY <2>1, <2>2, <3>1
    <2> QED
      BY <2>3 DEF LiveOwned
  <1>12. CASE ClientConnects
    <2>1. conn # None /\ conn.phase # "ended" /\ conn' # None
      BY <1>12, ThreadStep DEF ClientConnects, VoiceThread
    <2> QED
      BY <1>12, <2>1 DEF LiveOwned, ClientConnects, Signals
  <1>13. CASE ClientEnds
    <2>1. conn # None /\ conn' # None /\ conn'.phase = "ended"
      BY <1>13, ThreadStep DEF ClientEnds, VoiceThread, Conn
    <2> QED
      BY <1>13, <2>1 DEF LiveOwned, ClientEnds, Signals
  <1>14. CASE RunTask
    <2>1. conn # None /\ conn'.phase = conn.phase /\ conn' # None
      BY <1>14, ThreadStep DEF VoiceThread
    <2> QED
      BY <1>14, <2>1 DEF LiveOwned, RunTask
  <1>15. CASE UNCHANGED vars
    BY <1>1, <1>15 DEF vars, callVars
  <1> QED
    BY <1>4, <1>5, <1>6, <1>7, <1>8, <1>10, <1>11, <1>12, <1>13, <1>14, <1>15
    DEF Next, OnEvent, OnSignal, VoiceThread

-----------------------------------------------------------------------------
(* The head of the gateway events is handled.                              *)

\* What every handler of a gateway event keeps, whatever it does with the call.
LEMMA Handled ==
  ASSUME IInv, NEW type, Receives(type), channel' = Next1(channel, Head(events)), UNCHANGED serverVars
  PROVE  /\ Follows' /\ Paired(events', channel') /\ NewestAll(events', token', at')
         /\ OfferedAll(events', at') /\ events' = Tail(events) /\ events # <<>> /\ at' = at /\ token' = token
         /\ Head(events) = events[1] /\ 1 \in 1..Len(events) /\ Head(events) \in Event
         /\ Head(events).type = type
  <1>1. events \in Seq(Event) /\ events # <<>> /\ events' = Tail(events) /\ Head(events).type = type
    BY DEF IInv, Guarded, Types, Receives
  <1>2. /\ Len(events) \in Nat \ {0} /\ Len(events') = Len(events) - 1 /\ Head(events) = events[1]
        /\ Head(events) \in Event
    BY <1>1, TailOf
  <1>3. at' = at /\ token' = token
    BY DEF serverVars
  <1>4. Follows'
    <2>1. Len(events) \in 1..Len(events) /\ Len(events') + 1 = Len(events)
      BY <1>2
    <2>2. ChannelIs(events, channel, Len(events) + 1, at)
      BY DEF IInv, Follows
    <2>3. ChannelIs(Tail(events), Next1(channel, Head(events)), Len(events), at)
      BY <1>1, <2>1, <2>2, ChannelTail
    <2> QED
      BY <1>1, <1>3, <2>1, <2>3 DEF Follows
  <1>5. Paired(events', channel')
    BY <1>1, PairedTail DEF IInv
  <1>6. NewestAll(events', token', at') /\ OfferedAll(events', at')
    BY <1>1, <1>3, AllTail DEF IInv, Newest, Coming
  <1> QED
    BY <1>1, <1>2, <1>3, <1>4, <1>5, <1>6

\* An event that is of neither stream.
LEMMA Ignored ==
  ASSUME IInv, NEW type, Receives(type), Head(events) \notin Self \cup Update,
         UNCHANGED <<channel, conn, pending, gone, serverVars>>
  PROVE  Follows' /\ Paired(events', channel') /\ Newest' /\ Coming' /\ Halves'
  <1>1. /\ Follows' /\ Paired(events', channel') /\ NewestAll(events', token', at')
        /\ OfferedAll(events', at') /\ events' = Tail(events) /\ events # <<>> /\ at' = at /\ token' = token
    BY Handled DEF Next1
  <1>2. events \in Seq(Event) /\ Head(events) \notin Update \cup Leave
    BY Kinds DEF IInv, Guarded, Types
  <1>3. Newest'
    <2>1. \A t, g : NewestFrom(events, 0, t, g, token, at) => NewestFrom(events', 0, t, g, token', at')
      BY <1>1, <1>2, NewestTail
    <2> QED
      BY <1>1, <2>1 DEF IInv, Newest, ConnNewest
  <1>4. Offered(events, 0, at) => Offered(events', 0, at')
    BY <1>1, <1>2, OfferedTail
  <1>5. \A g : FirstSelf(events, 0, g) => FirstSelf(events', 0, g)
    <2>1. events \in Seq(Event) /\ 0 \in 0..Len(events)
      BY <1>2
    <2> QED
      BY <1>1, <2>1, FirstSelfTail
  <1>6. Coming'
    BY <1>1, <1>4, <1>5 DEF IInv, Coming
  <1> QED
    BY <1>1, <1>3, <1>6 DEF IInv, Halves

LEMMA SelfLeftStep ==
  ASSUME IInv, OnSelfLeft
  PROVE  Follows' /\ Paired(events', channel') /\ Newest' /\ Coming' /\ Halves'
  <1>1. Receives("self") /\ UNCHANGED serverVars
    BY DEF OnSelfLeft
  <1>2. events \in Seq(Event) /\ events # <<>> /\ Head(events) \in Event
    BY <1>1, TailOf DEF IInv, Guarded, Types, Receives
  <1>3. Head(events) \in Leave /\ channel' = Next1(channel, Head(events))
    BY <1>1, <1>2, Kinds DEF OnSelfLeft, Receives, Next1
  <1>4. /\ Follows' /\ Paired(events', channel') /\ NewestAll(events', token', at')
        /\ OfferedAll(events', at') /\ events' = Tail(events) /\ at' = at
        /\ Head(events) = events[1] /\ 1 \in 1..Len(events)
    BY <1>1, <1>3, Handled
  <1>5. conn' = None /\ pending' = NoPending /\ channel' = Nowhere /\ gone' = FALSE
    BY DEF OnSelfLeft
  <1>6. Offered(events', 0, at')
    <2>1. Offered(events, 1, at)
      BY <1>3, <1>4 DEF IInv, Coming, OfferedAll
    <2>2. Offered(Tail(events), 1 - 1, at)
      BY <1>2, <1>4, <2>1, OfferedTail
    <2> QED
      BY <1>4, <2>2
  <1> QED
    BY <1>4, <1>5, <1>6 DEF Newest, Coming, Halves, NoPending

LEMMA SelfStateStep ==
  ASSUME IInv, OnSelfState
  PROVE  Follows' /\ Paired(events', channel') /\ Newest' /\ Coming' /\ Halves'
  <1> DEFINE e == Head(events)
             waiting == pending.server # None /\ pending.server.guild = Guild(e.place)
  <1>1. Receives("self") /\ UNCHANGED serverVars /\ e.place # Nowhere /\ channel' = e.place
    BY DEF OnSelfState
  <1>2. events \in Seq(Event) /\ events # <<>> /\ e \in Event
    BY <1>1, TailOf DEF IInv, Guarded, Types, Receives
  <1>3. e \in Self /\ e \notin Update \cup Leave /\ channel' = Next1(channel, e)
    BY <1>1, <1>2, Kinds DEF Receives, Next1
  <1>4. /\ Follows' /\ Paired(events', channel') /\ NewestAll(events', token', at')
        /\ OfferedAll(events', at') /\ events' = Tail(events) /\ at' = at /\ token' = token
    BY <1>1, <1>3, Handled
  <1>5. \A t, g : NewestFrom(events, 0, t, g, token, at) => NewestFrom(events', 0, t, g, token', at')
    BY <1>2, <1>3, <1>4, NewestTail
  <1>6. Offered(events, 0, at) => Offered(events', 0, at')
    BY <1>2, <1>3, <1>4, OfferedTail
  <1>7. CASE waiting
    <2>1. /\ conn' = [place |-> channel', token |-> pending.server.token, phase |-> "connecting",
                       started |-> FALSE, mixed |-> FALSE]
          /\ gone' = FALSE /\ pending' = NoPending
      BY <1>7 DEF OnSelfState, Connect
    <2>2. conn' # None
      <3>1. e.place \in Places /\ pending.server.token \in 1..MaxTokens
        BY <1>1, <1>3, <1>7, Kinds DEF IInv, Guarded, Types, Half
      <3>2. conn' \in Conn
        BY <1>1, <2>1, <3>1 DEF Conn, Phases
      <3> QED
        BY <3>2, VoiceManagerAssumption
    <2>3. ConnNewest'
      <3>1. NewestFrom(events, 0, pending.server.token, pending.server.guild, token, at)
        BY <1>7 DEF IInv, Newest
      <3>2. /\ conn'.token = pending.server.token /\ Guild(conn'.place) = pending.server.guild
            /\ pending.server.guild \in Guilds
        BY <1>1, <1>7, <2>1 DEF IInv, Guarded, Types, Half
      <3>3. NewestFrom(events', 0, pending.server.token, pending.server.guild, token', at')
        BY <1>5, <3>1
      <3> QED
        BY <3>2, <3>3 DEF ConnNewest
    <2> QED
      BY <1>1, <1>4, <2>1, <2>2, <2>3 DEF Newest, Coming, Halves, NoPending
  <1>8. CASE ~waiting
    <2>1. conn' = conn /\ gone' = gone /\ pending' = [pending EXCEPT !.state = TRUE]
      BY <1>8 DEF OnSelfState
    <2>2. pending'.server = pending.server /\ pending'.state = TRUE
      BY <2>1 DEF IInv, Guarded, Types
    <2>3. pending.server # None => conn = None /\ gone
      <3>1. FirstSelf(events, 0, pending.server.guild) => Guild(e.place) = pending.server.guild
        <4>1. 0 \in 0..Len(events)
          BY <1>2
        <4> QED
          BY <1>2, <1>3, <4>1, FirstSelfTail
      <3> QED
        BY <1>8, <3>1 DEF IInv, Coming
    <2>4. Newest'
      BY <1>4, <1>5, <2>1, <2>2 DEF IInv, Newest, ConnNewest
    <2>5. Coming'
      BY <1>4, <1>6, <2>1, <2>2, <2>3 DEF IInv, Coming
    <2> QED
      BY <1>1, <1>4, <2>1, <2>2, <2>3, <2>4, <2>5 DEF IInv, Halves
  <1> QED
    BY <1>7, <1>8

\* A voice server is handled: it is for where the account is, or for where it comes.
LEMMA ServerHandled ==
  ASSUME IInv, Receives("server"), HasEndpoint(Head(events)), UNCHANGED <<channel, serverVars>>
  PROVE  LET e == Head(events) IN
         /\ Follows' /\ Paired(events', channel') /\ NewestAll(events', token', at')
         /\ OfferedAll(events', at')
         /\ e \in Update /\ NewestFrom(events', 0, e.token, e.guild, token', at')
         /\ Guild(channel) = e.guild \/ FirstSelf(events', 0, e.guild)
         /\ conn # None => pending.server = None
  <1> DEFINE e == Head(events)
  <1>1. events \in Seq(Event) /\ events # <<>> /\ e \in Event
    BY TailOf DEF IInv, Guarded, Types, Receives
  <1>2. e \in Update /\ e \notin Self /\ channel' = Next1(channel, e)
    BY <1>1, Kinds DEF Receives, Next1
  <1>3. /\ Follows' /\ Paired(events', channel') /\ NewestAll(events', token', at')
        /\ OfferedAll(events', at') /\ events' = Tail(events) /\ at' = at /\ token' = token
        /\ e = events[1] /\ 1 \in 1..Len(events)
    BY <1>2, Handled
  <1>4. NewestFrom(events', 0, e.token, e.guild, token', at')
    <2>1. NewestFrom(events, 1, e.token, e.guild, token, at)
      BY <1>2, <1>3 DEF IInv, Newest, NewestAll
    <2>2. ASSUME NEW t, NEW g, NewestFrom(events, 1, t, g, token, at)
          PROVE  NewestFrom(events', 0, t, g, token', at')
      <3>1. NewestFrom(Tail(events), 1 - 1, t, g, token, at)
        BY <1>1, <1>3, <2>2, NewestTail
      <3> QED
        BY <1>3, <3>1
    <2> QED
      BY <2>1, <2>2
  <1>5. Guild(channel) = e.guild \/ FirstSelf(events', 0, e.guild)
    <2>1. PairedAt(events, channel, 1)
      BY <1>2, <1>3 DEF IInv, Paired
    <2> PICK x \in Places \cup {Nowhere} :
          /\ ChannelIs(events, channel, 1, x)
          /\ Guild(x) = e.guild \/ FirstSelf(events, 1, e.guild)
      BY <1>3, <2>1 DEF PairedAt
    <2>2. x = channel
      BY DEF ChannelIs, LastIs
    <2>3. FirstSelf(events, 1, e.guild) => FirstSelf(events', 0, e.guild)
      <3>1. 1 \in 0..Len(events) /\ 1 - 1 = 0 /\ 1 >= 1
        BY <1>1, <1>3
      <3>2. \A g : FirstSelf(events, 1, g) => FirstSelf(Tail(events), 1 - 1, g)
        BY <1>1, <3>1, FirstSelfTail
      <3> QED
        BY <1>3, <3>1, <3>2
    <2> QED
      BY <2>2, <2>3
  <1>6. \A g : ~FirstSelf(events, 0, g)
    <2>1. 0 \in 0..Len(events)
      BY <1>1
    <2> QED
      BY <1>1, <1>2, <2>1, FirstSelfTail
  <1>7. conn # None => pending.server = None
    BY <1>6 DEF IInv, Coming
  <1> QED
    BY <1>2, <1>3, <1>4, <1>5, <1>7

LEMMA ServerStep ==
  ASSUME IInv, OnServerReplaced \/ OnServerUpdate
  PROVE  Follows' /\ Paired(events', channel') /\ Newest' /\ Coming' /\ Halves'
  <1> DEFINE e == Head(events)
  <1>1. /\ Follows' /\ Paired(events', channel') /\ NewestAll(events', token', at')
        /\ OfferedAll(events', at')
        /\ e \in Update /\ NewestFrom(events', 0, e.token, e.guild, token', at')
        /\ Guild(channel) = e.guild \/ FirstSelf(events', 0, e.guild)
        /\ (conn # None => pending.server = None) /\ channel' = channel
    BY ServerHandled DEF OnServerReplaced, OnServerUpdate
  <1>2. e.guild \in Guilds /\ e.token \in 1..MaxTokens
    BY <1>1, Kinds
  <1>3. ASSUME NEW m \in BOOLEAN, Connect(e.token, tasks, m), m \/ Guild(channel) = e.guild,
               channel # Nowhere, pending' \in {pending, NoPending},
               pending.server = None \/ pending' = NoPending
        PROVE  Newest' /\ Coming' /\ Halves'
    <2>1. /\ conn' = [place |-> channel', token |-> e.token, phase |-> "connecting", started |-> FALSE,
                       mixed |-> m]
          /\ gone' = FALSE
      BY <1>3 DEF Connect
    <2>2. conn' # None
      <3>1. channel' \in Places
        BY <1>1, <1>3 DEF IInv, Guarded, Types
      <3>2. conn' \in Conn
        BY <1>2, <2>1, <3>1 DEF Conn, Phases
      <3> QED
        BY <3>2, VoiceManagerAssumption
    <2>3. pending'.server = None
      BY <1>3 DEF NoPending
    <2>4. ConnNewest'
      <3>1. conn'.token = e.token /\ (conn'.mixed \/ Guild(conn'.place) = e.guild)
        BY <1>1, <1>3, <2>1
      <3> QED
        BY <1>1, <1>2, <3>1 DEF ConnNewest
    <2> QED
      BY <1>1, <1>3, <2>1, <2>2, <2>3, <2>4 DEF Newest, Coming, Halves
  <1>4. CASE OnServerReplaced
    <2>1. /\ Connect(e.token, tasks, FALSE) /\ channel # Nowhere /\ pending' = pending
          /\ pending.server = None /\ Guild(channel) = e.guild
      BY <1>1, <1>2, <1>4, GuildOf DEF OnServerReplaced
    <2> QED
      BY <1>1, <1>3, <2>1
  <1>5. CASE OnServerUpdate /\ pending.state /\ channel # Nowhere
    <2>1. Connect(e.token, tasks, Guild(channel) # e.guild) /\ pending' = NoPending
      BY <1>5 DEF OnServerUpdate
    <2> QED
      BY <1>1, <1>3, <1>5, <2>1
  <1>6. CASE OnServerUpdate /\ ~(pending.state /\ channel # Nowhere)
    <2>1. /\ ~(conn # None /\ Guild(channel) = e.guild) /\ pending' = Remembered(e)
          /\ UNCHANGED <<conn, gone>>
      BY <1>6 DEF OnServerUpdate, callVars
    <2>2. conn # None => Guild(channel) # e.guild
      BY <2>1
    <2>3. /\ pending'.server = [guild |-> e.guild, token |-> e.token] /\ pending'.state = pending.state
          /\ pending'.server # None
      BY <1>2, <2>1, VoiceManagerAssumption DEF Remembered, IInv, Guarded, Types, Half
    <2>4. conn = None /\ ~gone => channel = Nowhere
      BY <1>6 DEF IInv, Halves
    <2>5. ~(conn = None /\ gone) => FirstSelf(events', 0, e.guild)
      BY <1>1, <1>2, <2>2, <2>4, GuildOf
    <2> QED
      BY <1>1, <1>6, <2>1, <2>2, <2>3, <2>4, <2>5 DEF IInv, Newest, Coming, Halves
  <1> QED
    BY <1>4, <1>5, <1>6

-----------------------------------------------------------------------------
(* The server sends, and the voice thread goes on.                         *)

\* The client's side of a step of the server.
Away == UNCHANGED <<channel, conn, gone, pending>>

LEMMA Sent ==
  ASSUME IInv, Away, NewestAll(events', token', at'), OfferedAll(events', at'),
         \A t, g : NewestFrom(events, 0, t, g, token, at) => NewestFrom(events', 0, t, g, token', at'),
         Offered(events, 0, at) => Offered(events', 0, at'),
         \A g : FirstSelf(events, 0, g) => FirstSelf(events', 0, g)
  PROVE  Newest' /\ Coming' /\ Halves'
  BY DEF Away, IInv, Newest, ConnNewest, Coming, Halves

\* A step that leaves the events and the call as they are, but for the connection's phase.
Call == /\ UNCHANGED <<events, at, token, channel, pending, gone>>
        /\ \/ UNCHANGED conn
           \/ /\ conn # None /\ conn' # None /\ conn'.place = conn.place /\ conn'.token = conn.token
              /\ conn'.mixed = conn.mixed

LEMMA SameCall ==
  ASSUME IInv, Call
  PROVE  Follows' /\ Paired(events', channel') /\ Newest' /\ Coming' /\ Halves'
  BY DEF IInv, Call, Follows, Newest, ConnNewest, Coming, Halves

\* A state of the account or of another user is sent.
LEMMA StateSent ==
  ASSUME IInv, Away, NEW e \in Event, events' = Append(events, e), token' = token, e \notin Update,
         IF e \in Self THEN e.place = at' ELSE at' = at,
         at' # Nowhere => at # Nowhere /\ Guild(at') = Guild(at)
  PROVE  Follows' /\ Paired(events', channel') /\ Newest' /\ Coming' /\ Halves'
  <1>1. /\ events \in Seq(Event) /\ 0 \in 0..Len(events) /\ Follows /\ Paired(events, channel)
        /\ NewestAll(events, token, at) /\ OfferedAll(events, at) /\ channel' = channel
    BY Appended DEF Away, IInv, Guarded, Types, Newest, Coming
  <1>2. Guild(at') = Guild(at) \/ e \in Leave
    BY Kinds
  <1>3. at' # Nowhere => at # Nowhere /\ e \notin Leave
    BY Kinds
  <1>4. Follows'
    BY <1>1, ChannelAppend DEF Follows
  <1>5. Paired(events', channel')
    BY <1>1, PairedAllAppend
  <1>6. NewestAll(events', token', at') /\ OfferedAll(events', at')
    BY <1>1, <1>2, <1>3, NewestAllAppend, OfferedAllAppend
  <1>7. \A t, g : NewestFrom(events, 0, t, g, token, at) => NewestFrom(events', 0, t, g, token', at')
    BY <1>1, <1>2, NewestAppend
  <1>8. Offered(events, 0, at) => Offered(events', 0, at')
    BY <1>1, <1>3, OfferedAppend
  <1>9. \A g : FirstSelf(events, 0, g) => FirstSelf(events', 0, g)
    BY <1>1, FirstSelfAppend
  <1> QED
    BY <1>4, <1>5, <1>6, <1>7, <1>8, <1>9, Sent

\* A voice server is sent, behind the state that it is for or the loss of the last one.
LEMMA ServerSent ==
  ASSUME IInv, Away, NEW a \in Event, NEW b \in Update, events' = Append(Append(events, a), b),
         b.token = token', b.guild = Guild(at'), at' \in Places \cup {Nowhere}, a \notin Update,
         IF a \in Self THEN a.place = at' ELSE at' = at
  PROVE  Follows' /\ Paired(events', channel') /\ Newest' /\ Coming' /\ Halves'
  <1> DEFINE w == Append(events, a)
  <1>1. /\ events \in Seq(Event) /\ 0 \in 0..Len(events) /\ w \in Seq(Event) /\ 0 \in 0..Len(w)
        /\ Follows /\ Paired(events, channel) /\ channel' = channel /\ events' = Append(w, b)
        /\ b \in Event /\ b \notin Self
    BY Appended, Kinds DEF Away, IInv, Guarded, Types
  <1>2. ChannelIs(w, channel, Len(w) + 1, at')
    BY <1>1, ChannelAppend DEF Follows
  <1>3. Paired(w, channel)
    BY <1>1, PairedAllAppend
  <1>4. \A g : FirstSelf(events, 0, g) => FirstSelf(w, 0, g)
    BY <1>1, FirstSelfAppend
  <1> HIDE DEF w
  <1>5. Follows'
    BY <1>1, <1>2, ChannelAppend DEF Follows
  <1>6. PairedAt(Append(w, b), channel, Len(w) + 1)
    BY <1>1, <1>2, PairedHere
  <1>7. Paired(events', channel')
    BY <1>1, <1>3, <1>6, PairedAllAppend
  <1>8. NewestAll(events', token', at') /\ OfferedAll(events', at')
    <2>1. NewestAll(Append(w, b), token', at')
      BY <1>1, NewestAllAppend
    <2>2. OfferedAll(Append(w, b), at')
      BY <1>1, OfferedAllAppend
    <2> QED
      BY <1>1, <2>1, <2>2
  <1>9. (\A t, g : NewestFrom(events', 0, t, g, token', at')) /\ Offered(events', 0, at')
    BY <1>1, NewestAppend, OfferedAppend
  <1>10. \A g : FirstSelf(events, 0, g) => FirstSelf(events', 0, g)
    BY <1>1, <1>4, FirstSelfAppend
  <1> QED
    BY <1>5, <1>7, <1>8, <1>9, <1>10, Sent

\* A voice server is sent before the state that it is for, wherever the account is.
LEMMA ServerSentFirst ==
  ASSUME IInv, Away, NEW a \in Self, NEW b \in Update, events' = Append(Append(events, b), a),
         b.token = token', b.guild = Guild(at'), at' \in Places, a.place = at'
  PROVE  Follows' /\ Paired(events', channel') /\ Newest' /\ Coming' /\ Halves'
  <1> DEFINE w == Append(events, b)
             n == Len(events) + 1
  <1>1. /\ events \in Seq(Event) /\ 0 \in 0..Len(events) /\ w \in Seq(Event) /\ 0 \in 0..Len(w)
        /\ Follows /\ Paired(events, channel) /\ channel' = channel /\ events' = Append(w, a)
        /\ a \in Event /\ b \in Event /\ a \notin Update /\ a \notin Leave /\ at' # Nowhere
    BY Appended, Kinds, GuildOf DEF Away, IInv, Guarded, Types
  <1>2. /\ Len(w) = n /\ n \in 1..Len(w) /\ w[n] = b /\ \A i \in 1..Len(events) : w[i] = events[i]
    BY <1>1, Appended
  <1>3. \A i \in 1..Len(events) : PairedAt(events, channel, i) => PairedAt(w, channel, i)
    BY <1>1, PairedAppend
  <1>4. ChannelIs(w, channel, n, at)
    <2>1. ChannelIs(events, channel, n, at) /\ n \in 1..Len(events) + 1
      BY <1>1 DEF Follows
    <2> QED
      BY <1>1, <2>1, ChannelAppend
  <1>5. \A g : FirstSelf(events, 0, g) => FirstSelf(w, 0, g)
    BY <1>1, FirstSelfAppend
  <1>6. NewestAll(w, token', at') /\ OfferedAll(w, at') /\ Offered(w, 0, at')
        /\ \A t, g : NewestFrom(w, 0, t, g, token', at')
    BY <1>1, NewestAllAppend, OfferedAllAppend, OfferedAppend, NewestAppend
  <1> HIDE DEF w
  <1>7. Follows'
    BY <1>1, ChannelAppend DEF Follows
  <1>8. /\ Len(events') = n + 1 /\ n \in Nat /\ events'[n + 1] = a
        /\ \A i \in 1..n : events'[i] = w[i]
    BY <1>1, <1>2, Appended
  <1>9. PairedAt(events', channel, n)
    <2>1. ChannelIs(events', channel, n, at)
      <3>1. n \in 1..Len(w) + 1
        BY <1>1, <1>2
      <3> QED
        BY <1>1, <1>4, <3>1, ChannelAppend
    <2>2. FirstSelf(events', n, Guild(at'))
      <3>1. n + 1 \in n + 1..Len(events') /\ \A j \in n + 1..n + 1 - 1 : FALSE
        BY <1>8
      <3> QED
        BY <1>1, <1>8, <3>1 DEF FirstSelf
    <2>3. events'[n] = b /\ at \in Places \cup {Nowhere}
      BY <1>2, <1>8 DEF IInv, Guarded, Types
    <2> QED
      BY <2>1, <2>2, <2>3 DEF PairedAt
  <1>10. Paired(events', channel')
    <2> SUFFICES ASSUME NEW i \in 1..Len(events'), events'[i] \in Update PROVE PairedAt(events', channel, i)
      BY <1>1 DEF Paired
    <2>1. CASE i = n
      BY <1>9, <2>1
    <2>2. CASE i # n
      <3>1. i \in 1..Len(events) /\ i \in 1..Len(w) /\ events'[i] = events[i]
        BY <1>1, <1>2, <1>8, <2>2
      <3>2. PairedAt(w, channel, i)
        BY <1>1, <1>3, <3>1 DEF Paired
      <3> QED
        BY <1>1, <3>1, <3>2, PairedAppend
    <2> QED
      BY <2>1, <2>2
  <1>11. NewestAll(events', token', at') /\ OfferedAll(events', at')
    BY <1>1, <1>6, NewestAllAppend, OfferedAllAppend
  <1>12. (\A t, g : NewestFrom(events', 0, t, g, token', at')) /\ Offered(events', 0, at')
    BY <1>1, <1>6, NewestAppend, OfferedAppend
  <1>13. \A g : FirstSelf(events, 0, g) => FirstSelf(events', 0, g)
    BY <1>1, <1>5, FirstSelfAppend
  <1> QED
    BY <1>7, <1>10, <1>11, <1>12, <1>13, Sent

LEMMA SrvMoveStep ==
  ASSUME IInv, NEW p \in Places \cup {Nowhere}, SrvMove(p)
  PROVE  Follows' /\ Paired(events', channel') /\ Newest' /\ Coming' /\ Halves'
  <1> DEFINE a == SelfEvent(p, mute')
             b == ServerEvent(Guild(p), token')
  <1>1. p # at /\ at' = p /\ Away /\ mute' \in BOOLEAN /\ events \in Seq(Event)
    BY DEF SrvMove, callVars, Away, IInv, Guarded, Types
  <1>2. a \in Self /\ a.place = p /\ a \in Event /\ a \notin Update
    BY <1>1, Makes, Kinds
  <1>3. CASE Guild(p) \in {Guild(at), None}
    <2>1. events' = Append(events, a) /\ token' = token
      BY <1>3 DEF SrvMove
    <2>2. p # Nowhere => at # Nowhere /\ Guild(p) = Guild(at)
      BY <1>3, GuildOf
    <2> HIDE DEF a
    <2> QED
      BY <1>1, <1>2, <2>1, <2>2, StateSent
  <1>4. CASE Guild(p) \notin {Guild(at), None}
    <2>1. /\ token' = token + 1 /\ token < MaxTokens
          /\ events' = events \o <<a, b>> \/ events' = events \o <<b, a>>
      BY <1>4 DEF SrvMove
    <2>2. p \in Places /\ Guild(p) \in Guilds /\ token' \in 1..MaxTokens
      BY <1>4, <2>1, GuildOf, VoiceManagerAssumption DEF IInv, Guarded, Types
    <2>3. b \in Update /\ b.guild = Guild(p) /\ b.token = token' /\ b \in Event
      BY <2>2, Makes, Kinds
    <2> HIDE DEF a, b
    <2>4. events \o <<a, b>> = Append(Append(events, a), b) /\ events \o <<b, a>> = Append(Append(events, b), a)
      BY <1>1, <1>2, <2>3, TwoAppended
    <2>5. CASE events' = events \o <<a, b>>
      BY <1>1, <1>2, <2>3, <2>4, <2>5, ServerSent
    <2>6. CASE events' = events \o <<b, a>>
      BY <1>1, <1>2, <2>2, <2>3, <2>4, <2>6, ServerSentFirst
    <2> QED
      BY <2>1, <2>5, <2>6
  <1> QED
    BY <1>3, <1>4

LEMMA ServerSends ==
  ASSUME IInv, Server
  PROVE  Follows' /\ Paired(events', channel') /\ Newest' /\ Coming' /\ Halves'
  <1>1. at \in Places \cup {Nowhere} /\ mute \in BOOLEAN /\ token \in 0..MaxTokens /\ events \in Seq(Event)
    BY DEF IInv, Guarded, Types
  <1>2. CASE SrvMute
    <2>1. SelfEvent(at, mute') \in Self /\ SelfEvent(at, mute').place = at
      BY <1>1, <1>2, Makes DEF SrvMute
    <2>2. /\ events' = Append(events, SelfEvent(at, mute')) /\ at' = at /\ token' = token /\ Away
      BY <1>2 DEF SrvMute, callVars, Away
    <2> QED
      BY <2>1, <2>2, Kinds, StateSent
  <1>3. CASE SrvServer
    <2> DEFINE a == ServerEvent(Guild(at), 0)
               b == ServerEvent(Guild(at), token')
    <2>1. /\ at # Nowhere /\ token' = token + 1 /\ token < MaxTokens /\ at' = at /\ Away
          /\ events' = events \o <<a, b>>
      BY <1>3 DEF SrvServer, callVars, Away
    <2>2. Guild(at) \in Guilds /\ token' \in 1..MaxTokens
      BY <1>1, <2>1, GuildOf, VoiceManagerAssumption
    <2>3. /\ a \in Event /\ a \notin Update \cup Self
          /\ b \in Update /\ b.guild = Guild(at) /\ b.token = token' /\ b \in Event
      <3>1. 1 \in 1..MaxTokens
        BY <2>2, VoiceManagerAssumption
      <3> QED
        BY <2>2, <3>1, Makes, Kinds
    <2> HIDE DEF a, b
    <2>4. events' = Append(Append(events, a), b)
      BY <1>1, <2>1, <2>3, TwoAppended
    <2> QED
      BY <1>1, <2>1, <2>3, <2>4, ServerSent
  <1>4. ASSUME NEW p \in Places \cup {Nowhere}, NEW u \in Users, SrvUser(u, p)
        PROVE  Follows' /\ Paired(events', channel') /\ Newest' /\ Coming' /\ Halves'
    <2> DEFINE e == [type |-> "user", user |-> u, place |-> p]
    <2>1. e \in Event /\ e \notin Update \cup Self
      BY Makes
    <2>2. events' = Append(events, e) /\ at' = at /\ token' = token /\ Away
      BY <1>4 DEF SrvUser, callVars, Away
    <2> HIDE DEF e
    <2> QED
      BY <2>1, <2>2, StateSent
  <1>5. ASSUME NEW u \in Users, SrvReport(u)
        PROVE  Follows' /\ Paired(events', channel') /\ Newest' /\ Coming' /\ Halves'
    BY <1>5, SameCall DEF SrvReport, callVars, Call
  <1> QED
    BY <1>2, <1>3, <1>4, <1>5, SrvMoveStep DEF Server

LEMMA ThreadGoesOn ==
  ASSUME IInv, VoiceThread
  PROVE  Follows' /\ Paired(events', channel') /\ Newest' /\ Coming' /\ Halves'
  <1>1. UNCHANGED <<events, at, token, channel, pending, gone>>
    BY DEF VoiceThread, ClientConnects, ClientEnds, RunTask, ThreadUnchanged
  <1>2. /\ conn # None /\ conn' # None /\ conn'.place = conn.place /\ conn'.token = conn.token
        /\ conn'.mixed = conn.mixed
    BY ThreadStep DEF IInv, Guarded
  <1> QED
    BY <1>1, <1>2, SameCall DEF Call

LEMMA SignalStep ==
  ASSUME IInv, OnSignal
  PROVE  Follows' /\ Paired(events', channel') /\ Newest' /\ Coming' /\ Halves'
  <1>1. CASE OnVoiceClientDisconnected
    <2>1. /\ UNCHANGED <<events, channel, at, token, pending>> /\ conn' = None /\ gone' = TRUE
      BY <1>1 DEF OnVoiceClientDisconnected, serverVars
    <2> QED
      BY <2>1 DEF IInv, Follows, Newest, Coming, Halves
  <1>2. CASE ~OnVoiceClientDisconnected
    BY <1>2, SameCall DEF OnSignal, OnStaleSignal, OnVoiceClientConnected, OnClientConnected,
                          OnClientDisconnected, serverVars, callVars, Call
  <1> QED
    BY <1>1, <1>2

-----------------------------------------------------------------------------
(* The posted calls.                                                       *)

\* A set of numbers that has a member has a least one, ...
LEMMA LeastNatural ==
  ASSUME NEW T \in SUBSET Nat, T # {}
  PROVE  \E n \in T : \A m \in T : n <= m
  <1>1. PICK n \in T : \A m \in T : <<m, n>> \notin OpToRel(<, Nat)
    BY WFMin, NatLessThanWellFounded
  <1>2. \A m \in T : ~(m < n)
    BY <1>1, Zenon DEF OpToRel
  <1> QED
    BY <1>2

\* ... so a set with zero and every successor of a member has all of them.
LEMMA AllNaturals ==
  ASSUME NEW T \in SUBSET Nat, 0 \in T, \A k \in Nat : k \in T => k + 1 \in T
  PROVE  T = Nat
  <1> SUFFICES ASSUME Nat \ T # {} PROVE FALSE
    OBVIOUS
  <1>1. PICK n \in Nat \ T : \A m \in Nat \ T : n <= m
    BY LeastNatural
  <1>2. n - 1 \in Nat /\ n - 1 \in T
    BY <1>1
  <1> QED
    BY <1>1, <1>2

Audios == [started : BOOLEAN, capture : BOOLEAN]

LEMMA DoesIs ==
  ASSUME NEW a \in Audios
  PROVE  /\ \A t \in Tasks : Does(a, t) \in Audios
         /\ Does(a, "start").started /\ Does(a, "start").capture = (a.capture \/ ~a.started)
         /\ Does(a, "startMuted").started /\ Does(a, "startMuted").capture = a.capture
         /\ Does(a, "startCapture").started = a.started
         /\ Does(a, "startCapture").capture = (a.capture \/ a.started)
         /\ Does(a, "stopCapture").started = a.started
         /\ Does(a, "stopCapture").capture = (a.capture /\ ~a.started)
  <1>1. a.started \in BOOLEAN /\ a.capture \in BOOLEAN /\ a = [started |-> a.started, capture |-> a.capture]
    BY DEF Audios
  <1>2. Does(a, "start") = [started |-> TRUE, capture |-> a.capture \/ ~a.started]
    BY DEF Does
  <1>3. Does(a, "startMuted") = [started |-> TRUE, capture |-> a.capture]
    BY <1>1 DEF Does, Audios
  <1>4. Does(a, "startCapture") = [started |-> a.started, capture |-> a.capture \/ a.started]
    BY <1>1 DEF Does, Audios
  <1>5. Does(a, "stopCapture") = [started |-> a.started, capture |-> a.capture /\ ~a.started]
    BY <1>1 DEF Does, Audios
  <1>6. ASSUME NEW t \in Tasks PROVE Does(a, t) \in Audios
    <2>1. \A s, c \in BOOLEAN : [started |-> s, capture |-> c] \in Audios
      BY DEF Audios
    <2>2. /\ (a.capture \/ ~a.started) \in BOOLEAN /\ (a.capture \/ a.started) \in BOOLEAN
          /\ (a.capture /\ ~a.started) \in BOOLEAN
      BY <1>1
    <2>3. t = "start" \/ t = "startMuted" \/ t = "startCapture" \/ t = "stopCapture"
      BY DEF Tasks
    <2>4. CASE t = "start"
      BY <1>2, <2>1, <2>2, <2>4
    <2>5. CASE t = "startMuted"
      BY <1>1, <1>3, <2>1, <2>5
    <2>6. CASE t = "startCapture"
      BY <1>1, <1>4, <2>1, <2>2, <2>6
    <2>7. CASE t = "stopCapture"
      BY <1>1, <1>5, <2>1, <2>2, <2>7
    <2> QED
      BY <2>3, <2>4, <2>5, <2>6, <2>7
  <1> QED
    BY <1>2, <1>3, <1>4, <1>5, <1>6

\* The recursion of After has the solution that it describes.
LEMMA AfterIs ==
  ASSUME NEW a \in Audios, NEW ts \in Seq(Tasks)
  PROVE  /\ After(a, ts) \in [0..Len(ts) -> Audios] /\ After(a, ts)[0] = a
         /\ \A k \in 1..Len(ts) : After(a, ts)[k] = Does(After(a, ts)[k - 1], ts[k])
  <1> DEFINE n == Len(ts)
             At(f, k) == IF k = 0 THEN a ELSE Does(f[k - 1], ts[k])
             Body(f) == [k \in 0..n |-> At(f, k)]
             Upto(f, m) == \A k \in 0..n : k <= m => f[k] = At(f, k)
             Reached == {m \in Nat : \E h \in [0..n -> Audios] : Upto(h, m)}
  <1>1. After(a, ts) = CHOOSE f : f = Body(f)
    BY Zenon DEF After
  <1>2. n \in Nat /\ \A k \in 1..n : ts[k] \in Tasks
    OBVIOUS
  <1> HIDE DEF n
  <1>3. \A f \in [0..n -> Audios], k \in 0..n : At(f, k) \in Audios
    <2> TAKE f \in [0..n -> Audios], k \in 0..n
    <2>1. CASE k = 0
      BY <2>1
    <2>2. CASE k # 0
      <3>1. f[k - 1] \in Audios /\ ts[k] \in Tasks
        BY <1>2, <2>2
      <3> QED
        BY <2>2, <3>1, DoesIs
    <2> QED
      BY <2>1, <2>2
  <1>4. 0 \in Reached
    <2> DEFINE f == [k \in 0..n |-> a]
    <2>1. f \in [0..n -> Audios] /\ Upto(f, 0)
      BY <1>2
    <2> HIDE DEF f, Upto
    <2> QED
      BY <2>1
  <1>5. ASSUME NEW m \in Nat, m \in Reached PROVE m + 1 \in Reached
    <2> PICK f \in [0..n -> Audios] : Upto(f, m)
      BY <1>5
    <2> DEFINE g == [k \in 0..n |-> IF k = m + 1 THEN At(f, k) ELSE f[k]]
    <2>1. g \in [0..n -> Audios]
      <3> HIDE DEF At
      <3> QED
        BY <1>3
    <2>2. ASSUME NEW k \in 0..n, k <= m + 1 PROVE g[k] = At(g, k)
      <3>1. k # 0 => k - 1 \in 0..n /\ g[k - 1] = f[k - 1]
        <4> HIDE DEF At
        <4> QED
          BY <1>2, <2>2
      <3>2. g[k] = At(f, k)
        <4> HIDE DEF At
        <4>1. k = m + 1 \/ k <= m
          BY <1>2, <2>2
        <4> QED
          BY <4>1
      <3> HIDE DEF g
      <3> QED
        BY <3>1, <3>2
    <2>3. Upto(g, m + 1)
      BY <2>2
    <2> HIDE DEF g, Upto
    <2> QED
      BY <2>1, <2>3
  <1>6. n \in Reached
    <2>1. Reached \in SUBSET Nat
      OBVIOUS
    <2> HIDE DEF Reached
    <2> QED
      BY <1>2, <1>4, <1>5, <2>1, AllNaturals
  <1>7. \E f \in [0..n -> Audios] : f = Body(f)
    <2> PICK f \in [0..n -> Audios] : Upto(f, n)
      BY <1>6
    <2> HIDE DEF At
    <2>1. \A k \in 0..n : f[k] = At(f, k)
      BY <1>2
    <2> QED
      BY <2>1
  <1> DEFINE F == CHOOSE f : f = Body(f)
  <1>8. F = Body(F)
    BY <1>7
  <1> HIDE DEF F
  <1>9. F = [k \in 0..n |-> F[k]] /\ \A k \in 0..n : F[k] = At(F, k)
    BY <1>8
  <1>14. \A k \in 1..n : k \in 0..n /\ k # 0
    BY <1>2
  <1>15. F[0] = a /\ \A k \in 1..n : F[k] = Does(F[k - 1], ts[k])
    BY <1>2, <1>9, <1>14
  <1> DEFINE Bounded == {m \in Nat : m <= n => F[m] \in Audios}
  <1>10. 0 \in Bounded
    BY <1>2, <1>9
  <1>11. ASSUME NEW m \in Nat, m \in Bounded PROVE m + 1 \in Bounded
    <2> SUFFICES ASSUME m + 1 <= n PROVE F[m + 1] \in Audios
      OBVIOUS
    <2>1. m + 1 \in 0..n /\ m + 1 # 0 /\ m + 1 - 1 = m /\ m + 1 \in 1..n /\ F[m] \in Audios
      BY <1>2, <1>11
    <2>2. F[m + 1] = Does(F[m], ts[m + 1]) /\ ts[m + 1] \in Tasks
      BY <1>2, <1>15, <2>1
    <2>3. \A x \in Audios, t \in Tasks : Does(x, t) \in Audios
      BY DoesIs
    <2> QED
      BY <2>1, <2>2, <2>3
  <1>12. Bounded = Nat
    <2>1. Bounded \in SUBSET Nat
      OBVIOUS
    <2> HIDE DEF Bounded
    <2> QED
      BY <1>10, <1>11, <2>1, AllNaturals
  <1>13. F \in [0..n -> Audios]
    <2>1. \A m \in 0..n : m \in Nat /\ m <= n
      BY <1>2
    <2>2. \A m \in 0..n : F[m] \in Audios
      BY <1>12, <2>1
    <2> QED
      BY <1>9, <2>2
  <1>16. After(a, ts) = F
    BY <1>1 DEF F
  <1> QED
    BY <1>13, <1>15, <1>16 DEF n

\* ... and no other.
Solves(f, a, ts) == f[0] = a /\ \A k \in 1..Len(ts) : f[k] = Does(f[k - 1], ts[k])

LEMMA AfterOnly ==
  ASSUME NEW a \in Audios, NEW ts \in Seq(Tasks), NEW f, Solves(f, a, ts)
  PROVE  \A k \in 0..Len(ts) : After(a, ts)[k] = f[k]
  <1> DEFINE g == After(a, ts)
             n == Len(ts)
             Same == {m \in Nat : m <= n => g[m] = f[m]}
  <1>1. g[0] = a /\ \A k \in 1..n : g[k] = Does(g[k - 1], ts[k])
    BY AfterIs
  <1>2. n \in Nat
    OBVIOUS
  <1>3. f[0] = a /\ \A k \in 1..n : f[k] = Does(f[k - 1], ts[k])
    BY DEF Solves
  <1> HIDE DEF g, n
  <1>4. 0 \in Same
    BY <1>1, <1>3
  <1>5. ASSUME NEW m \in Nat, m \in Same PROVE m + 1 \in Same
    <2> SUFFICES ASSUME m + 1 <= n PROVE g[m + 1] = f[m + 1]
      OBVIOUS
    <2>1. m + 1 \in 1..n /\ m + 1 - 1 = m /\ g[m] = f[m]
      BY <1>2, <1>5
    <2> QED
      BY <1>1, <1>3, <2>1
  <1>6. Same = Nat
    <2>1. Same \in SUBSET Nat
      OBVIOUS
    <2> HIDE DEF Same
    <2> QED
      BY <1>4, <1>5, <2>1, AllNaturals
  <1>7. \A k \in 0..n : k \in Nat /\ k <= n
    BY <1>2
  <1> QED
    BY <1>6, <1>7 DEF g, n

\* What all the calls ts make of the audio.
Outcome(a, ts) == After(a, ts)[Len(ts)]

LEMMA OutcomeNone ==
  ASSUME NEW a \in Audios PROVE Outcome(a, <<>>) = a
  <1>1. <<>> \in Seq(Tasks) /\ Len(<<>>) = 0
    OBVIOUS
  <1> QED
    BY <1>1, AfterIs DEF Outcome

LEMMA OutcomeType ==
  ASSUME NEW a \in Audios, NEW ts \in Seq(Tasks)
  PROVE  Outcome(a, ts) \in Audios /\ \A k \in 0..Len(ts) : After(a, ts)[k] \in Audios
  BY AfterIs DEF Outcome

LEMMA OutcomeTail ==
  ASSUME NEW a \in Audios, NEW ts \in Seq(Tasks), ts # <<>>
  PROVE  Outcome(Does(a, Head(ts)), Tail(ts)) = Outcome(a, ts)
  <1> DEFINE n == Len(ts)
             v == Tail(ts)
             b == Does(a, Head(ts))
             f == [k \in 0..n - 1 |-> After(a, ts)[k + 1]]
  <1>1. /\ n \in Nat \ {0} /\ v \in Seq(Tasks) /\ Len(v) = n - 1 /\ Head(ts) = ts[1] /\ ts[1] \in Tasks
        /\ \A k \in 1..n - 1 : v[k] = ts[k + 1]
    OBVIOUS
  <1>2. After(a, ts)[0] = a /\ \A k \in 1..n : After(a, ts)[k] = Does(After(a, ts)[k - 1], ts[k])
    BY AfterIs
  <1>3. b \in Audios
    BY <1>1, DoesIs
  <1>4. 0 \in 0..n - 1 /\ 1 \in 1..n /\ 1 - 1 = 0 /\ 0 + 1 = 1 /\ n - 1 \in 0..n - 1 /\ n - 1 + 1 = n
    BY <1>1
  <1> HIDE DEF v, n
  <1>5. f[0] = b
    BY <1>1, <1>2, <1>4
  <1>6. ASSUME NEW k \in 1..Len(v) PROVE f[k] = Does(f[k - 1], v[k])
    <2>1. k \in 0..n - 1 /\ k - 1 \in 0..n - 1 /\ k - 1 + 1 = k /\ k + 1 \in 1..n /\ k + 1 - 1 = k
          /\ v[k] = ts[k + 1]
      BY <1>1
    <2> QED
      BY <1>2, <2>1
  <1> HIDE DEF b
  <1>7. After(b, v)[n - 1] = f[n - 1]
    <2>1. n - 1 \in 0..Len(v)
      BY <1>1
    <2>2. Solves(f, b, v)
      BY <1>5, <1>6 DEF Solves
    <2> HIDE DEF f
    <2>3. \A k \in 0..Len(v) : After(b, v)[k] = f[k]
      BY <1>1, <1>3, <2>2, AfterOnly
    <2> QED
      BY <2>1, <2>3
  <1>8. f[n - 1] = After(a, ts)[n]
    BY <1>4
  <1> QED
    BY <1>1, <1>7, <1>8 DEF Outcome, b, v, n

LEMMA OutcomePosted ==
  ASSUME NEW a \in Audios, NEW ts \in Seq(Tasks), NEW t \in Tasks
  PROVE  Outcome(a, ts \o <<t>>) = Does(Outcome(a, ts), t)
  <1> DEFINE n == Len(ts)
             v == ts \o <<t>>
             f == After(a, v)
  <1>1. /\ n \in Nat /\ v \in Seq(Tasks) /\ Len(v) = n + 1 /\ v[n + 1] = t
        /\ \A k \in 1..n : v[k] = ts[k] /\ k \in 1..n + 1
    OBVIOUS
  <1> HIDE DEF v
  <1>2. f[0] = a /\ \A k \in 1..n + 1 : f[k] = Does(f[k - 1], v[k])
    <2>1. After(a, v)[0] = a /\ \A k \in 1..Len(v) : After(a, v)[k] = Does(After(a, v)[k - 1], v[k])
      BY <1>1, AfterIs
    <2> QED
      BY <1>1, <2>1
  <1> HIDE DEF f
  <1>3. After(a, ts)[n] = f[n]
    <2>1. Solves(f, a, ts)
      BY <1>1, <1>2 DEF Solves
    <2>2. n \in 0..n
      BY <1>1
    <2> QED
      BY <2>1, <2>2, AfterOnly
  <1>4. n + 1 \in 1..n + 1 /\ n + 1 - 1 = n
    BY <1>1
  <1>5. f[n + 1] = Does(f[n], t)
    BY <1>1, <1>2, <1>4
  <1> QED
    BY <1>1, <1>3, <1>5 DEF Outcome, v, f

-----------------------------------------------------------------------------
(* The types of the rest of the state, and the microphone.                 *)

Rest ==
  /\ userAt \in [Users -> Places \cup {Nowhere}] /\ reported \subseteq Users
  /\ moves \in 0..MaxMoves /\ mutes \in 0..MaxMutes /\ silent \in BOOLEAN
  /\ known \in [Users -> Places \cup {Nowhere}] /\ participants \subseteq Users
  /\ (conn # None => channel # Nowhere)
  /\ capture \in BOOLEAN /\ lost \in BOOLEAN /\ gone \in BOOLEAN

\* The audio of an account that is muted or not, as m says.
Agrees(a, m) == a.capture <=> a.started /\ ~m

\* Once the posted calls have run, the microphone is on exactly when the pipeline is
\* started and the account is not muted.
Mic == ~lost => IF conn = None THEN tasks = <<>> /\ ~capture ELSE Agrees(Outcome(Audio, tasks), silent)

LEMMA AudioType ==
  /\ conn \in Conn /\ capture \in BOOLEAN => Audio \in Audios
  /\ conn' \in Conn /\ capture' \in BOOLEAN => Audio' \in Audios
  BY DEF Audio, Audios, Conn

LEMMA AgreesDoes ==
  ASSUME NEW a \in Audios
  PROVE  /\ Agrees(a, FALSE) => /\ Agrees(Does(a, "stopCapture"), TRUE) /\ Agrees(Does(a, "start"), FALSE)
                                /\ a.capture => a.started
         /\ Agrees(a, TRUE) => /\ Agrees(Does(a, "startCapture"), FALSE) /\ Agrees(Does(a, "startMuted"), TRUE)
                               /\ a.capture => a.started
  <1>1. a.started \in BOOLEAN /\ a.capture \in BOOLEAN
    BY DEF Audios
  <1> QED
    BY <1>1, DoesIs, Zenon DEF Agrees

\* stopVoiceThread leaves no call posted and, unless its own call is lost, no microphone on.
LEMMA Stopped ==
  ASSUME Types, Rest, NEW ts \in Seq(Tasks), StopVoiceThread(ts)
  PROVE  /\ tasks' = <<>> /\ capture' \in BOOLEAN /\ lost' \in BOOLEAN /\ (~lost' => ~lost)
         /\ ~lost' /\ (conn # None => (Outcome(Audio, ts).capture => Outcome(Audio, ts).started))
                   /\ (conn = None => ~capture) => ~capture'
  <1>1. tasks' = <<>> /\ capture \in BOOLEAN /\ lost \in BOOLEAN
    BY DEF StopVoiceThread, Rest
  <1>2. CASE conn = None
    BY <1>1, <1>2 DEF StopVoiceThread
  <1>3. CASE conn # None
    <2> DEFINE a == Outcome(Audio, ts)
    <2>1. conn \in Conn /\ Audio \in Audios
      BY <1>1, <1>3, AudioType DEF Types
    <2>2. a \in Audios /\ \A k \in 0..Len(ts) : After(Audio, ts)[k] \in Audios
      BY <2>1, OutcomeType
    <2>3. \A x \in Audios : x.started \in BOOLEAN /\ x.capture \in BOOLEAN
      BY DEF Audios
    <2>4. \/ capture' = (a.capture /\ ~a.started) /\ lost' = lost
          \/ (\E k \in 0..Len(ts) : capture' = After(Audio, ts)[k].capture) /\ lost' = TRUE
      BY <1>3 DEF StopVoiceThread, Stops, Outcome
    <2> HIDE DEF a
    <2>5. CASE capture' = (a.capture /\ ~a.started) /\ lost' = lost
      <3>1. a.started \in BOOLEAN /\ a.capture \in BOOLEAN
        BY <2>2, <2>3
      <3> QED
        BY <1>1, <1>3, <2>5, <3>1 DEF a
    <2>6. CASE (\E k \in 0..Len(ts) : capture' = After(Audio, ts)[k].capture) /\ lost' = TRUE
      <3>1. capture' \in BOOLEAN
        BY <2>2, <2>3, <2>6
      <3> QED
        BY <1>1, <2>6, <3>1
    <2> QED
      BY <2>4, <2>5, <2>6
  <1> QED
    BY <1>2, <1>3

\* A mute that changes posts what keeps the calls in agreement.
LEMMA MutedLast ==
  ASSUME Audio \in Audios, tasks \in Seq(Tasks), silent \in BOOLEAN, NEW m \in BOOLEAN, conn # None,
         Agrees(Outcome(Audio, tasks), silent)
  PROVE  Agrees(Outcome(Audio, tasks \o MutePosts(m)), m)
  <1>1. Outcome(Audio, tasks) \in Audios
    BY OutcomeType
  <1>2. CASE m = silent
    <2>1. tasks \o MutePosts(m) = tasks
      BY <1>2 DEF MutePosts
    <2> QED
      BY <1>2, <2>1
  <1>3. CASE m /\ ~silent
    <2>1. MutePosts(m) = <<"stopCapture">> /\ "stopCapture" \in Tasks
      BY <1>3 DEF MutePosts, Tasks
    <2>2. Outcome(Audio, tasks \o <<"stopCapture">>) = Does(Outcome(Audio, tasks), "stopCapture")
      BY <2>1, OutcomePosted
    <2>3. Agrees(Outcome(Audio, tasks), FALSE) /\ m = TRUE
      BY <1>3
    <2> QED
      BY <1>1, <2>1, <2>2, <2>3, AgreesDoes
  <1>4. CASE ~m /\ silent
    <2>1. MutePosts(m) = <<"startCapture">> /\ "startCapture" \in Tasks
      BY <1>4 DEF MutePosts, Tasks
    <2>2. Outcome(Audio, tasks \o <<"startCapture">>) = Does(Outcome(Audio, tasks), "startCapture")
      BY <2>1, OutcomePosted
    <2>3. Agrees(Outcome(Audio, tasks), TRUE) /\ m = FALSE
      BY <1>4
    <2> QED
      BY <1>1, <2>1, <2>2, <2>3, AgreesDoes
  <1> QED
    BY <1>2, <1>3, <1>4

\* A stop of the calls there are, or of those and a mute, finds them in agreement.
LEMMA MicStopped ==
  ASSUME Types, Rest, Mic, NEW m \in BOOLEAN, NEW ts \in {tasks, tasks \o MutePosts(m)}, StopVoiceThread(ts)
  PROVE  tasks' = <<>> /\ capture' \in BOOLEAN /\ lost' \in BOOLEAN /\ (~lost' => ~capture')
  <1>1. tasks \in Seq(Tasks) /\ ts \in Seq(Tasks)
    <2>1. tasks \in Seq(Tasks) /\ MutePosts(m) \in Seq(Tasks)
      BY PostsType DEF Types
    <2>2. tasks \o MutePosts(m) \in Seq(Tasks)
      BY <2>1, Joined
    <2> QED
      BY <2>1, <2>2
  <1>2. ASSUME ~lost, conn # None PROVE \E n \in BOOLEAN : Agrees(Outcome(Audio, ts), n)
    <2>1. Audio \in Audios /\ Agrees(Outcome(Audio, tasks), silent) /\ silent \in BOOLEAN
      BY <1>2, AudioType DEF Types, Rest, Mic
    <2>2. CASE ts = tasks
      BY <2>1, <2>2
    <2>3. CASE ts = tasks \o MutePosts(m)
      BY <1>1, <1>2, <2>1, <2>3, MutedLast
    <2> QED
      BY <2>2, <2>3
  <1>3. \A n \in BOOLEAN, a \in Audios : Agrees(a, n) => (a.capture => a.started)
    BY AgreesDoes
  <1>4. ~lost /\ conn # None => (Outcome(Audio, ts).capture => Outcome(Audio, ts).started)
    <2>1. ~lost /\ conn # None => Outcome(Audio, ts) \in Audios
      BY <1>1, AudioType, OutcomeType DEF Types, Rest
    <2> QED
      BY <1>2, <1>3, <2>1
  <1>5. ~lost /\ conn = None => ~capture
    BY DEF Mic
  <1> QED
    BY <1>1, <1>4, <1>5, Stopped

-----------------------------------------------------------------------------
(* The steps.                                                              *)

LEMMA Carries ==
  /\ \A e \in Event : /\ e.type = "user" => e.user \in Users /\ e.place \in Places \cup {Nowhere}
                      /\ e.type = "self" => e.mute \in BOOLEAN /\ e.place \in Places \cup {Nowhere}
  /\ \A s \in Signal : s.type \in {"joined", "left"} => s.user \in Users
  BY DEF Event, Signal

\* Connect makes a connection for a channel.
LEMMA Connected ==
  ASSUME NEW t \in 1..MaxTokens, NEW ts, NEW m \in BOOLEAN, Connect(t, ts, m), channel' \in Places
  PROVE  /\ conn' \in Conn /\ conn' # None /\ conn'.phase = "connecting" /\ conn'.started = FALSE
         /\ gone' = FALSE /\ StopVoiceThread(ts) /\ channel' # Nowhere
  <1>1. conn' = [place |-> channel', token |-> t, phase |-> "connecting", started |-> FALSE, mixed |-> m]
    BY DEF Connect
  <1>2. conn' \in Conn
    BY <1>1 DEF Conn, Phases
  <1>3. conn' # None /\ channel' # Nowhere
    BY <1>2, VoiceManagerAssumption
  <1>4. conn'.phase = "connecting" /\ conn'.started = FALSE
    BY <1>1
  <1> QED
    BY <1>2, <1>3, <1>4 DEF Connect

LEMMA RestStep ==
  ASSUME Types, Rest, Mic, [Next]_vars
  PROVE  Rest'
  <1> USE DEF Rest
  <1>1. CASE Server
    <2>1. CASE SrvMute \/ SrvServer
      BY <2>1, VoiceManagerAssumption DEF SrvMute, SrvServer, callVars
    <2>2. ASSUME NEW p \in Places \cup {Nowhere}, SrvMove(p) PROVE Rest'
      BY <2>2, VoiceManagerAssumption DEF SrvMove, Moves, callVars
    <2>3. ASSUME NEW p \in Places \cup {Nowhere}, NEW u \in Users, SrvUser(u, p) PROVE Rest'
      BY <2>3, VoiceManagerAssumption DEF SrvUser, Moves, callVars
    <2>4. ASSUME NEW u \in Users, SrvReport(u) PROVE Rest'
      BY <2>4 DEF SrvReport, callVars
    <2> QED
      BY <1>1, <2>1, <2>2, <2>3, <2>4 DEF Server
  <1>2. CASE OnSelfLeft
    <2>1. capture' \in BOOLEAN /\ lost' \in BOOLEAN
      BY <1>2, Stopped DEF Types, OnSelfLeft
    <2> QED
      BY <1>2, <2>1 DEF OnSelfLeft, serverVars
  <1>3. CASE OnSelfState
    <2> DEFINE e == Head(events)
               ts == tasks \o MutePosts(e.mute)
               waiting == pending.server # None /\ pending.server.guild = Guild(e.place)
    <2>1. e \in Event /\ e.type = "self" /\ e.place # Nowhere
      BY <1>3, TailOf DEF Types, OnSelfState, Receives
    <2>2. e.mute \in BOOLEAN /\ e.place \in Places
      BY <2>1, Carries
    <2>3. silent' = e.mute /\ channel' = e.place /\ UNCHANGED <<serverVars, known>>
      BY <1>3 DEF OnSelfState
    <2>4. participants' \subseteq Users
      BY <1>3 DEF OnSelfState, Populated
    <2>5. CASE waiting
      <3>1. pending.server.token \in 1..MaxTokens
        BY <2>5 DEF Types, Half
      <3>2. Connect(pending.server.token, ts, FALSE)
        BY <1>3, <2>5 DEF OnSelfState
      <3> HIDE DEF ts, e
      <3>3. StopVoiceThread(ts) /\ gone' = FALSE
        BY <2>2, <2>3, <3>1, <3>2, Connected
      <3>4. capture' \in BOOLEAN /\ lost' \in BOOLEAN
        BY <2>2, <3>3, MicStopped DEF ts
      <3> QED
        BY <2>1, <2>2, <2>3, <2>4, <3>3, <3>4 DEF serverVars
    <2>6. CASE ~waiting
      <3>1. UNCHANGED <<conn, capture, lost, gone>>
        BY <1>3, <2>6 DEF OnSelfState
      <3> HIDE DEF e
      <3> QED
        BY <2>1, <2>2, <2>3, <2>4, <3>1 DEF serverVars
    <2> QED
      BY <2>5, <2>6
  <1>4. CASE OnUserState
    <2>1. Head(events) \in Event /\ Head(events).type = "user"
      BY <1>4, TailOf DEF Types, OnUserState, Receives
    <2>2. Head(events).user \in Users /\ Head(events).place \in Places \cup {Nowhere}
      BY <2>1, Carries
    <2>3. known' \in [Users -> Places \cup {Nowhere}] /\ participants' \subseteq Users
      BY <1>4, <2>2 DEF OnUserState
    <2> QED
      BY <1>4, <2>3 DEF OnUserState, serverVars
  <1>5. CASE OnNoEndpoint \/ OnStaleSignal
    BY <1>5 DEF OnNoEndpoint, OnStaleSignal, serverVars, callVars
  <1>6. CASE OnServerReplaced \/ OnServerUpdate
    <2> DEFINE e == Head(events)
    <2>1. e.guild \in Guilds /\ e.token \in 1..MaxTokens
      BY <1>6, TailOf, Kinds DEF Types, OnServerReplaced, OnServerUpdate, Receives
    <2>2. UNCHANGED <<serverVars, silent, known, channel>>
      BY <1>6 DEF OnServerReplaced, OnServerUpdate
    <2>3. ASSUME NEW m \in BOOLEAN, Connect(e.token, tasks, m), channel # Nowhere,
                 participants' \subseteq Users
          PROVE  Rest'
      <3> HIDE DEF e
      <3>1. channel' \in Places
        BY <2>2, <2>3 DEF Types
      <3>2. StopVoiceThread(tasks) /\ gone' = FALSE
        BY <2>1, <2>3, <3>1, Connected
      <3>3. capture' \in BOOLEAN /\ lost' \in BOOLEAN
        BY <3>2, Stopped DEF Types
      <3> QED
        BY <2>2, <2>3, <3>2, <3>3 DEF serverVars
    <2>4. CASE OnServerReplaced
      <3>1. channel # Nowhere /\ Connect(e.token, tasks, FALSE) /\ participants' = {}
        BY <2>1, <2>4, GuildOf DEF OnServerReplaced
      <3> QED
        BY <2>3, <3>1
    <2>5. CASE OnServerUpdate /\ pending.state /\ channel # Nowhere
      <3>1. /\ Connect(e.token, tasks, Guild(channel) # e.guild)
            /\ participants' \in {participants, {}}
        BY <2>5 DEF OnServerUpdate, e
      <3> QED
        BY <2>3, <2>5, <3>1
    <2>6. CASE OnServerUpdate /\ ~(pending.state /\ channel # Nowhere)
      BY <2>2, <2>6 DEF OnServerUpdate, serverVars, callVars
    <2> QED
      BY <1>6, <2>4, <2>5, <2>6
  <1>7. CASE OnVoiceClientConnected
    BY <1>7 DEF OnVoiceClientConnected, Populated, serverVars
  <1>8. CASE OnVoiceClientDisconnected
    <2>1. capture' \in BOOLEAN /\ lost' \in BOOLEAN
      BY <1>8, Stopped DEF Types, OnVoiceClientDisconnected
    <2> QED
      BY <1>8, <2>1 DEF OnVoiceClientDisconnected, serverVars
  <1>9. CASE OnClientConnected \/ OnClientDisconnected
    <2>1. Head(signals) \in Signal /\ Head(signals).type \in {"joined", "left"}
      BY <1>9, TailOf DEF Types, OnClientConnected, OnClientDisconnected, Delivers
    <2>2. participants' \subseteq Users
      BY <1>9, <2>1, Carries DEF OnClientConnected, OnClientDisconnected
    <2> QED
      BY <1>9, <2>2 DEF OnClientConnected, OnClientDisconnected, serverVars
  <1>10. CASE VoiceThread
    <2>1. UNCHANGED <<userAt, moves, mutes, channel, silent, known, lost, gone, participants>> /\ conn # None
      BY <1>10, ThreadStep DEF VoiceThread, ClientConnects, ClientEnds, RunTask, ThreadUnchanged
    <2>2. reported' \in {reported, {}}
      BY <1>10 DEF VoiceThread, ClientConnects, ClientEnds, RunTask
    <2>3. capture' \in BOOLEAN
      <3>1. CASE RunTask
        <4>1. Head(tasks) \in Tasks /\ Audio \in Audios
          BY <2>1, <3>1, TailOf, AudioType DEF Types, RunTask
        <4>2. Does(Audio, Head(tasks)) \in Audios
          BY <4>1, DoesIs
        <4>3. Does(Audio, Head(tasks)).capture \in BOOLEAN
          BY <4>2 DEF Audios
        <4> QED
          BY <3>1, <4>3 DEF RunTask
      <3> QED
        BY <1>10, <3>1 DEF VoiceThread, ClientConnects, ClientEnds
    <2> QED
      BY <2>1, <2>2, <2>3
  <1>11. CASE UNCHANGED vars
    BY <1>11 DEF vars, serverVars, callVars
  <1> QED
    BY <1>1, <1>2, <1>3, <1>4, <1>5, <1>6, <1>7, <1>8, <1>9, <1>10, <1>11 DEF Next, OnEvent, OnSignal

LEMMA MicStep ==
  ASSUME Types, Rest, Mic, LiveOwned, [Next]_vars
  PROVE  Mic'
  <1>1. ASSUME UNCHANGED <<conn, tasks, capture, lost, silent>> PROVE Mic'
    BY <1>1 DEF Mic, Audio
  <1>2. ASSUME NEW m \in BOOLEAN, NEW ts \in {tasks, tasks \o MutePosts(m)}, StopVoiceThread(ts), conn' = None
        PROVE  Mic'
    BY <1>2, MicStopped DEF Mic
  <1>3. ASSUME NEW m \in BOOLEAN, NEW ts \in {tasks, tasks \o MutePosts(m)}, NEW t \in 1..MaxTokens,
               NEW x \in BOOLEAN, Connect(t, ts, x), channel' \in Places
        PROVE  Mic'
    <2>1. conn' \in Conn /\ conn' # None /\ conn'.started = FALSE /\ StopVoiceThread(ts)
      BY <1>3, Connected
    <2>2. tasks' = <<>> /\ capture' \in BOOLEAN /\ (~lost' => ~capture')
      BY <2>1, MicStopped
    <2>3. Audio' \in Audios /\ Audio'.started = FALSE /\ Audio'.capture = capture'
      BY <2>1, <2>2, AudioType DEF Audio
    <2>4. Outcome(Audio', <<>>) = Audio'
      BY <2>3, OutcomeNone
    <2>5. ~lost' => Agrees(Outcome(Audio', <<>>), silent')
      BY <2>2, <2>3, <2>4 DEF Agrees
    <2> QED
      BY <2>1, <2>2, <2>5 DEF Mic
  <1>4. CASE Server
    BY <1>1, <1>4 DEF Server, SrvMute, SrvServer, SrvMove, SrvUser, SrvReport, callVars
  <1>5. CASE OnSelfLeft
    BY <1>2, <1>5 DEF OnSelfLeft
  <1>6. CASE OnSelfState
    <2> DEFINE e == Head(events)
               ts == tasks \o MutePosts(e.mute)
               waiting == pending.server # None /\ pending.server.guild = Guild(e.place)
    <2>1. e \in Event /\ e.type = "self" /\ e.place # Nowhere
      BY <1>6, TailOf DEF Types, OnSelfState, Receives
    <2>2. e.mute \in BOOLEAN /\ e.place \in Places
      BY <2>1, Carries
    <2>3. silent' = e.mute /\ channel' = e.place
      BY <1>6 DEF OnSelfState
    <2>4. CASE waiting
      <3>1. pending.server.token \in 1..MaxTokens
        BY <2>4 DEF Types, Half
      <3>2. Connect(pending.server.token, ts, FALSE)
        BY <1>6, <2>4 DEF OnSelfState
      <3> HIDE DEF e
      <3> QED
        BY <1>3, <2>2, <2>3, <3>1, <3>2
    <2>5. CASE ~waiting
      <3>1. UNCHANGED <<conn, capture, lost>> /\ tasks' = ts
        BY <1>6, <2>5 DEF OnSelfState
      <3> HIDE DEF e
      <3>2. CASE conn = None
        <4>1. ~lost => ts = <<>> /\ ~capture
          BY <3>2 DEF MutePosts, Mic
        <4> QED
          BY <3>1, <3>2, <4>1 DEF Mic
      <3>3. CASE conn # None
        <4>1. Audio' = Audio
          BY <3>1 DEF Audio
        <4>2. ~lost => Agrees(Outcome(Audio, ts), e.mute)
          <5>1. Audio \in Audios /\ tasks \in Seq(Tasks) /\ silent \in BOOLEAN
            BY <3>3, AudioType DEF Types, Rest
          <5> QED
            BY <2>2, <3>3, <5>1, MutedLast DEF Mic
        <4> QED
          BY <2>3, <3>1, <3>3, <4>1, <4>2 DEF Mic
      <3> QED
        BY <3>2, <3>3
    <2> QED
      BY <2>4, <2>5
  <1>7. CASE OnUserState \/ OnNoEndpoint \/ OnStaleSignal \/ OnClientConnected \/ OnClientDisconnected
    BY <1>1, <1>7 DEF OnUserState, OnNoEndpoint, OnStaleSignal, OnClientConnected, OnClientDisconnected, callVars
  <1>8. CASE OnServerReplaced \/ OnServerUpdate
    <2> DEFINE e == Head(events)
    <2>1. e.guild \in Guilds /\ e.token \in 1..MaxTokens
      BY <1>8, TailOf, Kinds DEF Types, OnServerReplaced, OnServerUpdate, Receives
    <2>2. UNCHANGED <<silent, channel>>
      BY <1>8 DEF OnServerReplaced, OnServerUpdate
    <2>3. OnServerReplaced => channel # Nowhere
      BY <2>1, GuildOf DEF OnServerReplaced
    <2>4. \/ (\E x \in BOOLEAN : Connect(e.token, tasks, x)) /\ channel # Nowhere
          \/ UNCHANGED callVars
      BY <1>8, <2>3 DEF OnServerReplaced, OnServerUpdate
    <2> HIDE DEF e
    <2>5. CASE (\E x \in BOOLEAN : Connect(e.token, tasks, x)) /\ channel # Nowhere
      <3>1. channel' \in Places /\ TRUE \in BOOLEAN
        BY <2>2, <2>5 DEF Types
      <3> QED
        BY <1>3, <2>1, <2>5, <3>1
    <2>6. CASE UNCHANGED callVars
      BY <1>1, <2>2, <2>6 DEF callVars
    <2> QED
      BY <2>4, <2>5, <2>6
  <1>9. CASE OnVoiceClientConnected
    <2> DEFINE t == IF silent THEN "startMuted" ELSE "start"
    <2>1. UNCHANGED <<conn, capture, lost, silent>> /\ tasks' = tasks \o <<t>> /\ t \in Tasks
      BY <1>9 DEF OnVoiceClientConnected, Posts, Tasks
    <2>2. conn # None
      <3>1. 1 \in 1..Len(signals) /\ Head(signals) = signals[1]
        BY <1>9, TailOf DEF Types, OnVoiceClientConnected, Delivers
      <3> QED
        BY <1>9, <3>1 DEF LiveOwned, OnVoiceClientConnected, Delivers
    <2>3. Audio' = Audio /\ Audio \in Audios /\ tasks \in Seq(Tasks) /\ silent \in BOOLEAN
      BY <2>1, <2>2, AudioType DEF Types, Rest, Audio
    <2>4. Outcome(Audio, tasks \o <<t>>) = Does(Outcome(Audio, tasks), t) /\ Outcome(Audio, tasks) \in Audios
      BY <2>1, <2>3, OutcomePosted, OutcomeType
    <2>5. Agrees(Outcome(Audio, tasks), silent) => Agrees(Does(Outcome(Audio, tasks), t), silent)
      <3>1. CASE silent = TRUE
        BY <2>4, <3>1, AgreesDoes
      <3>2. CASE silent = FALSE
        BY <2>4, <3>2, AgreesDoes
      <3> QED
        BY <2>3, <3>1, <3>2
    <2> HIDE DEF t
    <2> QED
      BY <2>1, <2>2, <2>3, <2>4, <2>5 DEF Mic
  <1>10. CASE OnVoiceClientDisconnected
    BY <1>2, <1>10 DEF OnVoiceClientDisconnected
  <1>11. CASE VoiceThread
    <2>1. conn \in Conn /\ conn' \in Conn /\ conn # None /\ conn' # None /\ UNCHANGED <<lost, silent>>
      BY <1>11, ThreadStep DEF VoiceThread, ClientConnects, ClientEnds, RunTask, ThreadUnchanged
    <2>2. CASE ClientConnects \/ ClientEnds
      <3>1. conn'.started = conn.started /\ UNCHANGED <<tasks, capture>>
        BY <2>1, <2>2 DEF ClientConnects, ClientEnds, Conn
      <3> QED
        BY <2>1, <3>1 DEF Mic, Audio
    <2>3. CASE RunTask
      <3>1. Audio \in Audios /\ tasks \in Seq(Tasks) /\ tasks # <<>> /\ Head(tasks) \in Tasks
        BY <2>1, <2>3, TailOf, AudioType DEF Types, Rest, RunTask
      <3>2. Does(Audio, Head(tasks)) \in Audios
        BY <3>1, DoesIs
      <3>3. Audio' = Does(Audio, Head(tasks))
        <4>1. conn'.started = Does(Audio, Head(tasks)).started /\ capture' = Does(Audio, Head(tasks)).capture
          BY <2>1, <2>3 DEF RunTask, Conn
        <4> QED
          BY <3>2, <4>1 DEF Audio, Audios
      <3>4. Outcome(Does(Audio, Head(tasks)), Tail(tasks)) = Outcome(Audio, tasks) /\ tasks' = Tail(tasks)
        BY <2>3, <3>1, OutcomeTail DEF RunTask
      <3>5. Outcome(Audio', tasks') = Outcome(Audio, tasks)
        BY <3>3, <3>4
      <3> QED
        BY <2>1, <3>5 DEF Mic
    <2> QED
      BY <1>11, <2>2, <2>3 DEF VoiceThread
  <1>12. CASE UNCHANGED vars
    BY <1>1, <1>12 DEF vars, callVars
  <1> QED
    BY <1>4, <1>5, <1>6, <1>7, <1>8, <1>9, <1>10, <1>11, <1>12 DEF Next, OnEvent, OnSignal

-----------------------------------------------------------------------------
(* Who is in the call.                                                     *)

\* The events that tell where user u is.
About(u) == {e \in Event : e.type = "user" /\ e.user = u}

\* Once the events are handled, the client knows where every user is.
Tracked == \A u \in Users : LastIs(events, About(u), known[u], Len(events) + 1, userAt[u])

Joins(s, u) == s.live /\ s.type = "joined" /\ s.user = u
Parts(s, u) == s.live /\ s.type = "left" /\ s.user = u
Renews(s) == s.live /\ s.type = "connected"

\* In the signals v, whoever leaves comes back later, or the session begins anew; whoever
\* comes leaves later; user u comes, or everybody who is known to be there; u leaves.
Rejoins(v, u) == \A i \in 1..Len(v) : Parts(v[i], u) => \E j \in i + 1..Len(v) : Joins(v[j], u) \/ Renews(v[j])
Reparts(v, u) == \A i \in 1..Len(v) : Joins(v[i], u) => \E j \in i + 1..Len(v) : Parts(v[j], u)
Expected(v, u) == \E i \in 1..Len(v) : Joins(v[i], u) \/ Renews(v[i])
Parting(v, u) == \E i \in 1..Len(v) : Parts(v[i], u)

In(phases) == conn # None /\ conn.phase \in phases

\* A connection that is not up yet has said nothing.
Fresh == In({"connecting"}) => \A i \in 1..Len(signals) : ~signals[i].live

\* The last signal under way about a user is what the voice server has told the client last.
Told ==
  \A u \in Users : /\ In({"connected", "renewed"}) /\ u \in reported => Rejoins(signals, u)
                   /\ In({"connected"}) /\ u \notin reported => Reparts(signals, u)

\* Who is in the account's channel for both streams is shown, or will be.
Shown ==
  In({"connected", "renewed"}) =>
    \A u \in reported : known[u] = channel => u \in participants \/ Expected(signals, u)

\* Who is shown is in the account's channel for one of the streams, or will be removed; a
\* second session, which forgets who was reported, spoils this.
Few ==
  channel # Nowhere => \A u \in participants :
    \/ known[u] = channel \/ In({"renewed", "ended"})
    \/ In({"connected"}) /\ (u \in reported \/ Parting(signals, u))

Audience == Fresh /\ Told /\ Shown /\ Few

LEMMA SignalTail ==
  ASSUME NEW v \in Seq(Signal), v # <<>>, NEW u
  PROVE  /\ Rejoins(v, u) => Rejoins(Tail(v), u) /\ (Parts(Head(v), u) => Expected(Tail(v), u))
         /\ Reparts(v, u) => Reparts(Tail(v), u) /\ (Joins(Head(v), u) => Parting(Tail(v), u))
         /\ Expected(v, u) /\ ~Joins(Head(v), u) /\ ~Renews(Head(v)) => Expected(Tail(v), u)
         /\ Parting(v, u) /\ ~Parts(Head(v), u) => Parting(Tail(v), u)
  <1> DEFINE t == Tail(v)
             n == Len(v)
  <1>1. n \in Nat \ {0} /\ Len(t) = n - 1 /\ Head(v) = v[1] /\ \A i \in 1..n - 1 : t[i] = v[i + 1]
    BY TailOf
  <1> HIDE DEF t
  <1>2. \A i \in 2..n : i - 1 \in 1..Len(t) /\ t[i - 1] = v[i]
    BY <1>1
  <1>3. \A i \in 1..Len(t) : i + 1 \in 2..n /\ t[i] = v[i + 1] /\ i + 1 \in 1..n
    BY <1>1
  <1>4. \A i \in 1..Len(t) : \A j \in i + 1 + 1..n : j - 1 \in i + 1..Len(t) /\ t[j - 1] = v[j]
    BY <1>1
  <1>5. \A i \in 1..n : i = 1 \/ i \in 2..n
    BY <1>1
  <1>6. 1 \in 1..n /\ 1 + 1 = 2
    BY <1>1
  <1>7. Rejoins(v, u) => Rejoins(t, u) /\ (Parts(v[1], u) => Expected(t, u))
    <2> SUFFICES ASSUME Rejoins(v, u) PROVE Rejoins(t, u) /\ (Parts(v[1], u) => Expected(t, u))
      OBVIOUS
    <2>1. ASSUME NEW i \in 1..Len(t), Parts(t[i], u) PROVE \E j \in i + 1..Len(t) : Joins(t[j], u) \/ Renews(t[j])
      <3>1. PICK j \in i + 1 + 1..n : Joins(v[j], u) \/ Renews(v[j])
        BY <1>3, <2>1 DEF Rejoins
      <3> QED
        BY <1>4, <3>1
    <2>2. ASSUME Parts(v[1], u) PROVE Expected(t, u)
      <3>1. PICK j \in 2..n : Joins(v[j], u) \/ Renews(v[j])
        BY <1>6, <2>2 DEF Rejoins
      <3> QED
        BY <1>2, <3>1 DEF Expected
    <2> QED
      BY <2>1, <2>2 DEF Rejoins
  <1>8. Reparts(v, u) => Reparts(t, u) /\ (Joins(v[1], u) => Parting(t, u))
    <2> SUFFICES ASSUME Reparts(v, u) PROVE Reparts(t, u) /\ (Joins(v[1], u) => Parting(t, u))
      OBVIOUS
    <2>1. ASSUME NEW i \in 1..Len(t), Joins(t[i], u) PROVE \E j \in i + 1..Len(t) : Parts(t[j], u)
      <3>1. PICK j \in i + 1 + 1..n : Parts(v[j], u)
        BY <1>3, <2>1 DEF Reparts
      <3> QED
        BY <1>4, <3>1
    <2>2. ASSUME Joins(v[1], u) PROVE Parting(t, u)
      <3>1. PICK j \in 2..n : Parts(v[j], u)
        BY <1>6, <2>2 DEF Reparts
      <3> QED
        BY <1>2, <3>1 DEF Parting
    <2> QED
      BY <2>1, <2>2 DEF Reparts
  <1>9. Expected(v, u) /\ ~Joins(v[1], u) /\ ~Renews(v[1]) => Expected(t, u)
    BY <1>2, <1>5 DEF Expected
  <1>10. Parting(v, u) /\ ~Parts(v[1], u) => Parting(t, u)
    BY <1>2, <1>5 DEF Parting
  <1> QED
    BY <1>1, <1>7, <1>8, <1>9, <1>10 DEF t

LEMMA SignalAppend ==
  ASSUME NEW v \in Seq(Signal), NEW e \in Signal, NEW u
  PROVE  LET w == Append(v, e) IN
         /\ (Rejoins(v, u) /\ ~Parts(e, u)) \/ Joins(e, u) => Rejoins(w, u)
         /\ (Reparts(v, u) /\ ~Joins(e, u)) \/ Parts(e, u) => Reparts(w, u)
         /\ Expected(v, u) \/ Joins(e, u) \/ Renews(e) => Expected(w, u)
         /\ Parting(v, u) \/ Parts(e, u) => Parting(w, u)
  <1> DEFINE w == Append(v, e)
             n == Len(v)
  <1>1. n \in Nat /\ Len(w) = n + 1 /\ w[n + 1] = e /\ \A i \in 1..n : w[i] = v[i]
    BY Appended
  <1> HIDE DEF w
  <1>2. \A i \in 1..Len(w) : i = n + 1 \/ (i \in 1..n /\ n + 1 \in i + 1..Len(w))
    BY <1>1
  <1>3. \A i \in 1..n : i \in 1..Len(w) /\ \A j \in i + 1..n : j \in i + 1..Len(w) /\ w[j] = v[j]
    BY <1>1
  <1>4. n + 1 \in 1..Len(w)
    BY <1>1
  <1>5. ~(Joins(e, u) /\ Parts(e, u))
    BY DEF Joins, Parts
  <1>6. (Rejoins(v, u) /\ ~Parts(e, u)) \/ Joins(e, u) => Rejoins(w, u)
    <2> SUFFICES ASSUME (Rejoins(v, u) /\ ~Parts(e, u)) \/ Joins(e, u), NEW i \in 1..Len(w), Parts(w[i], u)
                 PROVE  \E j \in i + 1..Len(w) : Joins(w[j], u) \/ Renews(w[j])
      BY DEF Rejoins
    <2>1. i \in 1..n /\ Parts(v[i], u) /\ n + 1 \in i + 1..Len(w)
      BY <1>1, <1>2, <1>5
    <2>2. CASE Joins(e, u)
      BY <1>1, <2>1, <2>2
    <2>3. CASE Rejoins(v, u)
      <3>1. PICK j \in i + 1..n : Joins(v[j], u) \/ Renews(v[j])
        BY <2>1, <2>3 DEF Rejoins
      <3> QED
        BY <1>3, <2>1, <3>1
    <2> QED
      BY <2>2, <2>3
  <1>7. (Reparts(v, u) /\ ~Joins(e, u)) \/ Parts(e, u) => Reparts(w, u)
    <2> SUFFICES ASSUME (Reparts(v, u) /\ ~Joins(e, u)) \/ Parts(e, u), NEW i \in 1..Len(w), Joins(w[i], u)
                 PROVE  \E j \in i + 1..Len(w) : Parts(w[j], u)
      BY DEF Reparts
    <2>1. i \in 1..n /\ Joins(v[i], u) /\ n + 1 \in i + 1..Len(w)
      BY <1>1, <1>2, <1>5
    <2>2. CASE Parts(e, u)
      BY <1>1, <2>1, <2>2
    <2>3. CASE Reparts(v, u)
      <3>1. PICK j \in i + 1..n : Parts(v[j], u)
        BY <2>1, <2>3 DEF Reparts
      <3> QED
        BY <1>3, <2>1, <3>1
    <2> QED
      BY <2>2, <2>3
  <1>8. Expected(v, u) \/ Joins(e, u) \/ Renews(e) => Expected(w, u)
    BY <1>1, <1>3, <1>4 DEF Expected
  <1>9. Parting(v, u) \/ Parts(e, u) => Parting(w, u)
    BY <1>1, <1>3, <1>4 DEF Parting
  <1> QED
    BY <1>6, <1>7, <1>8, <1>9 DEF w

LEMMA Silence ==
  ASSUME NEW v \in Seq(Signal), \A i \in 1..Len(v) : ~v[i].live, NEW u
  PROVE  Rejoins(v, u) /\ Reparts(v, u)
  BY DEF Rejoins, Reparts, Parts, Joins

-----------------------------------------------------------------------------
(* Where everybody is, once the events are handled.                        *)

LEMMA LastHandled ==
  ASSUME NEW w \in Seq(Event), w # <<>>, NEW S, NEW c, NEW x, LastIs(w, S, c, Len(w) + 1, x)
  PROVE  LastIs(Tail(w), S, IF Head(w) \in S THEN Head(w).place ELSE c, Len(Tail(w)) + 1, x)
  <1>1. Len(w) \in 1..Len(w) /\ Len(Tail(w)) + 1 = Len(w)
    BY TailOf
  <1> QED
    BY <1>1, LastTail

LEMMA LastSent ==
  ASSUME NEW w \in Seq(Event), NEW e \in Event, NEW S, NEW c, NEW x, LastIs(w, S, c, Len(w) + 1, x),
         NEW y, IF e \in S THEN e.place = y ELSE y = x
  PROVE  LastIs(Append(w, e), S, c, Len(Append(w, e)) + 1, y)
  BY LastAppend

Located == Follows /\ Tracked

LEMMA LocatedStep ==
  ASSUME Types, Rest, Located, [Next]_vars
  PROVE  Located'
  <1>1. LastIs(events, Self, channel, Len(events) + 1, at) /\ events \in Seq(Event)
    BY DEF Located, Follows, ChannelIs, Types
  <1>2. \A u \in Users : LastIs(events, About(u), known[u], Len(events) + 1, userAt[u])
    BY DEF Located, Tracked
  <1>3. ASSUME UNCHANGED <<events, channel, known, at, userAt>> PROVE Located'
    BY <1>3 DEF Located, Follows, Tracked
  <1>4. ASSUME NEW e \in Event, events' = Append(events, e), UNCHANGED <<channel, known>>,
               IF e \in Self THEN e.place = at' ELSE at' = at,
               \A u \in Users : IF e \in About(u) THEN e.place = userAt'[u] ELSE userAt'[u] = userAt[u]
        PROVE  Located'
    <2>1. LastIs(events', Self, channel, Len(events') + 1, at')
      BY <1>1, <1>4, LastSent
    <2>2. \A u \in Users : LastIs(events', About(u), known[u], Len(events') + 1, userAt'[u])
      BY <1>1, <1>2, <1>4, LastSent
    <2> QED
      BY <1>4, <2>1, <2>2 DEF Located, Follows, Tracked, ChannelIs
  <1>5. ASSUME NEW a \in Event, NEW b \in Event, events' = Append(Append(events, a), b),
               UNCHANGED <<channel, known, userAt>>, \A u \in Users : a \notin About(u) /\ b \notin About(u),
               \/ b \notin Self /\ IF a \in Self THEN a.place = at' ELSE at' = at
               \/ a \notin Self /\ b \in Self /\ b.place = at'
        PROVE  Located'
    <2>0. Append(events, a) \in Seq(Event)
      BY <1>1, Appended
    <2>1. LastIs(events', Self, channel, Len(events') + 1, at')
      <3>1. CASE b \notin Self
        <4>1. LastIs(Append(events, a), Self, channel, Len(Append(events, a)) + 1, at')
          BY <1>1, <1>5, <3>1, LastSent
        <4> QED
          BY <1>5, <2>0, <3>1, <4>1, LastSent
      <3>2. CASE b \in Self
        <4>1. LastIs(Append(events, a), Self, channel, Len(Append(events, a)) + 1, at)
          BY <1>1, <1>5, <3>2, LastSent
        <4> QED
          BY <1>5, <2>0, <3>2, <4>1, LastSent
      <3> QED
        BY <3>1, <3>2
    <2>2. ASSUME NEW u \in Users PROVE LastIs(events', About(u), known[u], Len(events') + 1, userAt[u])
      <3>1. LastIs(Append(events, a), About(u), known[u], Len(Append(events, a)) + 1, userAt[u])
        BY <1>1, <1>2, <1>5, LastSent
      <3> QED
        BY <1>5, <2>0, <3>1, LastSent
    <2> QED
      BY <1>5, <2>1, <2>2 DEF Located, Follows, Tracked, ChannelIs
  <1>6. \A u \in Users : Self \cap About(u) = {} /\ Update \cap About(u) = {}
    BY DEF Self, Update, About
  <1>7. \A u, v \in Users, p \in Places \cup {Nowhere} :
          [type |-> "user", user |-> u, place |-> p] \in About(v) <=> u = v
    BY Makes DEF About
  <1>8. \A g, t : ServerEvent(g, t) \notin Self /\ \A u \in Users : ServerEvent(g, t) \notin About(u)
    BY DEF ServerEvent, Self, About
  <1>9. CASE SrvMute
    <2> DEFINE e == SelfEvent(at, mute')
    <2>1. e \in Self /\ e \in Event /\ e.place = at
      BY <1>9, Makes, Kinds DEF Types, SrvMute
    <2>2. events' = Append(events, e) /\ UNCHANGED <<channel, known, at, userAt>>
      BY <1>9 DEF SrvMute
    <2> HIDE DEF e
    <2> QED
      BY <1>4, <1>6, <2>1, <2>2
  <1>10. CASE SrvServer
    <2> DEFINE a == ServerEvent(Guild(at), 0)
               b == ServerEvent(Guild(at), token')
    <2>1. /\ at # Nowhere /\ token' = token + 1 /\ token < MaxTokens /\ events' = events \o <<a, b>>
          /\ UNCHANGED <<channel, known, at, userAt>>
      BY <1>10 DEF SrvServer
    <2>2. Guild(at) \in Guilds /\ token' \in 1..MaxTokens /\ 1 \in 1..MaxTokens
      BY <2>1, GuildOf, VoiceManagerAssumption DEF Types
    <2>3. a \in Event /\ b \in Event
      BY <2>2, Makes, Kinds
    <2>4. a \notin Self /\ b \notin Self /\ \A u \in Users : a \notin About(u) /\ b \notin About(u)
      BY <1>8
    <2> HIDE DEF a, b
    <2>5. events' = Append(Append(events, a), b)
      BY <1>1, <2>1, <2>3, TwoAppended
    <2> QED
      BY <1>5, <2>1, <2>3, <2>4, <2>5
  <1>11. ASSUME NEW p \in Places \cup {Nowhere}, SrvMove(p) PROVE Located'
    <2> DEFINE a == SelfEvent(p, mute')
               b == ServerEvent(Guild(p), token')
    <2>1. at' = p /\ mute' \in BOOLEAN /\ UNCHANGED <<channel, known, userAt>>
      BY <1>11 DEF SrvMove, Types
    <2>2. a \in Self /\ a.place = p /\ a \in Event
      BY <2>1, Makes, Kinds
    <2>3. b \notin Self /\ \A u \in Users : a \notin About(u) /\ b \notin About(u)
      BY <1>6, <1>8, <2>2
    <2>4. CASE Guild(p) \in {Guild(at), None}
      <3>1. events' = Append(events, a)
        BY <1>11, <2>4 DEF SrvMove
      <3> HIDE DEF a, b
      <3> QED
        BY <1>4, <2>1, <2>2, <2>3, <3>1
    <2>5. CASE Guild(p) \notin {Guild(at), None}
      <3>1. /\ token' = token + 1 /\ token < MaxTokens
            /\ events' = events \o <<a, b>> \/ events' = events \o <<b, a>>
        BY <1>11, <2>5 DEF SrvMove
      <3>2. b \in Event
        <4>1. Guild(p) \in Guilds /\ token' \in 1..MaxTokens
          BY <2>5, <3>1, GuildOf, VoiceManagerAssumption DEF Types
        <4> QED
          BY <4>1, Makes, Kinds
      <3> HIDE DEF a, b
      <3>3. events \o <<a, b>> = Append(Append(events, a), b) /\ events \o <<b, a>> = Append(Append(events, b), a)
        BY <1>1, <2>2, <3>2, TwoAppended
      <3> QED
        BY <1>5, <2>1, <2>2, <2>3, <3>1, <3>2, <3>3
    <2> QED
      BY <2>4, <2>5
  <1>12. ASSUME NEW p \in Places \cup {Nowhere}, NEW u \in Users, SrvUser(u, p) PROVE Located'
    <2> DEFINE e == [type |-> "user", user |-> u, place |-> p]
    <2>1. e \in Event /\ e \notin Self /\ e.place = p /\ \A v \in Users : e \in About(v) <=> u = v
      BY <1>7, Makes
    <2>2. events' = Append(events, e) /\ UNCHANGED <<channel, known, at>> /\ userAt' = [userAt EXCEPT ![u] = p]
      BY <1>12 DEF SrvUser
    <2>3. \A v \in Users : userAt'[v] = IF v = u THEN p ELSE userAt[v]
      BY <2>2 DEF Rest
    <2> HIDE DEF e
    <2> QED
      BY <1>4, <2>1, <2>2, <2>3
  <1>13. CASE OnEvent
    <2> DEFINE e == Head(events)
    <2>1. events # <<>> /\ events' = Tail(events) /\ UNCHANGED <<at, userAt>>
      BY <1>13 DEF OnEvent, OnSelfLeft, OnSelfState, OnUserState, OnNoEndpoint, OnServerReplaced, OnServerUpdate,
                   Receives, serverVars
    <2>2. e \in Event
      BY <1>1, <2>1, TailOf
    <2>3. channel' = IF e \in Self THEN e.place ELSE channel
      <3>1. CASE OnSelfLeft \/ OnSelfState
        <4>1. e.type = "self" /\ channel' = e.place
          BY <3>1 DEF OnSelfLeft, OnSelfState, Receives
        <4> QED
          BY <2>2, <4>1, Kinds
      <3>2. CASE OnUserState \/ OnNoEndpoint \/ OnServerReplaced \/ OnServerUpdate
        <4>1. e.type # "self" /\ channel' = channel
          BY <3>2 DEF OnUserState, OnNoEndpoint, OnServerReplaced, OnServerUpdate, Receives
        <4> QED
          BY <2>2, <4>1, Kinds
      <3> QED
        BY <1>13, <3>1, <3>2 DEF OnEvent
    <2>4. ASSUME NEW u \in Users PROVE known'[u] = IF e \in About(u) THEN e.place ELSE known[u]
      <3>1. CASE OnUserState
        <4>1. e.type = "user" /\ known' = [known EXCEPT ![e.user] = e.place]
          BY <3>1 DEF OnUserState, Receives
        <4> QED
          BY <2>2, <4>1 DEF About, Rest
      <3>2. CASE ~OnUserState
        <4>1. e.type # "user" /\ known' = known
          BY <1>13, <3>2 DEF OnEvent, OnSelfLeft, OnSelfState, OnNoEndpoint, OnServerReplaced, OnServerUpdate, Receives
        <4> QED
          BY <4>1 DEF About
      <3> QED
        BY <3>1, <3>2
    <2> HIDE DEF e
    <2>5. LastIs(events', Self, channel', Len(events') + 1, at')
      BY <1>1, <2>1, <2>3, LastHandled DEF e
    <2>6. \A u \in Users : LastIs(events', About(u), known'[u], Len(events') + 1, userAt'[u])
      BY <1>1, <1>2, <2>1, <2>4, LastHandled DEF e
    <2> QED
      BY <2>5, <2>6 DEF Located, Follows, Tracked, ChannelIs
  <1>14. CASE OnSignal \/ VoiceThread \/ UNCHANGED vars \/ \E u \in Users : SrvReport(u)
    <2>1. UNCHANGED <<events, channel, known, at, userAt>>
      BY <1>14 DEF OnSignal, OnStaleSignal, OnVoiceClientConnected, OnVoiceClientDisconnected, OnClientConnected,
                   OnClientDisconnected, VoiceThread, ClientConnects, ClientEnds, RunTask, ThreadUnchanged, SrvReport,
                   vars, serverVars
    <2> QED
      BY <1>3, <2>1
  <1> QED
    BY <1>9, <1>10, <1>11, <1>12, <1>13, <1>14 DEF Next, Server

\* The head of the signals is taken, on a connection that stays.
LEMMA Taken ==
  ASSUME Types, LiveOwned, Audience, signals # <<>>, signals' = Tail(signals), UNCHANGED <<conn, reported>>
  PROVE  /\ Fresh' /\ Told' /\ Head(signals) \in Signal
         /\ Head(signals).live => conn # None /\ conn.phase # "connecting"
         /\ \A u \in Users : /\ In({"connected", "renewed"}) /\ u \in reported /\ Parts(Head(signals), u) =>
                                  Expected(signals', u)
                             /\ In({"connected"}) /\ u \notin reported /\ Joins(Head(signals), u) =>
                                  Parting(signals', u)
                             /\ Expected(signals, u) /\ ~Joins(Head(signals), u) /\ ~Renews(Head(signals)) =>
                                  Expected(signals', u)
                             /\ Parting(signals, u) /\ ~Parts(Head(signals), u) => Parting(signals', u)
  <1>1. /\ signals \in Seq(Signal) /\ Len(signals') = Len(signals) - 1 /\ Len(signals) \in Nat \ {0}
        /\ Head(signals) = signals[1] /\ Head(signals) \in Signal /\ 1 \in 1..Len(signals)
        /\ \A i \in 1..Len(signals) - 1 : signals'[i] = signals[i + 1] /\ i + 1 \in 1..Len(signals)
    BY TailOf DEF Types
  <1>2. Fresh'
    <2>1. In({"connecting"})' = In({"connecting"})
      BY DEF In
    <2> QED
      BY <1>1, <2>1 DEF Audience, Fresh
  <1>3. \A u : /\ Rejoins(signals, u) => Rejoins(signals', u) /\ (Parts(Head(signals), u) => Expected(signals', u))
               /\ Reparts(signals, u) => Reparts(signals', u) /\ (Joins(Head(signals), u) => Parting(signals', u))
               /\ Expected(signals, u) /\ ~Joins(Head(signals), u) /\ ~Renews(Head(signals)) => Expected(signals', u)
               /\ Parting(signals, u) /\ ~Parts(Head(signals), u) => Parting(signals', u)
    BY <1>1, SignalTail
  <1>4. Told'
    <2>1. In({"connected"})' = In({"connected"}) /\ In({"connected", "renewed"})' = In({"connected", "renewed"})
      BY DEF In
    <2> QED
      BY <1>3, <2>1 DEF Audience, Told
  <1>5. Head(signals).live => conn # None /\ conn.phase # "connecting"
    BY <1>1 DEF LiveOwned, Audience, Fresh, In
  <1> QED
    BY <1>1, <1>2, <1>3, <1>4, <1>5 DEF Audience, Told

\* A step that leaves the signals and the connection, but for its pipeline.
LEMMA Unheard ==
  ASSUME Audience, UNCHANGED <<signals, reported>>, UNCHANGED conn \/ (conn # None /\ conn' # None /\ conn'.phase = conn.phase)
  PROVE  Fresh' /\ Told' /\ \A ph : In(ph)' = In(ph)
  <1>1. \A ph : In(ph)' = In(ph)
    BY DEF In
  <1> QED
    BY <1>1 DEF Audience, Fresh, Told

LEMMA AudienceStep ==
  ASSUME Types, Types', Rest, LiveOwned, Audience, [Next]_vars
  PROVE  Audience'
  <1>1. ASSUME UNCHANGED <<signals, reported, channel, known, participants>>,
               UNCHANGED conn \/ (conn # None /\ conn' # None /\ conn'.phase = conn.phase)
        PROVE  Audience'
    <2>1. Fresh' /\ Told' /\ \A ph : In(ph)' = In(ph)
      BY <1>1, Unheard
    <2> QED
      BY <1>1, <2>1 DEF Audience, Shown, Few
  <1>2. ASSUME conn' = None, channel' = Nowhere \/ participants' = {} PROVE Audience'
    BY <1>2 DEF Audience, Fresh, Told, Shown, Few, In
  <1>3. ASSUME conn' # None, conn'.phase = "connecting",
               signals' = Stale \/ (conn = None /\ signals' = signals),
               \/ participants' = {}
               \/ conn = None /\ UNCHANGED <<known, channel, participants>>
               \/ participants' = {u \in Users : known[u] = channel'} /\ known' = known
        PROVE  Audience'
    <2>1. In({"connecting"})' /\ ~In({"connected"})' /\ ~In({"connected", "renewed"})'
      BY <1>3 DEF In
    <2>2. Fresh'
      <3>1. CASE signals' = Stale
        BY <3>1, Flagged DEF Types, Fresh
      <3>2. CASE conn = None /\ signals' = signals
        BY <3>2 DEF LiveOwned, Fresh
      <3> QED
        BY <1>3, <3>1, <3>2
    <2>3. Few'
      <3>1. conn = None => ~In({"renewed", "ended"}) /\ ~In({"connected"})
        BY DEF In
      <3> QED
        BY <1>3, <3>1 DEF Audience, Few
    <2> QED
      BY <2>1, <2>2, <2>3 DEF Audience, Told, Shown
  <1>4. CASE Server
    <2>1. ASSUME NEW u \in Users, SrvReport(u) PROVE Audience'
      <3>1. /\ UNCHANGED <<conn, channel, known, participants>> /\ In({"connected", "renewed"}) /\ ~In({"connecting"})
        BY <2>1 DEF SrvReport, Online, callVars, In
      <3>2. PICK s \in Signal :
              /\ s.live /\ s.user = u /\ signals' = Append(signals, s) /\ signals \in Seq(Signal)
              /\ \/ s.type = "joined" /\ u \notin reported /\ reported' = reported \cup {u}
                 \/ s.type = "left" /\ u \in reported /\ reported' = reported \ {u}
        <4>1. \A t \in {"joined", "left"} : [type |-> t, user |-> u, live |-> TRUE] \in Signal
          BY DEF Signal
        <4>2. CASE /\ u \notin reported /\ reported' = reported \cup {u}
                   /\ Signals([type |-> "joined", user |-> u, live |-> TRUE])
          BY <4>1, <4>2 DEF Signals, Types
        <4>3. CASE /\ u \in reported /\ reported' = reported \ {u}
                   /\ Signals([type |-> "left", user |-> u, live |-> TRUE])
          BY <4>1, <4>3 DEF Signals, Types
        <4> QED
          BY <2>1, <4>2, <4>3 DEF SrvReport
      <3>3. \A x : /\ (Rejoins(signals, x) /\ ~Parts(s, x)) \/ Joins(s, x) => Rejoins(signals', x)
                   /\ (Reparts(signals, x) /\ ~Joins(s, x)) \/ Parts(s, x) => Reparts(signals', x)
                   /\ Expected(signals, x) \/ Joins(s, x) => Expected(signals', x)
                   /\ Parting(signals, x) \/ Parts(s, x) => Parting(signals', x)
        BY <3>2, SignalAppend
      <3>4. \A ph : In(ph)' = In(ph)
        BY <3>1 DEF In
      <3>5. \A x : (Joins(s, x) <=> s.type = "joined" /\ x = u) /\ (Parts(s, x) <=> s.type = "left" /\ x = u)
        BY <3>2 DEF Joins, Parts
      <3>6. Fresh'
        BY <3>1, <3>4 DEF Fresh
      <3>7. Told'
        <4> SUFFICES ASSUME NEW x \in Users
                     PROVE  /\ In({"connected", "renewed"}) /\ x \in reported' => Rejoins(signals', x)
                            /\ In({"connected"}) /\ x \notin reported' => Reparts(signals', x)
          BY <3>4 DEF Told
        <4>1. x # u => (x \in reported' <=> x \in reported)
          BY <3>2
        <4> QED
          BY <3>2, <3>3, <3>5, <4>1 DEF Audience, Told
      <3>8. Shown'
        BY <3>1, <3>2, <3>3, <3>4, <3>5 DEF Audience, Shown
      <3>9. Few'
        BY <3>1, <3>2, <3>3, <3>4, <3>5 DEF Audience, Few
      <3> QED
        BY <3>6, <3>7, <3>8, <3>9 DEF Audience
    <2>2. \/ UNCHANGED <<conn, signals, reported, channel, known, participants>>
          \/ \E u \in Users : SrvReport(u)
      BY <1>4 DEF Server, SrvMute, SrvServer, SrvMove, SrvUser, callVars
    <2> QED
      BY <1>1, <2>1, <2>2
  <1>5. CASE OnSelfLeft
    BY <1>2, <1>5 DEF OnSelfLeft
  <1>6. CASE OnSelfState
    <2> DEFINE e == Head(events)
               waiting == pending.server # None /\ pending.server.guild = Guild(e.place)
    <2>1. /\ e.place # Nowhere /\ channel' = e.place /\ UNCHANGED <<known, reported>>
          /\ participants' = IF waiting /\ conn # None THEN {}
                             ELSE IF e.place # channel THEN Populated(e.place) ELSE participants
      BY <1>6 DEF OnSelfState, serverVars
    <2>2. CASE waiting
      <3>1. conn' # None /\ conn'.phase = "connecting"
        <4>1. e \in Event /\ e.type = "self"
          BY <1>6, TailOf DEF Types, OnSelfState, Receives
        <4>2. e.place \in Places /\ pending.server.token \in 1..MaxTokens
          BY <2>1, <2>2, <4>1, Carries DEF Types, Half
        <4>3. Connect(pending.server.token, tasks \o MutePosts(e.mute), FALSE)
          BY <1>6, <2>2 DEF OnSelfState
        <4> HIDE DEF e
        <4> QED
          BY <2>1, <4>2, <4>3, Connected
      <3>2. signals' = IF conn = None THEN signals ELSE Stale
        BY <1>6, <2>2 DEF OnSelfState
      <3> HIDE DEF e
      <3> QED
        BY <1>3, <2>1, <2>2, <3>1, <3>2 DEF Populated
    <2>3. CASE ~waiting
      <3>1. UNCHANGED <<conn, signals>>
        BY <1>6, <2>3 DEF OnSelfState
      <3>2. Fresh' /\ Told' /\ \A ph : In(ph)' = In(ph)
        BY <2>1, <3>1, Unheard
      <3> HIDE DEF e, waiting
      <3>3. Shown' /\ Few'
        <4>1. CASE channel' = channel
          BY <2>1, <2>3, <3>1, <3>2, <4>1 DEF Audience, Shown, Few
        <4>2. CASE channel' # channel
          <5>1. participants' = {u \in Users : known'[u] = channel'}
            BY <2>1, <2>3, <4>2 DEF Populated
          <5> QED
            BY <2>1, <5>1 DEF Shown, Few, Rest
        <4> QED
          BY <4>1, <4>2
      <3> QED
        BY <3>2, <3>3 DEF Audience
    <2> QED
      BY <2>2, <2>3
  <1>7. CASE OnUserState
    <2> DEFINE e == Head(events)
    <2>1. /\ UNCHANGED <<conn, signals, reported, channel>> /\ known' = [known EXCEPT ![e.user] = e.place]
          /\ participants' = CASE channel = Nowhere -> participants
                               [] e.place = channel -> participants \cup {e.user}
                               [] OTHER             -> participants \ {e.user}
      BY <1>7 DEF OnUserState, serverVars
    <2>2. Fresh' /\ Told' /\ \A ph : In(ph)' = In(ph)
      BY <2>1, Unheard
    <2>3. \A u \in Users : known'[u] = IF u = e.user THEN e.place ELSE known[u]
      BY <2>1 DEF Rest
    <2>4. channel # Nowhere =>
            \A u \in Users : u \in participants' <=> IF u = e.user THEN e.place = channel ELSE u \in participants
      <3>1. CASE e.place = channel
        BY <2>1, <3>1
      <3>2. CASE e.place # channel
        BY <2>1, <3>2
      <3> QED
        BY <3>1, <3>2
    <2>5. In({"connected", "renewed"}) => channel # Nowhere
      BY DEF In, Rest
    <2>6. participants' \subseteq Users
      <3>1. e \in Event /\ e.type = "user"
        BY <1>7, TailOf DEF Types, OnUserState, Receives
      <3> QED
        BY <2>1, <3>1, Carries DEF Rest
    <2> HIDE DEF e
    <2>7. Shown'
      BY <2>1, <2>2, <2>3, <2>4, <2>5 DEF Audience, Shown, Rest
    <2>8. Few'
      BY <2>1, <2>2, <2>3, <2>4, <2>6 DEF Audience, Few
    <2> QED
      BY <2>2, <2>7, <2>8 DEF Audience
  <1>8. CASE OnNoEndpoint
    BY <1>1, <1>8 DEF OnNoEndpoint, serverVars, callVars
  <1>9. CASE OnServerReplaced \/ OnServerUpdate
    <2> DEFINE e == Head(events)
    <2>1. e.guild \in Guilds /\ e.token \in 1..MaxTokens
      BY <1>9, TailOf, Kinds DEF Types, OnServerReplaced, OnServerUpdate, Receives
    <2>2. UNCHANGED <<known, channel, reported>>
      BY <1>9 DEF OnServerReplaced, OnServerUpdate, serverVars
    <2>3. OnServerReplaced => channel # Nowhere
      BY <2>1, GuildOf DEF OnServerReplaced
    <2>4. \/ /\ \E x \in BOOLEAN : Connect(e.token, tasks, x)
             /\ channel # Nowhere
             /\ \/ participants' = {} /\ signals' = Stale
                \/ conn = None /\ UNCHANGED <<participants, signals>>
          \/ UNCHANGED <<conn, participants, signals>>
      BY <1>9, <2>3 DEF OnServerReplaced, OnServerUpdate, callVars
    <2> HIDE DEF e
    <2>5. CASE (\E x \in BOOLEAN : Connect(e.token, tasks, x)) /\ channel # Nowhere
      <3>1. channel' \in Places
        BY <2>2, <2>5 DEF Types
      <3>2. conn' # None /\ conn'.phase = "connecting"
        BY <2>1, <2>5, <3>1, Connected
      <3> QED
        BY <1>1, <1>3, <2>2, <2>4, <3>2
    <2> QED
      BY <1>1, <2>2, <2>4, <2>5
  <1>10. CASE OnStaleSignal
    <2>1. /\ signals # <<>> /\ signals' = Tail(signals) /\ ~Head(signals).live
          /\ UNCHANGED <<conn, reported, known, channel, participants>>
      BY <1>10 DEF OnStaleSignal, serverVars, callVars
    <2>2. \A u : ~Joins(Head(signals), u) /\ ~Parts(Head(signals), u) /\ ~Renews(Head(signals))
      BY <2>1 DEF Joins, Parts, Renews
    <2>3. /\ Fresh' /\ Told'
          /\ \A u \in Users : (Expected(signals, u) => Expected(signals', u)) /\ (Parting(signals, u) => Parting(signals', u))
      BY <2>1, <2>2, Taken
    <2>4. \A ph : In(ph)' = In(ph)
      BY <2>1 DEF In
    <2> QED
      BY <2>1, <2>3, <2>4 DEF Audience, Shown, Few, Rest
  <1>11. CASE OnVoiceClientConnected
    <2>1. /\ signals # <<>> /\ signals' = Tail(signals) /\ Head(signals).type = "connected"
          /\ UNCHANGED <<conn, reported, known, channel>> /\ participants' = participants \cup Populated(channel)
      BY <1>11 DEF OnVoiceClientConnected, Delivers, serverVars
    <2>2. \A u : ~Parts(Head(signals), u)
      BY <2>1 DEF Parts
    <2>3. Fresh' /\ Told' /\ \A u \in Users : Parting(signals, u) => Parting(signals', u)
      BY <2>1, <2>2, Taken
    <2>4. \A ph : In(ph)' = In(ph)
      BY <2>1 DEF In
    <2>5. \A u \in Users : u \in participants' <=> u \in participants \/ known[u] = channel
      BY <2>1 DEF Populated
    <2>6. participants' \subseteq Users
      BY <2>1 DEF Populated, Rest
    <2>7. Shown' /\ Few'
      BY <2>1, <2>3, <2>4, <2>5, <2>6 DEF Audience, Shown, Few, Rest
    <2> QED
      BY <2>3, <2>7 DEF Audience
  <1>12. CASE OnClientConnected
    <2> DEFINE w == Head(signals).user
    <2>1. /\ signals # <<>> /\ signals' = Tail(signals) /\ Head(signals).type = "joined" /\ Head(signals).live
          /\ UNCHANGED <<conn, reported, known, channel>> /\ participants' = participants \cup {w}
      BY <1>12 DEF OnClientConnected, Delivers, serverVars
    <2>2. \A u : ~Parts(Head(signals), u) /\ ~Renews(Head(signals)) /\ (Joins(Head(signals), u) <=> u = w)
      BY <2>1 DEF Parts, Renews, Joins
    <2>3. /\ Fresh' /\ Told' /\ conn # None /\ conn.phase # "connecting" /\ Head(signals) \in Signal
          /\ \A u \in Users : /\ Parting(signals, u) => Parting(signals', u)
                              /\ Expected(signals, u) /\ u # w => Expected(signals', u)
                              /\ In({"connected"}) /\ u \notin reported /\ u = w => Parting(signals', u)
      BY <2>1, <2>2, Taken
    <2>4. w \in Users /\ conn.phase \in Phases
      BY <2>1, <2>3, Carries DEF Types, Conn
    <2>5. \A ph : In(ph)' = In(ph)
      BY <2>1 DEF In
    <2>6. In({"renewed", "ended"}) \/ In({"connected"})
      BY <2>3, <2>4 DEF In, Phases
    <2> HIDE DEF w
    <2>7. Shown'
      BY <2>1, <2>3, <2>5 DEF Audience, Shown, Rest
    <2>8. Few'
      BY <2>1, <2>3, <2>4, <2>5, <2>6 DEF Audience, Few, Rest
    <2> QED
      BY <2>3, <2>7, <2>8 DEF Audience
  <1>13. CASE OnClientDisconnected
    <2> DEFINE w == Head(signals).user
    <2>1. /\ signals # <<>> /\ signals' = Tail(signals) /\ Head(signals).type = "left" /\ Head(signals).live
          /\ UNCHANGED <<conn, reported, known, channel>> /\ participants' = participants \ {w}
      BY <1>13 DEF OnClientDisconnected, Delivers, serverVars
    <2>2. \A u : ~Joins(Head(signals), u) /\ ~Renews(Head(signals)) /\ (Parts(Head(signals), u) <=> u = w)
      BY <2>1 DEF Parts, Renews, Joins
    <2>3. /\ Fresh' /\ Told'
          /\ \A u \in Users : /\ Parting(signals, u) /\ u # w => Parting(signals', u)
                              /\ Expected(signals, u) => Expected(signals', u)
                              /\ In({"connected", "renewed"}) /\ u \in reported /\ u = w => Expected(signals', u)
      BY <2>1, <2>2, Taken
    <2>4. \A ph : In(ph)' = In(ph)
      BY <2>1 DEF In
    <2> HIDE DEF w
    <2>5. Shown'
      BY <2>1, <2>3, <2>4 DEF Audience, Shown, Rest
    <2>6. Few'
      BY <2>1, <2>3, <2>4 DEF Audience, Few, Rest
    <2> QED
      BY <2>3, <2>5, <2>6 DEF Audience
  <1>14. CASE OnVoiceClientDisconnected
    BY <1>2, <1>14 DEF OnVoiceClientDisconnected
  <1>15. CASE ClientConnects
    <2> DEFINE s == [type |-> "connected", live |-> TRUE]
    <2>1. /\ conn \in Conn /\ conn' \in Conn /\ conn # None /\ conn' # None /\ reported' = {}
          /\ UNCHANGED <<channel, known, participants>> /\ conn.phase \in {"connecting", "connected"}
          /\ signals' = Append(signals, s)
      BY <1>15, ThreadStep DEF VoiceThread, ClientConnects, ThreadUnchanged, Signals
    <2>2. conn'.phase = IF conn.phase = "connecting" THEN "connected" ELSE "renewed"
      BY <1>15, <2>1 DEF ClientConnects, Conn
    <2>3. s \in Signal /\ signals \in Seq(Signal) /\ \A u : ~Joins(s, u)
      BY DEF Signal, Types, Joins
    <2> HIDE DEF s
    <2>4. ~In({"connecting"})'
      BY <2>2 DEF In
    <2>5. ASSUME conn.phase = "connecting", NEW u \in Users PROVE Reparts(signals', u)
      <3>1. \A i \in 1..Len(signals) : ~signals[i].live
        BY <2>1, <2>5 DEF Audience, Fresh, In
      <3>2. Reparts(signals, u)
        BY <2>3, <3>1, Silence
      <3> QED
        BY <2>1, <2>3, <3>2, SignalAppend
    <2>6. Told'
      <3>1. In({"connected"})' => conn.phase = "connecting"
        BY <2>2 DEF In
      <3> QED
        BY <2>1, <2>5, <3>1 DEF Told
    <2>7. Few'
      <3>1. CASE conn.phase = "connecting"
        <4>1. ~In({"renewed", "ended"}) /\ ~In({"connected"})
          BY <3>1 DEF In
        <4> QED
          BY <2>1, <4>1 DEF Audience, Few
      <3>2. CASE conn.phase # "connecting"
        <4>1. In({"renewed", "ended"})'
          BY <2>1, <2>2, <3>2 DEF In
        <4> QED
          BY <4>1 DEF Few
      <3> QED
        BY <3>1, <3>2
    <2> QED
      BY <2>1, <2>4, <2>6, <2>7 DEF Audience, Fresh, Shown
  <1>16. CASE ClientEnds
    <2>1. conn' # None /\ conn'.phase = "ended"
      BY <1>16, ThreadStep DEF VoiceThread, ClientEnds, Conn
    <2>2. /\ ~In({"connecting"})' /\ ~In({"connected"})' /\ ~In({"connected", "renewed"})'
          /\ In({"renewed", "ended"})'
      BY <2>1 DEF In
    <2> QED
      BY <2>2 DEF Audience, Fresh, Told, Shown, Few
  <1>17. CASE RunTask
    <2>1. conn # None /\ conn' # None /\ conn'.phase = conn.phase
      BY <1>17, ThreadStep DEF VoiceThread
    <2> QED
      BY <1>1, <1>17, <2>1 DEF RunTask, ThreadUnchanged
  <1>18. CASE UNCHANGED vars
    BY <1>1, <1>18 DEF vars, serverVars, callVars
  <1> QED
    BY <1>4, <1>5, <1>6, <1>7, <1>8, <1>9, <1>10, <1>11, <1>12, <1>13, <1>14, <1>15, <1>16, <1>17, <1>18
    DEF Next, OnEvent, OnSignal, VoiceThread

-----------------------------------------------------------------------------
(* The theorems.                                                           *)

LEMMA InitIInv == Init => IInv
  <1> SUFFICES ASSUME Init PROVE IInv
    OBVIOUS
  <1> USE DEF Init
  <1>1. Guarded
    <2>1. events \in Seq(Event) /\ signals \in Seq(Signal) /\ tasks \in Seq(Tasks)
      OBVIOUS
    <2>2. pending \in [server : Half \cup {None}, state : BOOLEAN]
      BY DEF NoPending
    <2>3. Len(signals) = 0 /\ token \in 0..MaxTokens
      BY VoiceManagerAssumption
    <2>4. Types
      BY <2>1, <2>2, <2>3 DEF Types
    <2>5. LiveOwned
      BY <2>3 DEF LiveOwned
    <2> QED
      BY <2>4, <2>5 DEF Guarded
  <1>2. Len(events) = 0
    OBVIOUS
  <1>3. Follows /\ Paired(events, channel)
    BY <1>2 DEF Follows, Paired, ChannelIs, LastIs
  <1>4. Newest /\ Coming /\ Halves
    BY <1>2 DEF Newest, NewestAll, Coming, OfferedAll, Offered, Halves, NoPending
  <1> QED
    BY <1>1, <1>3, <1>4 DEF IInv

LEMMA StepIInv == IInv /\ [Next]_vars => IInv'
  <1> SUFFICES ASSUME IInv, [Next]_vars PROVE IInv'
    OBVIOUS
  <1>1. Guarded'
    BY TypesStep, LiveOwnedStep DEF IInv, Guarded
  <1>2. CASE Server
    BY <1>1, <1>2, ServerSends DEF IInv
  <1>3. CASE OnEvent
    <2>1. CASE OnUserState \/ OnNoEndpoint
      <3>1. PICK type : Receives(type) /\ Head(events) \notin Self \cup Update
        BY <2>1 DEF OnUserState, OnNoEndpoint, Receives, Self, Update
      <3>2. UNCHANGED <<channel, conn, pending, gone, serverVars>>
        BY <2>1 DEF OnUserState, OnNoEndpoint, callVars
      <3> QED
        BY <1>1, <3>1, <3>2, Ignored DEF IInv
    <2> QED
      BY <1>1, <1>3, <2>1, SelfLeftStep, SelfStateStep, ServerStep DEF OnEvent, IInv
  <1>4. CASE OnSignal
    BY <1>1, <1>4, SignalStep DEF IInv
  <1>5. CASE VoiceThread
    BY <1>1, <1>5, ThreadGoesOn DEF IInv
  <1>6. CASE UNCHANGED vars
    BY <1>1, <1>6, SameCall DEF vars, serverVars, callVars, Call, IInv
  <1> QED
    BY <1>2, <1>3, <1>4, <1>5, <1>6 DEF Next

\* Only the end of the connection itself, or an event of the account, ends a call: for
\* any guilds, users and bounds, and whatever order the server sends its events in
\* (NoStrayTeardown: the generations that onVoiceClientDisconnected checks).
THEOREM NoStray == Spec => NoStrayTeardown
  <1>1. Init => Guarded
    BY InitIInv DEF IInv
  <1>2. Guarded /\ [Next]_vars => Guarded'
    BY TypesStep, LiveOwnedStep DEF Guarded
  <1>3. Guarded /\ [Next]_vars => [conn # None /\ OnSignal /\ conn' = None => conn.phase = "ended"]_vars
    <2> SUFFICES ASSUME Guarded, conn # None, OnSignal, conn' = None PROVE conn.phase = "ended"
      OBVIOUS
    <2>1. OnVoiceClientDisconnected
      BY DEF OnSignal, OnStaleSignal, OnVoiceClientConnected, OnClientConnected, OnClientDisconnected,
             callVars
    <2>2. Head(signals) = signals[1] /\ 1 \in 1..Len(signals)
      BY <2>1, TailOf DEF Guarded, Types, OnVoiceClientDisconnected
    <2> QED
      BY <2>1, <2>2 DEF Guarded, LiveOwned, OnVoiceClientDisconnected
  <1> QED
    BY <1>1, <1>2, <1>3, PTL DEF Spec, NoStrayTeardown

\* In whatever order a move's state and server update come, the connection is to the voice
\* server given last, and an account in a channel has its call unless the last one ended
\* by itself: the two streams of handleVoiceStateUpdate and handleVoiceServerUpdate lose no
\* half of a call, for any guilds and bounds.  The call is for the account's guild but when
\* the server update met the state of the guild left (VoiceManager.cpp:206, conn.mixed).
THEOREM CallCurrent == Spec => [](ConnectionCurrent /\ CallMade)
  <1>1. IInv /\ [Next]_vars => IInv'
    BY StepIInv
  <1>2. IInv => ConnectionCurrent /\ CallMade
    <2> SUFFICES ASSUME IInv, events = <<>> PROVE ConnectionCurrent /\ CallMade
      BY DEF ConnectionCurrent, CallMade
    <2>1. Len(events) = 0
      OBVIOUS
    <2>2. at = channel
      BY <2>1 DEF IInv, Follows, ChannelIs, LastIs
    <2>3. ConnectionCurrent
      <3>1. conn # None => pending.server = None
        BY <2>1 DEF IInv, Coming, FirstSelf
      <3> QED
        BY <2>1, <3>1 DEF IInv, Newest, ConnNewest, NewestFrom, ConnectionCurrent
    <2>4. ASSUME at # Nowhere, conn = None, ~gone PROVE FALSE
      BY <2>1, <2>2, <2>4 DEF IInv, Halves, Coming, Offered, FirstSelf
    <2> QED
      BY <2>3, <2>4 DEF CallMade
  <1> QED
    BY InitIInv, <1>1, <1>2, PTL DEF Spec

AInv == Types /\ LiveOwned /\ Rest /\ Mic /\ Located /\ Audience

LEMMA InitAInv == Init => AInv
  <1> SUFFICES ASSUME Init PROVE AInv
    OBVIOUS
  <1>1. Types /\ LiveOwned /\ Follows
    BY InitIInv DEF IInv, Guarded
  <1> USE DEF Init
  <1>2. Rest
    <2>1. 0 \in 0..MaxMoves /\ 0 \in 0..MaxMutes
      BY VoiceManagerAssumption
    <2>2. [u \in Users |-> Nowhere] \in [Users -> Places \cup {Nowhere}]
      OBVIOUS
    <2> QED
      BY <2>1, <2>2 DEF Rest
  <1>3. Mic
    BY DEF Mic
  <1>4. Tracked
    <2>1. Len(events) = 0
      OBVIOUS
    <2> QED
      BY <2>1 DEF Tracked, LastIs
  <1>5. Audience
    BY DEF Audience, Fresh, Told, Shown, Few, In
  <1> QED
    BY <1>1, <1>2, <1>3, <1>4, <1>5 DEF AInv, Located

LEMMA StepAInv == AInv /\ [Next]_vars => AInv'
  <1> SUFFICES ASSUME AInv, [Next]_vars PROVE AInv'
    OBVIOUS
  <1>1. Types'
    BY TypesStep DEF AInv
  <1>2. LiveOwned' /\ Rest' /\ Mic' /\ Located'
    BY LiveOwnedStep, RestStep, MicStep, LocatedStep DEF AInv
  <1>3. Audience'
    BY <1>1, AudienceStep DEF AInv
  <1> QED
    BY <1>1, <1>2, <1>3 DEF AInv

\* The microphone is on exactly when the call is up and the account is not muted, once the
\* calls posted to the voice thread have run and unless a stop was lost: for any guilds,
\* users and bounds, in whatever order mutes, moves, ends and late signals are handled.
THEOREM MicrophoneTrue == Spec => []MicFollowsMute
  <1>1. AInv => MicFollowsMute
    <2> SUFFICES ASSUME AInv, tasks = <<>>, ~lost PROVE capture = (conn # None /\ conn.started /\ ~silent)
      BY DEF MicFollowsMute, Settled
    <2>1. capture \in BOOLEAN /\ silent \in BOOLEAN
      BY DEF AInv, Rest
    <2>2. CASE conn = None
      BY <2>1, <2>2 DEF AInv, Mic
    <2>3. CASE conn # None
      <3>1. conn \in Conn /\ Audio \in Audios
        BY <2>1, <2>3, AudioType DEF AInv, Types
      <3>2. Outcome(Audio, <<>>) = Audio
        BY <3>1, OutcomeNone
      <3>3. capture <=> conn.started /\ ~silent
        BY <2>3, <3>2 DEF AInv, Mic, Agrees, Audio
      <3>4. conn.started \in BOOLEAN
        BY <3>1 DEF Conn
      <3> QED
        BY <2>1, <2>3, <3>3, <3>4
    <2> QED
      BY <2>2, <2>3
  <1> QED
    BY InitAInv, StepAInv, <1>1, PTL DEF Spec

\* Who is shown in the call is who is in it once the gateway and the voice server have said
\* all they know, for any guilds, users and bounds and in whatever order the two streams
\* are handled; a second session of a client may leave in the list who left meanwhile.
THEOREM AudienceTrue == Spec => []ParticipantsTrue
  <1>1. AInv => ParticipantsTrue
    <2> SUFFICES ASSUME AInv, Settled, Online, \A u \in Users : u \in reported <=> Present(u)
                 PROVE  /\ \A u \in Users : Present(u) => u \in participants
                        /\ conn.phase = "connected" => \A u \in participants : Present(u)
      BY DEF ParticipantsTrue
    <2>1. Len(events) = 0 /\ Len(signals) = 0
      BY DEF Settled
    <2>2. channel = at /\ \A u \in Users : known[u] = userAt[u]
      BY <2>1 DEF AInv, Located, Follows, Tracked, ChannelIs, LastIs
    <2>3. In({"connected", "renewed"}) /\ channel # Nowhere /\ participants \subseteq Users
      BY DEF Online, In, AInv, Rest
    <2>4. \A u : ~Expected(signals, u) /\ ~Parting(signals, u)
      BY <2>1 DEF Expected, Parting
    <2>5. ASSUME NEW u \in Users, Present(u) PROVE u \in participants
      BY <2>2, <2>3, <2>4, <2>5 DEF AInv, Audience, Shown, Present
    <2>6. ASSUME conn.phase = "connected", NEW u \in participants PROVE Present(u)
      <3>1. ~In({"renewed", "ended"})
        BY <2>6 DEF In
      <3> QED
        BY <2>2, <2>3, <2>4, <2>6, <3>1 DEF AInv, Audience, Few, Present
    <2> QED
      BY <2>5, <2>6
  <1> QED
    BY InitAInv, StepAInv, <1>1, PTL DEF Spec

\* The types, and the newest voice server and the call of the account.
THEOREM Invariance == Spec => []Inv
  <1>1. AInv => TypeOK
    BY DEF AInv, Types, Rest, TypeOK
  <1> QED
    BY CallCurrent, InitAInv, StepAInv, <1>1, PTL DEF Spec, Inv

=============================================================================
