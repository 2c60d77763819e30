----------------------------- MODULE MessageStore -----------------------------
(***************************************************************************)
(* The messages of a channel: MessageManager (src/Core/MessageManager.cpp)  *)
(* with its three stores, the list it feeds and the fetches it makes.      *)
(*                                                                         *)
(* A channel's messages are held in memory (order, with the objects in a   *)
(* cache that all channels share), in the cache database (disk), and, while *)
(* the channel is open, in ChatModel (view).  They come from the gateway   *)
(* and from three kinds of REST fetches, whose answers the server computes  *)
(* at one moment and the client handles at a later one.  The module follows *)
(* one channel; the user may be in another.  Ids are 1, 2, ...  Left out:  *)
(* edits and reactions, previews of messages being sent, replied-to stubs.  *)
(***************************************************************************)
EXTENDS Naturals, Sequences, FiniteSets, SequencesExt

CONSTANTS Limit,       \* messages of a page (30 in the code)
          ViewCap,     \* ChatModel::MaxLoadedMessages (500)
          OrderCap,    \* MaxChannelMessageIds (2000)
          DiskCap,     \* maxMessagesPerChannel (500)
          MaxMessages, \* bound on the messages of the channel
          MaxDeletes,  \* bound on the deletions
          MaxEvents,   \* bound on the gateway events under way
          MaxFetches,  \* bound on the fetches under way
          MaxLosses    \* bound on lost sessions and restarts

ASSUME MessageStoreAssumption ==
  /\ {Limit, ViewCap, OrderCap, DiskCap} \subseteq Nat \ {0}
  /\ {MaxMessages, MaxDeletes, MaxEvents, MaxFetches, MaxLosses} \subseteq Nat

VARIABLES
  newest,   \* server: how many messages the channel has had
  deleted,  \* server: the deleted ones
  events,   \* gateway events on their way to the client
  losses,   \* how often events or the client's memory were lost
  fetches,  \* REST fetches under way
  order,    \* channelMessages of the channel
  evicted,  \* the ids of order that messageCache has dropped
  listed,   \* channelMessages has an entry for the channel
  fetched,  \* the channel is in fetchedChannels
  lowest,   \* lowestKnownId: Unknown, NoneBelow, or an id
  debounce, \* the channel is in historyDebounce
  disk,     \* the saved messages that are not deleted
  tombs,    \* the saved messages marked deleted
  open,     \* the channel is the one the user looks at
  view,     \* ChatModel::messages
  gate      \* ChatView::isFetchingTop

serverVars == <<newest, deleted, losses>>
memoryVars == <<order, evicted, listed, fetched, lowest, debounce>>
diskVars == <<disk, tombs>>
viewVars == <<open, view, gate>>
vars == <<serverVars, events, fetches, memoryVars, diskVars, viewVars>>

Id == 1..MaxMessages
NoneBelow == 0              \* nullopt
Unknown == MaxMessages + 1  \* no entry
Fetch == [type : {"latest", "history", "jump"}, at : 0..MaxMessages,
          answered : BOOLEAN, page : Seq(Id)]

TypeOK ==
  /\ newest \in 0..MaxMessages /\ deleted \subseteq 1..newest /\ losses \in 0..MaxLosses
  /\ events \in Seq([type : {"create", "delete"}, id : Id]) /\ Len(events) <= MaxEvents
  /\ fetches \subseteq Fetch
  /\ order \in Seq(Id) /\ Len(order) <= OrderCap /\ evicted \subseteq Range(order)
  /\ {listed, fetched, debounce, open, gate} \subseteq BOOLEAN
  /\ lowest \in Id \cup {Unknown, NoneBelow}
  /\ disk \subseteq Id /\ Cardinality(disk) <= DiskCap /\ tombs \subseteq deleted
  /\ view \in Seq(Id)

Init ==
  /\ newest \in 0..MaxMessages /\ deleted = {} /\ losses = 0
  /\ events = <<>> /\ fetches = {}
  /\ order = <<>> /\ evicted = {} /\ listed = FALSE /\ fetched = FALSE
  /\ lowest = Unknown /\ debounce = FALSE
  /\ disk = {} /\ tombs = {}
  /\ open = FALSE /\ view = <<>> /\ gate = FALSE

-----------------------------------------------------------------------------
(* Pages.                                                                  *)

Existing == 1..newest \ deleted
Below(S, id) == {m \in S : m < id}
Largest(S, n) == {m \in S : Cardinality({k \in S : k > m}) < n}

\* The sequence of S in ascending order, and s with the members of S left out.
Ascending(S) ==
  CHOOSE s \in [1..Cardinality(S) -> S] : \A i, j \in DOMAIN s : i < j => s[i] < s[j]

Without(s, S) ==
  LET kept == Ascending({i \in DOMAIN s : s[i] \notin S}) IN [i \in DOMAIN kept |-> s[kept[i]]]

LastOf(s, n) == SubSeq(s, IF Len(s) > n THEN Len(s) - n + 1 ELSE 1, Len(s))

\* std::lower_bound: where id is, or would be, in an ascending sequence.
LowerBound(s, id) ==
  LET search[r \in (1..Len(s) + 1) \X (1..Len(s) + 1)] ==
        IF r[1] >= r[2] THEN r[1]
        ELSE LET mid == r[1] + (r[2] - r[1]) \div 2 IN
             IF s[mid] < id THEN search[<<mid + 1, r[2]>>] ELSE search[<<r[1], mid>>]
  IN search[<<1, Len(s) + 1>>]

\* cacheMessages: append, prepend or merge.
Cached(held, page) ==
  IF page = <<>> THEN held
  ELSE LastOf(IF held = <<>> \/ Head(page) > Last(held) THEN held \o page
              ELSE Ascending(Range(held) \cup Range(page)), OrderCap)

\* mutant: saving a message again clears its mark
SavedAfresh(page) == Largest(disk \cup Range(page), DiskCap)

\* saveMessages: what is marked deleted stays so; the newest DiskCap are kept.
Saved(page) == Largest(disk \cup (Range(page) \ tombs), DiskCap)

Save(page) ==
  /\ disk' = Saved(page)
  /\ tombs' = tombs \ disk'

\* A full fetch of the newest messages drops what it replaces.
Kept(type, page) ==
  IF type = "latest" /\ page # <<>> THEN SubSeq(order, 1, LowerBound(order, Head(page)) - 1)
  ELSE order

\* mutant: a short page of any kind counts as the end
ExhaustedByAny(type, page) ==
  IF Len(page) >= Limit THEN lowest
  ELSE IF page = <<>> THEN NoneBelow ELSE Head(page)

Exhausted(type, page) ==
  IF type # "history" \/ Len(page) >= Limit THEN lowest
  ELSE IF page = <<>> THEN NoneBelow ELSE Head(page)

-----------------------------------------------------------------------------
(* The view.                                                               *)

Trim(v) == LastOf(v, ViewCap)
Fresh(page) == Without(page, Range(view))

ShowLatest(page) == IF page = <<>> THEN view ELSE Trim(page)

\* mutant: history is put in front whatever is shown already
ShowHistoryAgain(page) == page \o view

ShowHistory(page) == IF view = <<>> THEN page ELSE Fresh(page) \o view

ShowJump(page) ==
  IF Fresh(page) = <<>> THEN view
  ELSE LET p == LowerBound(view, Head(page)) IN
       Trim(SubSeq(view, 1, p - 1) \o page \o SubSeq(view, p, Len(view)))

ShowCreated(page) == IF Fresh(page) = <<>> THEN view ELSE Trim(view \o page)

Show(type, page) ==
  IF ~open THEN view
  ELSE CASE type = "latest" -> ShowLatest(page)
         [] type = "history" -> ShowHistory(page)
         [] type = "jump" -> ShowJump(page)
         [] type = "create" -> ShowCreated(page)

\* A model reset, and every history result, end the wait of the view.
Waits(type, page) ==
  gate /\ type # "history" /\ ~(open /\ type = "latest" /\ page # <<>>)

\* onApiMessagesReceived.
Receive(type, page) ==
  /\ lowest' = Exhausted(type, page)
  /\ Save(page)
  /\ fetched' = (fetched \/ type = "latest")
  /\ order' = Cached(Kept(type, page), page)
  /\ evicted' = (evicted \ Range(page)) \cap Range(order')
  /\ listed' = (listed \/ page # <<>>)
  /\ view' = Show(type, page)
  /\ gate' = Waits(type, page)

-----------------------------------------------------------------------------
(* The server.                                                             *)

Sends(e) == Len(events) < MaxEvents /\ events' = Append(events, e)

SrvCreate ==
  /\ newest < MaxMessages /\ newest' = newest + 1
  /\ Sends([type |-> "create", id |-> newest + 1])
  /\ UNCHANGED <<deleted, losses, fetches, memoryVars, diskVars, viewVars>>

SrvDelete(m) ==
  /\ Cardinality(deleted) < MaxDeletes
  /\ m \in Existing /\ deleted' = deleted \cup {m}
  /\ Sends([type |-> "delete", id |-> m])
  /\ UNCHANGED <<newest, losses, fetches, memoryVars, diskVars, viewVars>>

Page(f) ==
  Ascending(CASE f.type = "latest" -> Largest(Existing, Limit)
              [] f.type = "history" -> Largest(Below(Existing, f.at), Limit)
              [] f.type = "jump" -> Existing \cap {f.at})

SrvAnswer(f) ==
  /\ f \in fetches /\ ~f.answered
  /\ f.type = "jump" => Page(f) # <<>>
  /\ fetches' = (fetches \ {f}) \cup {[f EXCEPT !.answered = TRUE, !.page = Page(f)]}
  /\ UNCHANGED <<serverVars, events, memoryVars, diskVars, viewVars>>

\* A session that cannot be resumed takes its events with it.
SrvLose ==
  /\ events # <<>> /\ events' = <<>>
  /\ losses < MaxLosses /\ losses' = losses + 1
  /\ UNCHANGED <<newest, deleted, fetches, memoryVars, diskVars, viewVars>>

-----------------------------------------------------------------------------
(* The client.                                                             *)

Receives(type) == events # <<>> /\ Head(events).type = type /\ events' = Tail(events)

OnCreate ==
  /\ Receives("create")
  /\ Receive("create", <<Head(events).id>>)
  /\ UNCHANGED <<serverVars, fetches, debounce, open>>

OnDelete ==
  /\ Receives("delete")
  /\ LET m == Head(events).id IN
     /\ order' = Without(order, {m}) /\ evicted' = evicted \ {m}
     /\ disk' = disk \ {m} /\ tombs' = tombs \cup (disk \cap {m})
     /\ view' = Without(view, {m})
  /\ UNCHANGED <<serverVars, fetches, listed, fetched, lowest, debounce, open, gate>>

Ask(type, at) ==
  /\ Cardinality(fetches) < MaxFetches
  /\ fetches' = fetches \cup {[type |-> type, at |-> at, answered |-> FALSE, page |-> <<>>]}

\* The callback of a fetch, and of one that failed.
OnFetched(f) ==
  /\ f \in fetches /\ f.answered /\ fetches' = fetches \ {f}
  /\ Receive(f.type, f.page)
  /\ debounce' = (debounce /\ f.type # "history")
  /\ UNCHANGED <<serverVars, events, open>>

OnFailed(f) ==
  /\ f \in fetches /\ ~f.answered /\ fetches' = fetches \ {f}
  /\ debounce' = (debounce /\ f.type # "history")
  /\ gate' = (gate /\ f.type # "history")
  /\ UNCHANGED <<serverVars, events, order, evicted, listed, fetched, lowest, diskVars, open, view>>

\* requestLoadChannel: from memory if all of it is there, else from disk, else
\* from the server.
InMemory == listed /\ evicted = {}
LatestPage == IF InMemory THEN order ELSE Ascending(Largest(disk, Limit))

Open ==
  /\ open' = TRUE
  /\ IF fetched /\ (InMemory \/ disk # {})
     THEN /\ view' = ShowLatest(LatestPage)
          /\ gate' = (gate /\ LatestPage = <<>>)
          /\ UNCHANGED fetches
     ELSE Ask("latest", 0) /\ UNCHANGED <<view, gate>>
  /\ UNCHANGED <<serverVars, events, memoryVars, diskVars>>

\* setActiveChannel to another channel.
Leave ==
  /\ open /\ open' = FALSE /\ view' = <<>> /\ gate' = FALSE
  /\ UNCHANGED <<serverVars, events, fetches, memoryVars, diskVars>>

\* requestLoadHistory: the page in front of before, without the server.
HistoryPage(before) ==
  LET p == LowerBound(order, before)
      held == LastOf(SubSeq(order, 1, p - 1), Limit)
  IN IF held # <<>> /\ Range(held) \cap evicted = {} THEN held
     ELSE Ascending(Largest(Below(disk, before), Limit))

\* "nothing to see here"
NothingBefore(before) == lowest # Unknown /\ (lowest = NoneBelow \/ lowest >= before)

\* Scrolling to the top of the view.
ScrollUp ==
  /\ open /\ ~gate /\ view # <<>>
  /\ LET before == Head(view) IN
     \/ debounce /\ gate' = TRUE /\ UNCHANGED <<fetches, debounce, listed, view>>
     \/ /\ ~debounce /\ ~NothingBefore(before)
        /\ listed' = (listed \/ fetched)
        /\ IF fetched /\ HistoryPage(before) # <<>>
           THEN view' = ShowHistory(HistoryPage(before)) /\ UNCHANGED <<fetches, debounce, gate>>
           ELSE Ask("history", before) /\ debounce' = TRUE /\ gate' = TRUE /\ UNCHANGED view
  /\ UNCHANGED <<serverVars, events, order, evicted, fetched, lowest, diskVars, open>>

\* requestMessage: a search result or a reply that is not in the view.
JumpTo(m) ==
  /\ open /\ m \in 1..newest \ Range(view)
  /\ Ask("jump", m)
  /\ UNCHANGED <<serverVars, events, memoryVars, diskVars, viewVars>>

\* The shared cache drops its oldest objects for another channel's.
Evict(m) ==
  /\ m \in Range(order) \ evicted /\ evicted' = evicted \cup {m}
  /\ UNCHANGED <<serverVars, events, fetches, order, listed, fetched, lowest, debounce,
                 diskVars, viewVars>>

\* The client ends, or loses its memory, and starts again with the same disk.
Restart ==
  /\ losses < MaxLosses /\ losses' = losses + 1
  /\ events' = <<>> /\ fetches' = {}
  /\ order' = <<>> /\ evicted' = {} /\ listed' = FALSE /\ fetched' = FALSE
  /\ lowest' = Unknown /\ debounce' = FALSE
  /\ open' = FALSE /\ view' = <<>> /\ gate' = FALSE
  /\ UNCHANGED <<newest, deleted, diskVars>>

-----------------------------------------------------------------------------
Next ==
  \/ SrvCreate \/ SrvLose \/ OnCreate \/ OnDelete
  \/ Open \/ Leave \/ ScrollUp \/ Restart
  \/ \E m \in Id : SrvDelete(m) \/ JumpTo(m) \/ Evict(m)
  \/ \E f \in fetches : SrvAnswer(f) \/ OnFetched(f) \/ OnFailed(f)

Spec == Init /\ [][Next]_vars

-----------------------------------------------------------------------------
\* The list in memory stays ascending and without duplicates, whatever order pages
\* and events are handled in: its binary searches and its append and prepend
\* shortcuts rest on it.
OrderAscending == \A i \in 1..Len(order) : \A j \in 1..i - 1 : order[j] < order[i]

\* No message is shown twice, although history, jumps and events overlap.
ShownOnce == \A i, j \in 1..Len(view) : view[i] = view[j] => i = j

\* A message whose deletion the disk recorded is not brought back by an answer the
\* server computed before it, nor by any later save.
TombstonesStay == [][tombs \subseteq tombs' /\ tombs \cap disk' = {}]_vars

\* A channel whose end is known by its oldest message has nothing older.
EndIsProven == lowest \in Id => Below(Existing, lowest) = {}

\* The view waits only for a history load that is under way, and at most one is:
\* a late answer, a failure or a switch never leaves scrolling blocked.
WaitEnds ==
  LET loads == {f \in fetches : f.type = "history"} IN
  (gate => debounce) /\ debounce = (loads # {}) /\ Cardinality(loads) <= 1

\* Memory is sorted, the view has no message twice, and it waits only for what comes.
Inv == TypeOK /\ OrderAscending /\ ShownOnce /\ WaitEnds

=============================================================================
