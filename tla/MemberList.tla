----------------------------- MODULE MemberList -----------------------------
(***************************************************************************)
(* The member list of a guild: MemberListManager (src/Core/                  *)
(* MemberListManager.cpp).  Each list id has a sparse map from rows to       *)
(* items, which the gateway's operations shift and replace; the client       *)
(* subscribes to the blocks of rows that are visible.                        *)
(*                                                                         *)
(* The gateway is external: it reports every operation on the list it has    *)
(* subscribed the client to, in order, and a request may be lost.  Roles,    *)
(* member counts and the rows repainted without a reset are left out.        *)
(***************************************************************************)
EXTENDS Integers, SequencesExt

CONSTANTS Channels, ListOf,   \* computeListId: channels of equal visibility share a list
          Items,              \* members and group headers
          MaxRow,             \* bound on rows
          Block,              \* rows of a block, 100 in the code
          MaxOps,             \* bound on the operations of an update
          MaxLists,           \* MaxListsPerGuild
          MaxAsked,           \* bound on requests under way
          MaxLost,            \* bound on lost requests and connections
          MaxChanges          \* bound on changes of the gateway's lists

None == "none"
Lists == {ListOf[c] : c \in Channels}
Rows == 0..MaxRow
Blocks == 0..(MaxRow \div Block)

ASSUME MemberListAssumption ==
  /\ None \notin Channels \cup Lists
  /\ MaxRow \in Nat /\ Block \in Nat \ {0}
  /\ MaxOps \in Nat \ {0} /\ MaxLists \in Nat \ {0} /\ MaxAsked \in Nat \ {0} /\ MaxLost \in Nat /\ MaxChanges \in Nat

VARIABLES
  active,     \* activeChannelId, or None
  lists,      \* list id -> its rows, and the number of rows its groups add up to
  recent,     \* list ids in the order of lastUsed
  total,      \* totalItemCountCache
  ranges,     \* blocks subscribed to
  pending,    \* pendingRanges, empty when hasPendingRanges is false
  awaiting,   \* awaitingResponse: the response timer runs
  asked,      \* requests under way
  srv,        \* the gateway's lists
  subscribed, \* the list it reports, or None
  strayed,    \* history: lists that changed unreported, or by DELETEs out of order
  lost,       \* requests and connections lost
  untimed,    \* history: a request was lost after some update had stopped the timer
  changes     \* changes of the gateway's lists

memberVars == <<active, lists, recent, total, ranges, pending, awaiting, asked, srv, subscribed, strayed, lost, untimed, changes>>

PartialRows == UNION {[R -> Items] : R \in SUBSET Rows}

MemberTypeOK ==
  /\ active \in Channels \cup {None}
  /\ DOMAIN lists \subseteq Lists
  /\ \A l \in DOMAIN lists : lists[l].rows \in PartialRows /\ lists[l].count \in Nat
  /\ ToSet(recent) = DOMAIN lists /\ IsInjective(recent)
  /\ ranges \subseteq Blocks /\ (active # None => 0 \in ranges)
  /\ pending \subseteq Blocks /\ awaiting \in BOOLEAN
  /\ asked \in Seq([list : Lists, blocks : SUBSET Blocks]) /\ Len(asked) <= MaxAsked

MemberInit ==
  /\ active = None /\ lists = <<>> /\ recent = <<>> /\ total = 0
  /\ ranges = {} /\ pending = {} /\ awaiting = FALSE /\ asked = <<>>
  /\ \E x \in Items : srv = [l \in Lists |-> <<x>>]
  /\ subscribed = None /\ strayed = {} /\ lost = 0 /\ untimed = FALSE /\ changes = 0

activeList == IF active = None THEN None ELSE ListOf[active]
EmptyList == [rows |-> <<>>, count |-> 0]
Known(l) == IF l \in DOMAIN lists THEN lists[l] ELSE EmptyList

\* The members of S in a sequence, in their order.
Only(s, S) == FoldLeft(LAMBDA r, x : IF x \in S THEN Append(r, x) ELSE r, <<>>, s)

LastUsed(l) == Append(Only(recent, Lists \ {l}), l)

\* A function with one more value, or another.
With(f, x, y) == [z \in DOMAIN f \cup {x} |-> IF z = x THEN y ELSE f[z]]

-----------------------------------------------------------------------------
(* Rows, and the operations on them.                                        *)

BlocksOf(R) == {r \div Block : r \in R}
RowsOf(bs) == {r \in Rows : r \div Block \in bs}
Without(rows, R) == [r \in DOMAIN rows \ R |-> rows[r]]

\* Items from row at on; what the range has beyond them stays.
Sync(rows, op) ==
  IF op.items = <<>> THEN Without(rows, op.at..op.to)
  ELSE LET R == op.at..(op.at + Len(op.items) - 1)
       IN [r \in DOMAIN rows \cup R |-> IF r \in R THEN op.items[r - op.at + 1] ELSE rows[r]]

InsertRow(rows, op) ==
  [r \in {op.at} \cup {IF s < op.at THEN s ELSE s + 1 : s \in DOMAIN rows} |->
     CASE r < op.at -> rows[r] [] r = op.at -> op.items[1] [] r > op.at -> rows[r - 1]]

DeleteRow(rows, at) ==
  [r \in {IF s < at THEN s ELSE s - 1 : s \in DOMAIN rows \ {at}} |->
     IF r < at THEN rows[r] ELSE rows[r + 1]]

\* x in its place among ascending numbers, and a sequence in that order (std::sort).
Placed(t, x) == InsertAt(t, Cardinality({i \in DOMAIN t : t[i] <= x}) + 1, x)
Ascending(s) == FoldLeft(Placed, <<>>, s)

\* processBatchInserts or processBatchDeletes, which sorts the rows: one of them is empty.
Flush(b) ==
  [rows |-> FoldLeft(DeleteRow, FoldLeft(InsertRow, b.rows, b.inserts), Ascending(b.deletes)),
   inserts |-> <<>>, deletes |-> <<>>]

\* mutant: an INSERT does not end a run of DELETEs
OwnRunOnly(b, op) == op.op # "INSERT" /\ (op.op = "DELETE" => b.inserts # <<>>)

\* A run of one of INSERT and DELETE is processed before anything else is.
EndsRun(b, op) ==
  /\ op.op = "INSERT" => b.deletes # <<>>
  /\ op.op = "DELETE" => b.inserts # <<>>

Process(batch, op) ==
  LET b == IF EndsRun(batch, op) THEN Flush(batch) ELSE batch
  IN CASE op.op = "INSERT" -> [b EXCEPT !.inserts = Append(@, op)]
       [] op.op = "DELETE" -> [b EXCEPT !.deletes = Append(@, op.at)]
       [] op.op \in {"SYNC", "UPDATE"} -> [b EXCEPT !.rows = Sync(@, op)]
       [] op.op = "INVALIDATE" -> [b EXCEPT !.rows = Without(@, op.at..op.to)]

Processed(rows, ops) ==
  Flush(FoldLeft(Process, [rows |-> rows, inserts |-> <<>>, deletes |-> <<>>], ops)).rows

-----------------------------------------------------------------------------
(* Subscriptions.                                                           *)

\* subscriptionRequested, with the response timer started; at the bound the oldest is lost.
Ask(requests, c, bs) ==
  /\ awaiting' = TRUE
  /\ asked' = Append(IF Len(requests) < MaxAsked THEN requests ELSE Tail(requests),
                     [list |-> ListOf[c], blocks |-> bs])

\* setActiveChannel.
SetActiveChannel(c) ==
  /\ active # c
  /\ active' = c /\ ranges' = {0} /\ pending' = {} /\ Ask(asked, c, {0})
  /\ lists' = With(lists, ListOf[c], Known(ListOf[c]))
  /\ recent' = LastUsed(ListOf[c])
  /\ total' = Known(ListOf[c]).count
  /\ UNCHANGED <<srv, subscribed, strayed, lost, untimed, changes>>

\* clear, on a channel without a guild.
Clear ==
  /\ active # None
  /\ active' = None /\ ranges' = {} /\ pending' = {} /\ awaiting' = FALSE /\ total' = 0
  /\ UNCHANGED <<lists, recent, asked, srv, subscribed, strayed, lost, untimed, changes>>

\* clearGuild: the guild is gone.
ClearGuild ==
  /\ lists # <<>> /\ lists' = <<>> /\ recent' = <<>>
  /\ active' = None /\ ranges' = {} /\ pending' = {} /\ awaiting' = FALSE /\ total' = 0
  /\ subscribed' = None /\ asked' = <<>>
  /\ UNCHANGED <<srv, strayed, lost, untimed, changes>>

\* applyAndSendRanges evicts the rows of other blocks from the active list.
Evicted(ld, bs) == [ld EXCEPT !.rows = Without(@, DOMAIN @ \ RowsOf(bs))]

\* updateSubscriptionRange: block 0 and every block between two rows.
UpdateSubscriptionRange(first, last) ==
  LET wanted == {0} \cup ((first \div Block)..(last \div Block))
  IN /\ active # None /\ first <= last
     /\ wanted # ranges \/ pending # {}
     /\ IF awaiting
        THEN pending' = wanted /\ UNCHANGED <<lists, ranges, awaiting, asked>>
        ELSE /\ wanted # ranges /\ ranges' = wanted /\ pending' = {} /\ Ask(asked, active, wanted)
             /\ lists' = [lists EXCEPT ![activeList] = Evicted(@, wanted)]
     /\ UNCHANGED <<active, recent, total, srv, subscribed, strayed, lost, untimed, changes>>

\* flushPendingRanges, from the response timer: the parked blocks, or the same again.
FlushPendingRanges ==
  LET next == IF pending = {} THEN ranges ELSE pending
  IN /\ awaiting /\ ranges' = next /\ pending' = {} /\ Ask(asked, active, next)
     /\ lists' = IF next = ranges THEN lists
                 ELSE [lists EXCEPT ![activeList] = Evicted(@, next)]
     /\ UNCHANGED <<active, recent, total, srv, subscribed, strayed, lost, untimed, changes>>

\* The gateway starts a new session, and its READY refreshActiveSubscription.
Reconnect ==
  /\ lost < MaxLost /\ lost' = lost + 1
  /\ subscribed' = None
  /\ IF active = None
     THEN asked' = <<>> /\ UNCHANGED <<pending, awaiting>>
     ELSE pending' = {} /\ Ask(asked, active, ranges)
  /\ UNCHANGED <<active, lists, recent, total, ranges, srv, strayed, untimed, changes>>

-----------------------------------------------------------------------------
(* Updates.                                                                 *)

\* mutant: the active list may go as well
Oldest(used) == used

\* evictStaleLists takes the lists used longest ago, never the one the user is looking at.
Victims(used) == Only(used, Lists \ {activeList})

\* mutant: ranges parked for another list's reply go as well
NoneParked(isActive) == {}

\* An update of the active list is taken for the reply the parked ranges wait for.
Parked(isActive) == IF isActive THEN {} ELSE pending

\* handleMemberListUpdate for list l, which has count rows by its groups.
HandleMemberListUpdate(l, ops, count, requests) ==
  LET isActive == l = activeList
      applies == isActive /\ pending \notin {{}, ranges}
      ld == [rows |-> Processed(Known(l).rows, ops), count |-> count]
      all == With(lists, l, IF applies THEN Evicted(ld, pending) ELSE ld)
      surplus == Cardinality(DOMAIN all) - MaxLists
      gone == {Victims(LastUsed(l))[i] : i \in 1..surplus \cap DOMAIN Victims(LastUsed(l))}
  IN /\ lists' = [m \in DOMAIN all \ gone |-> all[m]]
     /\ recent' = Only(LastUsed(l), Lists \ gone)
     /\ total' = IF isActive THEN count ELSE total
     /\ ranges' = IF applies THEN pending ELSE ranges
     /\ pending' = Parked(isActive)
     /\ IF applies THEN Ask(requests, active, pending)
        ELSE awaiting' = (awaiting /\ ~isActive) /\ asked' = requests
     /\ UNCHANGED <<active, lost, untimed>>

Operation(o, at, to, items) == [op |-> o, at |-> at, to |-> to, items |-> items]
Puts(o, at, x) == Operation(o, at, at, <<x>>)
Takes(o, at, to) == Operation(o, at, to, <<>>)

\* A list after an operation, and the operations it allows.
Shift(s, op) ==
  CASE op.op = "INSERT" -> InsertAt(s, op.at + 1, op.items[1])
    [] op.op = "DELETE" -> RemoveAt(s, op.at + 1)
    [] op.op = "UPDATE" -> ReplaceAt(s, op.at + 1, op.items[1])
    [] OTHER -> s

Operations(s) ==
  LET new == Items \ ToSet(s)
      rows == 0..(Len(s) - 1)
  IN {Puts("INSERT", r, x) : r \in 0..Min({Len(s), MaxRow - 1}), x \in new}
     \cup {Puts("UPDATE", r, x) : r \in rows, x \in new}
     \cup {Takes("DELETE", r, r) : r \in rows}
     \cup {Takes("INVALIDATE", Block * b, Block * b + Block - 1) : b \in Blocks}

\* What the gateway may report of a list: some operations, and the list after them.
Reported(u, op) == <<Append(u[1], op), Shift(u[2], op)>>
MoreOps(updates) == updates \cup UNION {{Reported(u, op) : op \in Operations(u[2])} : u \in updates}

Updates(s) == FoldLeft(LAMBDA updates, i : MoreOps(updates), {<<<<>>, s>>}, [i \in 1..MaxOps |-> i])

\* DELETEs that follow each other go up the list, so that sorting them changes nothing.
\* "Discord does not guarantee" it; a run in another order takes other rows than it did.
InOrder(ops) ==
  \A i \in 1..(Len(ops) - 1) :
    ops[i].op = "DELETE" /\ ops[i + 1].op = "DELETE" => ops[i].at <= ops[i + 1].at

\* A list changes; the client is told if the gateway reports that list.
SrvChange(l) ==
  /\ changes < MaxChanges /\ changes' = changes + 1
  /\ \E u \in Updates(srv[l]) :
    /\ u[1] # <<>> /\ srv' = [srv EXCEPT ![l] = u[2]]
    /\ Len(u[2]) <= MaxRow
    /\ IF subscribed = l
       THEN /\ DOMAIN Processed(Known(l).rows, u[1]) \subseteq Rows
            /\ HandleMemberListUpdate(l, u[1], Len(u[2]), asked)
            /\ strayed' = IF InOrder(u[1]) THEN strayed ELSE strayed \cup {l}
       ELSE /\ strayed' = strayed \cup {l}
            /\ UNCHANGED <<active, lists, recent, total, ranges, pending, awaiting, asked, lost, untimed>>
    /\ UNCHANGED subscribed

SyncOf(l, b) == Operation("SYNC", Block * b, Block * b + Block - 1,
                          SubSeq(srv[l], Block * b + 1, Min({Len(srv[l]), Block * b + Block})))

\* The gateway answers a request with the rows of its blocks.
SrvSync ==
  /\ asked # <<>>
  /\ LET l == Head(asked).list
         bs == Head(asked).blocks
     IN /\ HandleMemberListUpdate(l, SetToSeq({SyncOf(l, b) : b \in bs}), Len(srv[l]), Tail(asked))
        /\ subscribed' = l
        /\ strayed' = IF \A r \in DOMAIN Known(l).rows : r < Len(srv[l]) => r \in RowsOf(bs)
                     THEN strayed \ {l} ELSE strayed
  /\ UNCHANGED <<srv, changes>>

SrvLoses ==
  /\ asked # <<>> /\ lost < MaxLost /\ lost' = lost + 1 /\ asked' = Tail(asked)
  /\ untimed' = (untimed \/ ~awaiting)
  /\ UNCHANGED <<active, lists, recent, total, ranges, pending, awaiting, srv, subscribed, strayed, changes>>

\* handleMemberRemoved leaves holes: the groups still count the rows.
HandleMemberRemoved(x) ==
  /\ changes < MaxChanges /\ changes' = changes + 1
  /\ lists' = [l \in DOMAIN lists |->
       [lists[l] EXCEPT !.rows = Without(@, {r \in DOMAIN @ : @[r] = x})]]
  /\ UNCHANGED <<active, recent, total, ranges, pending, awaiting, asked, srv, subscribed, strayed, lost, untimed>>

-----------------------------------------------------------------------------
MemberNext ==
  \/ \E c \in Channels : SetActiveChannel(c)
  \/ Clear \/ ClearGuild
  \/ \E first, last \in Rows : UpdateSubscriptionRange(first, last)
  \/ FlushPendingRanges \/ Reconnect
  \/ \E l \in Lists : SrvChange(l)
  \/ SrvSync \/ SrvLoses
  \/ \E x \in Items : HandleMemberRemoved(x)

MemberSpec == MemberInit /\ [][MemberNext]_memberVars

-----------------------------------------------------------------------------
\* The rows shown are the gateway's, whatever batch moved them; rows a short SYNC or a
\* removal left beyond the end never come back.  Two exceptions, until a SYNC covers the
\* rows: the list changed unreported, or a run of DELETEs came in another order than up the
\* list, which processBatchDeletes sorts and so applies to other rows.
RowsTrue ==
  \A l \in DOMAIN lists \ strayed : \A r \in DOMAIN lists[l].rows :
    r < Len(srv[l]) => lists[l].rows[r] = srv[l][r + 1]

\* The list the user looks at is not evicted, and the view has as many rows as it.
ActiveKept == active # None => activeList \in DOMAIN lists /\ total = lists[activeList].count

\* Ranges parked while a reply is awaited have that reply, or its timer, to wait for.
ParkedWaits == pending # {} => awaiting

\* A scroll that waited for a reply is subscribed to, unless the channel was left or the
\* gateway began a new session: refreshActiveSubscription drops it.
ParkedApplied ==
  [][pending # {} /\ pending' = {} => ranges' = pending \/ active' # active \/ Reconnect]_memberVars

\* "the gateway never answered the current subscription": while the list shown is not the
\* one reported, its request is under way or the timer that repeats it runs; unless an
\* update the request did not ask for had stopped the timer before it was lost.
AskedAgain ==
  active # None /\ subscribed # activeList /\ ~untimed =>
    awaiting \/ \E i \in DOMAIN asked : asked[i].list = activeList

\* The list shown is kept, and what was asked of it is under way or asked again.
ListHeld == MemberTypeOK /\ ActiveKept /\ ParkedWaits /\ AskedAgain

=============================================================================
