# A verification project for Acheron

Acheron is a Discord client in C++ and Qt (`src/src/`, about 95 000 lines, more than
half of them widgets). This directory holds TLA+ models of the parts of it whose
correctness depends on the order in which threads, timers, network answers and the user
act, the TLC configurations that check them, and TLAPS proofs of what matters most.

Everything in a module is translated from the source; comments, documents and tests were
used to learn what the code is meant to do. Where the code does something else, section 6
says so, and the property concerned names the exception. `PROJECT.json` maps every
definition to the lines it stands for.

- [1. The system](#1-the-system)
- [2. Modules and how they correspond to the code](#2-modules-and-how-they-correspond-to-the-code)
- [3. Runs, bounds and what they show](#3-runs-bounds-and-what-they-show)
- [4. Fairness](#4-fairness)
- [5. Proofs](#5-proofs)
- [6. Differences between the code and what it says](#6-differences-between-the-code-and-what-it-says)
- [7. What is not modelled](#7-what-is-not-modelled)
- [8. What was built in which order, and what is left](#8-what-was-built-in-which-order-and-what-is-left)

To check: `tlc -workers 2 -config X.cfg M` for a run, `tlapm MProofs.tla` for proofs.

## 1. The system

### Threads

| Thread | Owner | Runs |
|---|---|---|
| UI thread | Qt event loop | every manager, `Client`, `HttpClient`'s callbacks, all models; slots of the other threads' signals are queued here |
| network thread | `Discord::Gateway` | connect, receive loop, close handshake, back-off |
| heartbeat thread | `Discord::Gateway` | heartbeats, zombie detection |
| ingest thread | `Discord::IngestThread` | inflates and parses what the network thread received |
| REST worker | `Discord::RequestWorker` | a curl multi loop over all transfers |
| voice thread, voice network and heartbeat threads | `VoiceManager`, `VoiceGateway` | voice client, audio pipeline, voice socket |
| remote-auth network, heartbeat and HTTP threads | `RemoteAuthClient` | QR login |
| decode pool | `ImageManager` | image decoding |

### Components

For each: the state it keeps, its operations, whom it talks to, what is hard, and what makes
it correct.

**Gateway connection** (`Discord/Gateway`, `Discord/IngestThread`, the slots in
`Discord/Client`). State: `running`, `wantToClose`, `shouldReconnect`, the resume data, the
curl handle behind a mutex, the heartbeat's `heartbeatAck` and missed count, the ingest queue
with a generation. Operations: `start`, `stop`, `hardStop`, sending, the opcodes, the close
codes, the reconnect tail. Four threads share it; signals cross to the UI thread as queued
events and are handled later, when the connection they speak of may be gone. Correct: no event
of a stopped connection changes anything; no thread outlives the object; every stop ends; a lost
connection comes back; a silent server is noticed; nothing reconnects without a cause.

**REST transport** (`Discord/HttpClient`, `Discord/RequestWorker`). State: pending and active
transfers, retry timers with their own copies of the request, captcha attempts. Correct: a
callback runs at most once, and never goes missing while the client lives.

**REST facade** (`Discord/Client`). Endpoint wrappers without state, and the upload pipeline:
slots, parallel PUTs, one POST, cancellation at any moment. Correct: a cancelled message is not
posted; each send ends in exactly one way.

**Session and accounts** (`Core/Session`, `Core/ClientInstance`, `Storage/DatabaseManager`).
State: the registered instance per account, instances waiting for deferred deletion, the cache
database connection, named after the account. Correct: one instance per account; an older
instance's report or deletion never touches a newer one; the cache is closed in the end.

**Read state** (`Core/ReadStateManager`). State: a cursor and counts per channel, the active
channel, a delayed acknowledgement. Talks to the server through REST acknowledgements and
MESSAGE_ACK events, which echo its own and other devices' reads. Correct: what was read is
acknowledged; cursors do not go back; the client catches up.

**Message store and chat window** (`Core/MessageManager`, `Storage/MessageRepository`,
`UI/Chat/ChatModel`, `UI/Chat/ChatView`). State: per channel an ascending list of ids, a shared
object cache, the disk's rows and tombstones, the view's rows, the end of history if known, the
debounce of history loads. Three kinds of fetches and live events overlap. Correct: memory stays
sorted and free of duplicates (its binary searches rest on it), nothing is shown twice,
a deleted message stays deleted, scrolling never hangs, nothing is skipped.

**Voice** (`Discord/AV/*`, `Core/AV/VoiceManager`). A second gateway with a cap on
reconnections, IP discovery over UDP, the pairing of VOICE_STATE_UPDATE and
VOICE_SERVER_UPDATE in either order, the voice thread and its generation guard, DAVE
epochs around an external MLS library. Correct: at most one voice thread; a late signal of a
former connection changes nothing; a pairing joins updates of one guild; keys are used only
after their transition.

**Audio** (`Core/AV/AudioPipeline`, `JitterBuffer`, `AudioMixer`, codecs, devices). Correct:
the jitter buffer plays frames in sequence, once, across the 16-bit wrap.

**Forum** (`Core/ForumManager`). Paged search with retries and a generation that is bumped on
a new sort order; one unread request under way at a time, with parked requests and a watchdog.
Correct: every request is sent in the end; a late page of an old generation is ignored; posts
stay sorted and unique.

**Member list** (`Core/MemberListManager`). A sparse index kept by batches of SYNC, INSERT,
UPDATE, DELETE and INVALIDATE, and range subscriptions with a response timer. Correct: batches
equal their operations one by one; the subscribed ranges are those last asked for.

**Permissions** (`Core/PermissionComputer`, `PermissionManager`). A pure computation over
bit sets and a cache. Correct: the cache is never older than the roles it was made of.

**Other managers.** `UserManager`, `RelationshipManager` (caches overwritten by events);
`TypingTracker` (expiring entries); `ImageManager`, `LinkPreviewManager` (request
de-duplication, bounded caches); notifications (a pure decision and platform output);
`RemoteAuthClient` (QR login on its own socket); storage repositories and nested transactions;
protobuf settings, Markdown, emoji (pure functions); settings, theme and the widgets.

### How they interact

```
 network thread --bytes--> ingest thread --queued payloads--> Gateway (UI) --signals--> Client
   Client --signals--> ClientInstance --> ReadStateManager, MessageManager, MemberList, Forum, Voice
 MessageManager --messagesReceived--> ChatModel/ChatView (UI)      ReadStateManager --ack--> Client
 Client --submit--> HttpClient --queue--> REST worker --queued completion--> HttpClient --callback-->
 Session owns ClientInstance owns Client owns Gateway and HttpClient
```

Every arrow marked "queued" is a place where the receiver may have moved on; almost every
hazard in `PROJECT.json` is one of these.

## 2. Modules and how they correspond to the code

| Module | Models | Lines |
|---|---|---|
| `Gateway` | the gateway's network, heartbeat and ingest threads and the UI thread's part | 652 |
| `RequestContract` | what `HttpClient` promises: an abstract specification | 51 |
| `HttpClient` | `HttpClient` and `RequestWorker`; refines `RequestContract` | 269 |
| `Session` | `Session` with the instances' lives | 227 |
| `ReadState` | `ReadStateManager` with the server's cursors | 260 |
| `MessageStore` | `MessageManager`, the message table, `ChatModel` for one channel | 338 |
| `VoiceManager` | `VoiceManager` between the gateway's events and the voice thread | 406 |
| `VoiceClient` | `VoiceGateway` with its threads, and the `VoiceClient` that owns it | 475 |
| `DaveSession` | end-to-end encryption keys and the table of speakers | 282 |
| `RequestBatch` | `ForumManager::RequestBatch`, as operators | 52 |
| `ForumUnreads` | `ForumManager`'s unread counts, over `RequestBatch` | 163 |
| `MemberList` | `MemberListManager`: sparse rows, operations, ranges | 336 |
| `Outbox` | previews, uploads and POSTs of messages on their way out | 249 |
| `Permissions` | the permission computation, its cache, the rows beneath and the composer's state | 266 |
| `Composer` | `Outbox` and `Permissions` composed: what may be typed, and what is posted | 51 |
| `CaptchaResolver` | the captcha dialog all requests share | 171 |
| `RemoteAuth` | the QR login's three threads and its dialog, with `CaptchaResolver` | 300 |

`MCSession`, `MCVoiceManager`, `MCForumUnreads`, `MCMemberList` and `MCComposer` instantiate a module for TLC:
symmetry, and constants that a `.cfg` cannot write. `GatewayProofs`, `RequestProofs` (`HttpClient`,
`RemoteAuth` with `CaptchaResolver`), `AccountProofs` (`Session`, `ReadState`), `MessageStoreProofs`, `VoiceManagerProofs`, `CallProofs` (`VoiceClient`, `DaveSession`), `ListProofs` (`ForumUnreads`,
`MemberList`) and `ComposerProofs` (`Outbox`, `Permissions`, `Composer`) hold the theorems. Two modules that a proof module
extends together name their specifications and variables apart (`SessionSpec`, `ForumSpec`, `MemberSpec`, `LoginSpec`; `workerRunning` is
`RequestWorker::running`).

Definitions whose comment begins with "mutant:" are plausible faults of the code. They are
never used by a specification; each shows that a property can tell such a fault. A variable marked
"history" is not in the code: it remembers what happened, so that a property can name its exception.

### Gateway

`running`, `wantToClose`, `shouldReconnect`, `canResume`, `isResuming`, `curl` are the
object's fields. `npc` is where the network thread is, `hb` where the heartbeat thread is, `ui`
where the UI thread is when it is inside a function that another thread can interleave with
(`sendPayload` between its two critical sections, `handleHello` between choosing and sending the
handshake, `hardStop` in its joins). `ingestQ` is the worker's queue, `uiQueue` the UI
thread's queue of queued signals, in posting order. `srv` is what the peer is doing. `faults` counts what the
environment did wrong, `races` the connects that came between the two halves of a skipped send, which the code brings
about alone. `Ingest` takes, inflates and posts in one step: the UI thread is handed the same whenever it is posted, and
the one order this leaves out is a payload behind the "reconnecting" of the `reset` that did not see it any more.

- *Network thread*: `NetTop` .. `NetWhile` are the steps of `networkLoop`, cut wherever a lock is
  taken or released or an atomic that another thread writes is read. The tail of a lost connection
  (close frame, cleanup, test for a reconnect, join of the heartbeat thread under its mutex,
  reset, back-off, loop condition) is seven actions for that reason.
- *Heartbeat thread*: `HbBeat`, `HbSend`, `HbRecheck`, `HbWait`.
- *Ingest*: `Ingest` takes one segment; it inflates, or fails and posts `decompError`. A gap
  (a chunk dropped by the full queue) and damaged data are one injected fault.
- *UI thread*: `Start`, `Stop`, `Destroy`, `UISend`, and one action per queued signal.
- *Peer* (external): it answers handshakes with READY, RESUMED or INVALID_SESSION, closes with a
  code, stops answering, lets sends fail.

### RequestContract and HttpClient

A request is a model value that is in one of five places: `pending` or `active` in the worker,
`outcome` (its completion is queued to the UI thread), `parked` behind a retry timer, or `captcha`
(its challenge is being shown). The destructor is four steps (`Destroy`, `Shutdown`, `Join`, and the
worker's `Abort`), as the code's order is: answer what is parked, refuse submissions, stop the worker,
join it. `putExternal` and `putExternalFile` answer in the call itself if the address is not https or names a
private host (`RefuseExternal`). `RequestContract` knows which requests were made, how often each callback ran and
which requests wait to be made again; closing it answers those that wait and, unlike the comment at
`RequestWorker.cpp:457`, nobody else (section 6).

### Session

Single threaded, but what an instance's threads post to it (`mail`) is handled later than the user's
next click. `life` goes through "live", "dying" (`deleteLater` was called) and "gone"; the
`delete` event in an instance's mail is its DeferredDelete, behind what was posted before. A cache
connection has no owner: it is looked up by the account's name, so any instance may close it.

### ReadState

The server's `newest` and `serverAck`, the client's `entry`, `last`, `counted`, `active` and
`pending`, the events in the gateway's order and the acknowledgements in any order. An entry made by
a mention has no `lastMessageId`; in the code that is `Snowflake::Invalid`, the largest id, and so it
is here. Another device is `SrvRemoteRead`. `SrvReady` is a new session: the events under way are
lost, READY carries the server's state. `seen` (history) is what the user read at this client, whatever READY does
to the cursor, and `rewound` (history) names the channels whose pending acknowledgement READY took back.

### MessageStore

One channel. The server's messages are 1 .. `newest` without `deleted`; events arrive in order; a
fetch is answered at one moment (`SrvAnswer` computes its page) and handled at a later one
(`OnFetched`). `order` and `evicted` are the memory, `disk` and `tombs` the table, `view` the chat
window, `gate` the view's `isFetchingTop`, `lowest` the known end of history, `debounce` the
load under way. `LowerBound` is `std::lower_bound` step by step, since its answer on an unsorted
sequence matters. `ChatModel`'s moved-from elements after `std::move` are not modelled (see 6).

### VoiceManager

A place is a guild and a channel. `channel` is where the manager believes the account to be, `pending` the
half of a pairing that has arrived (VOICE_STATE_UPDATE and VOICE_SERVER_UPDATE, in either order), `conn` the voice
thread with its client and pipeline, `tasks` the calls posted to that thread, `signals` what the client posted
back. A signal of a former connection is marked `live = FALSE`: the code compares generations. A token
numbers the voice servers in the order the gateway gives them, so that "the newest" can be said. The server announces a
move's server update before or after its state. `lost`, `gone` and `conn.mixed` are history, the three exceptions of section 6:
`mixed` marks a connection for which the state of one guild was paired with the server update of another.

### VoiceClient

`gw` are `VoiceGateway`'s atomics, `npc` and `hb` its threads, `vpc` where the voice thread is inside a
call that the other threads interleave with, `q` what they posted to it, `vc` the client's fields. As in `Gateway`,
the network loop is cut where locks and atomics are. The voice server is external: `srv` and `wire` are its view of
the connection and its frames, `resumable` and `keyed` whether it still holds the session and the client its
key. The session description, IP discovery with its time-out and the cap on reconnections are the
client's own states. `VoiceGateway::stop` has no caller in the repository, so `wantToClose` is left out with
what it guards.

### DaveSession

All of it is on the voice thread. `dave` are `DaveSession`'s fields, `dec` the decryptors (whose key of which group each
holds), `ssrcMap` and `connected` the tables `VoiceClient` keeps and `DaveSession` reads by reference. The MLS library
is external: a group is a number, a new one for every commit or welcome it accepts. `Completes` and `StartsOver` are
`completeTransition` and `reinitialize`; the actions are the opcodes of the voice gateway and a datagram, in any order.

### RequestBatch and ForumUnreads

`RequestBatch` is the struct of the header as pure operators on a record (`Add`, `Taken`, `Forget`, `Release`).
`ForumUnreads` is its user: `taken` the threads of the request last sent, `due` its watchdog, `timers`
the flushes scheduled, `requests` what is under way, answered in order, late or never. A reply does not say what it answers,
which is what makes the attribution of replies a property and not a matter of course.

### MemberList

`lists` is a map from list ids to sparse rows; a list id is a hash of who may see the channel, so two channels may
share one (`ListOf`). `Processed` is `handleMemberListUpdate`'s loop: runs of INSERTs and of DELETEs are gathered
and applied together, the DELETEs in ascending order (`Ascending`), everything else ends a run. The server applies the same
operations one by one to a sequence (`Shift`), so that `RowsTrue` compares the two. `ranges`, `pending`, `awaiting` are the subscription, its parked
successor and the response timer. `strayed` remembers the lists whose rows may not be the gateway's: they changed unreported, or by a run of
DELETEs that did not go up the list (`InOrder`), which the sort turns into other rows (see 6); a SYNC of all their rows clears it.

### Outbox, Permissions and Composer

`Outbox`: a message is a nonce with files. Slots are asked for, every file is PUT, the message is POSTed, and the
gateway echoes it; `active` are `activeUploads`, `cancelFlag` and `failed` the two flags of an `UploadState`. The DELETEs of
`cleanupUploadedSlots` are requests of their own (`deleting`, `SrvDeletes`, `DeleteAnswered`): one may fail, and its file stays (`leftover`). The server may
have done what a failed answer denies (`SrvPosts` and `SrvStores` are steps of their own, before the answers).

`Permissions`: `db` are the rows permissions are computed from, `cache` the `permissionCache`, `wire` the
gateway's events in order. `Computed` is `PermissionComputer` (everyone, then roles, then the channel's overwrites in their order;
the administrator has all); a channel that is not in the rows has none, and that is cached too (`Ask`). One action per handler of `ClientInstance`; the member list's handler saves the own member and
invalidates nothing, as the code does. `open` and `enabled` are the chat window's channel and its
composer; `hushed` remembers that the open channel's entry changed without a signal (a new session, or eviction).

`Composer` extends both: a message is typed only into an enabled composer, and the server posts it only where it
lets the user write; a new session loses the events of both sides at once.

### CaptchaResolver and RemoteAuth

`mail` is the UI thread's queue. `state`, `queue`, `currentCb`, `generation`, `modal` are the resolver's; a message
box is a nested event loop inside `startNext` (`boxes`), in which everything else may happen. `RemoteAuth` adds the QR
login: its network thread (`npc`), heartbeat thread (`hb`) and HTTP thread (`http`), the dialog's client (`ui`), the
exchange with server and phone (`stage`). The HTTP thread is detached by `stop()`, and its answer looks for the client.

## 3. Runs, bounds and what they show

Twelve runs, one per question, all of them expected to pass. `Inv`, under that name or another, is in every module its
type invariant together with the invariants of its own that belong to one sentence:

| Module | its `Inv` is the type invariant and |
|---|---|
| `Gateway` | `NeverConnectedAfterStop`, `JoinedOnDestroy` |
| `HttpClient` | `OneOwner`, `NeverLost` |
| `Session` (`OneAndClosed`) | `OneClientPerAccount`, `CacheClosedWhenIdle` |
| `ReadState` | `ReadIsAcknowledged`, `NothingSkipped`, `CaughtUp` |
| `MessageStore` | `OrderAscending`, `ShownOnce`, `WaitEnds` |
| `VoiceManager` | `ConnectionCurrent`, `CallMade` |
| `VoiceClient` | `NoThreadLeft`, `Undisturbed` |
| `DaveSession` (`MembersTrue`) | `LeftUnheard`, `SameUsers` |
| `ForumUnreads` (`MarkersTrue`) | `NoMarkerLeaks`, `RepliesAttributed` |
| `MemberList` (`ListHeld`) | `ActiveKept`, `ParkedWaits`, `AskedAgain` |
| `Outbox` (run `composer_sends`) | `CancelledNeverSent`, `NothingOrphaned`, `OnePlace` |
| `RemoteAuth` (`LoginHeld`) | `CallbackOnce`, `NoThreadLeft`, `ExchangeHeld`, `NobodyForgotten` |

| Run | Bounds | States | Properties besides `Inv` |
|---|---|---|---|
| `gateway_checked` | one fault or one race of a skipped send with a connect, queues of two | 211 000 | `NoSpontaneousReconnect`; `JoinsReturn` (every stop and the destructor end), `Recovers`, `ZombieDetected` |
| `http_checked` | two requests (one external), 3 retries, 3 captchas | 4 300 | the refinement `ImplementsContract`; `EventuallyAnswered`, `DestroyReturns` |
| `session_safety` | two accounts, three instances, two events per instance | 1 490 000 | `KeptUntilItsEnd` |
| `readstate_safety` | two channels, two messages each, two events under way, one new session | 555 000 | `CursorMonotone` |
| `messages_safety` | three messages, pages of two, view of two, memory of three, disk of two, two fetches, one deletion, one event under way, one loss | 2 450 000 | `EndIsProven`, `TombstonesStay` |
| `voice_calls` | two guilds with two channels, another user, three voice servers, three moves, one mute, two signals under way | 1 821 000 | `ParticipantsTrue`, `MicFollowsMute`, `NoStrayTeardown` |
| `voice_client` | three reconnections, three faults, queue of three | 499 000 | `KeyCurrent`; `LossSettled` (`EndTold` and `Settles`) |
| `dave_keys` | two users, two SSRCs, three groups | 25 000 | `EnabledKeyed`, `SpeakersKeyed` |
| `forum_unreads` | two threads of one forum and one of another, two pending, two timers, two requests | 56 000 | `ParkedKept`, `Served` |
| `member_list` | three channels on two lists, three items, four rows in blocks of two, updates of two operations in any order, two changes, one loss, one list kept | 156 000 | `RowsTrue`, `ParkedApplied` |
| `composer_sends` | a message of text or of two files, one channel, one role, two changes of the guild, three events under way, one new session | 232 000 | `PermissionsHold`, `CancelIsQuiet`, `SendsEnd` (`PreviewsEnd` and `UploadsSettle`) |
| `qr_login` | one login and one request of an account, two captchas each | 253 000 | `EndsOnce`, `CaptchaAnswered`, `LoginEnds` (`EndHeard`, `CloseReturns`, `HeartbeatEnds`) |

Deadlock is checked, so that no order of locks and joins stops everybody, except in four runs in which a
bounded environment really runs out: `member_list` (changes and losses are used up and no channel is open),
`voice_calls` (moves are used up and everything is handled), `composer_sends` (the message is
settled and the guild's changes are used up), `qr_login` (the dialog is opened and closed once). What must not stop
there is stated as liveness, or as an invariant of the settled state.

Every property has a mutant in `PROJECT.json` that breaks it.

Why the bounds are enough to be interesting:

- *Gateway.* One fault already reaches every phase: a failed connect, a lost connection, a refused
  resume, a failed send, a damaged stream and a silent server each lead through the whole
  reconnect tail, with the old connection's signals still queued; so does the code's own race of a skipped send with the
  connect, which is counted apart (`races`) and shares the bound. More of either add
  repetitions of that cycle. Two queue places are what a race between a payload and a signal needs.
- *HttpClient.* The caps are the code's. Requests share only the destructor and the worker's loop, so
  two of them, one per host kind, show every interaction.
- *Session.* Three instances on two accounts allow a predecessor, its successor and the successor's
  successor of one account, which is what the reports of an older instance can confuse.
- *ReadState.* Two messages per channel give an older and a newer acknowledgement, two channels a
  switch away from a pending one.
- *MessageStore.* Pages of two over three messages make pages that overlap, touch and miss each other;
  caps of two and three make every trim happen.
- *VoiceManager.* Three voice servers allow a connection, its replacement and the replacement's
  replacement; two signals under way let an old connection's end arrive behind a new one's start. Two guilds make the state and the
  server update of a move between them meet in either order.
- *VoiceClient.* A cap of three makes giving up happen, and two reconnections one behind the other: a HELLO of the first that is
  handled late makes the second begin a new session while the last one can still be resumed. Three faults are a
  loss, a forgotten session on the way back and a silent UDP server.
- *DaveSession.* Three groups: the one in use, the one a commit prepares and the one that comes instead. Two users and two
  SSRCs let an SSRC change hands.
- *ForumUnreads.* Two threads of one forum share a batch, the third must be parked.
- *MemberList.* Two blocks of two rows, and lists that reach into the second; two operations make a run, its end, and an
  operation behind it, and a run of DELETEs in either order: without `InOrder`, `RowsTrue` fails at depth 5. One list kept makes
  every switch evict.
- *Composer.* The guild's entries are independent but for the limit of the cache, which is `Evict`; messages share nothing, so
  one at a time is enough. Two changes are a change and the one that undoes or overtakes it.
- *RemoteAuth.* Two users of the dialog are what a queue of one needs; two captchas are a first and a repeated one.

## 4. Fairness

*Gateway* (`Fairness`). Weak fairness of each thread's own steps: the operating system runs threads, waits
have time-outs (`wait_for`, poll with a time-out), and joins return when the other thread has ended.
`Reliably` leaves the injected faults out: nothing forces a connection to fail. Strong fairness of the
UI thread's handling of its queue, because the user may keep the event loop busy with sends, and Qt
still delivers posted events in order. Strong fairness of the peer's answers and close frames: a peer that
has not fallen silent gets its frames through although acknowledgements compete with them; a silent
peer sends nothing, and that is the case `ZombieDetected` is for. `NetCloseTimeout` is the code's own
timer for the close handshake. Nothing forces the user to do anything. A server that accepts the connection and never
says HELLO is not covered: there is no time-out for it in the code, the heartbeat thread starts with HELLO, and
`Recovers` says so (`srv = "silent"`).

*HttpClient* (`Fairness`). Weak fairness of the worker's loop, timers and the UI thread's steps; strong
fairness of a transfer's completion, since every transfer has a curl time limit and the worker
may be between polls when it is due. The user need not answer a captcha, so `EventuallyAnswered` excepts it.

*VoiceClient* (`Fairness`). Weak fairness of the three threads without the injected faults, and of the answer of IP
discovery, which has a time-out of its own. A silent server is a fault; `Settles` excepts it only where no heartbeat
thread is there to notice.

*ForumUnreads* (`ForumFairSpec`). The flush timer, the 30 seconds of a request and the watchdog fire: they are `QTimer`s on a
running event loop. The gateway need not answer anything.

*Composer* (`ComposerFairSpec`). Every HTTP request is answered, at least by its time-out (that is `http_checked`'s
`EventuallyAnswered`), and an echo under way is handled. No change of the guild, no session and no cancellation is due.

*RemoteAuth* (`LoginFairSpec`). Threads run, waits are bounded, transfers have time limits, the event loop handles what was
posted unless the UI thread is inside `stop()`. User, phone and server need not act, so a login that nobody scans goes on
as long as its socket lives.

The other runs state safety only. `MemberList`'s timer makes `AskedAgain` an invariant: whoever waits has
something to wait for.

## 5. Proofs

TLC checks the instances above; TLAPS proves these for every value of the constants that satisfies the
modules' assumptions (`BoundsAssumption`, `HttpAssumption`, `SessionAssumption`, `ReadStateAssumption`, `VoiceClientAssumption`, `DaveAssumption`,
`PermAssumption`, `VoiceManagerAssumption`, `MessageStoreAssumption`, `ForumUnreadsAssumption`, `MemberListAssumption`, `CaptchaAssumption`: bounds are natural numbers, the values that stand for "none" are none of the others, external requests are
requests, the callers of the captcha dialog are finitely many, a block has a row and a forum at least one request under way, a role may carry nothing or the permission to send). `Outbox` needs none.

| Theorem | States |
|---|---|
| `GatewayProofs!TypeCorrect`, `NoConnectedAfterStop`, `NoThreadSurvives`, `StopIsFinal` | `Spec => []Inv` and its parts |
| `GatewayProofs!NeverOnItsOwn` | `Spec => []NoSpontaneousReconnect` |
| `RequestProofs!TypeCorrect`, `SingleOwner`, `NothingLost`, `RequestsKept`, `ParkedAreAnswered` | `Spec => []Inv`, its parts, and an action property |
| `RequestProofs!Implements` | `Spec => Contract!Spec`: the refinement |
| `AccountProofs!TypeCorrect`, `OneClient`, `CacheClosed`, `AccountsKept`, `Kept` | `SessionSpec => []OneAndClosed`, its parts, and `KeptUntilItsEnd` |
| `AccountProofs!ReadsKnown`, `CursorNeverBack` | `Spec => []Inv`, `Spec => CursorMonotone` |
| `ComposerProofs!OutboxSafe`, `CancelStaysQuiet` | `Spec => []Inv`, `Spec => CancelIsQuiet` |
| `ComposerProofs!ComposerSafe` | `ComposerSpec => []Inv /\ CancelIsQuiet`: they survive the composition |
| `CallProofs!ThreadsTrue`, `KeyTrue`, `ClientInvariance` | `Spec => []Inv`, `[]KeyCurrent` of `VoiceClient`, and the inductive invariant of both |
| `CallProofs!CallMembers`, `KeyOfGroup`, `SpeakersHeard` | `DaveSpec => []MembersTrue`, `[]EnabledKeyed`, `[]SpeakersKeyed` |
| `ComposerProofs!AnswersTrue` | `PermSpec => []PermissionsHold` |
| `ComposerProofs!ComposerAnswers` | `ComposerSpec => []PermissionsHold`, likewise |
| `VoiceManagerProofs!NoStray`, `CallCurrent`, `Invariance` | `Spec => NoStrayTeardown`; `Spec => [](ConnectionCurrent /\ CallMade)`, and with the types `[]Inv` |
| `VoiceManagerProofs!MicrophoneTrue`, `AudienceTrue` | `Spec => []MicFollowsMute`, `Spec => []ParticipantsTrue` |
| `MessageStoreProofs!MessagesSafe`, `EndProven`, `MarksStay` | `Spec => []Inv`, `Spec => []EndIsProven`, `Spec => TombstonesStay` |
| `MessageStoreProofs!LowerBoundSplits` | on an ascending sequence the binary search finds the first place not below the id |
| `ListProofs!MarkersKept`, `ParkedStay`, `ForumInvariance` | `ForumSpec => []MarkersTrue`, `ForumSpec => ParkedKept`, and the inductive invariant of both |
| `ListProofs!RowsStayTrue`, `ListIsHeld`, `MemberInvariance` | `MemberSpec => []RowsTrue`, `MemberSpec => []ListHeld`, and the inductive invariant of both |
| `ListProofs!ParkedIsApplied` | `MemberSpec => ParkedApplied` |
| `RequestProofs!LoginInvariance`, `LoginEndsOnce` | `LoginSpec => []LoginHeld`, `LoginSpec => EndsOnce` |
| `RequestProofs!JoinIsShort` | `LoginSpec => []JoinReturns`: `postLogin` joins only a thread whose answer was handled |

Arguments:

- *Gateway.* The type invariant is three conjuncts (flags, control, data) with one step per action.
  `NeverConnectedAfterStop` rests on a lemma (`OnlyHandlersReport`): only `Start`, `Stop` and the handlers of
  READY, RESUMED, reconnecting and disconnected change `wantToClose` or `clientState`; each of them that
  reports Connected tests `wantToClose`. `JoinedOnDestroy` is a consequence of `JoinsDone`: when the
  destructor has passed its join of the network thread that thread has ended, and when it is done the heartbeat
  thread has been joined and the ingest worker is off. It is inductive because only the UI thread
  starts threads, and its event loop is gone once the destructor runs.
  `NoSpontaneousReconnect` needs the whole history of an undisturbed connection (`Calm`): it is opened once (`Fresh`, then
  `Up`), its one HELLO comes before all else in the worker's queue, in the UI thread's and in the handshake
  (`HelloFirst`), so that every payload inflates and one handshake is sent; a beat waits for the answer
  to the last (`Beats`); and what is queued asks for no reconnection (`NothingAsked`). A payload may be skipped before
  the connection is up; as long as no connect overtakes its recheck (`races = 0`) it asks for nothing.
- *HttpClient.* `OneOwner` is not inductive. `Ownership` adds that only requests that were made are held by
  anybody (`HeldAsked`), that the callbacks of the others never ran (`FreshUncalled`), that nothing is parked
  once the destructor has answered what was (`NoneParkedLater`), and that a captcha is shown only below the
  cap (`ShownBelowCap`), which the type of the counters needs; that no external request is parked
  (`NoneParkedExternal`), which the refinement needs. `IInv` is the type invariant, `Ownership`
  and `NeverLost`. For the refinement, `open` is `client = "alive"` and `waiting` is `parked`: the step `Destroy`
  maps to `Close`, `Park` and the timer to `PutOff`, `RefuseExternal` to `Refuse`, `Deliver` and the refused captcha to
  `Answer`, everything else to a stutter.
- *Session.* `SessionIInv` adds to the type invariant the life cycle (`OneClientPerAccount`; only a dying instance has
  a `delete` in its mail; an instance that was not created was not stopped) and who will close a cache
  (`CacheHeld`: an open connection has a live instance, or a dying one in `closer`).
- *ReadState.* The argument is about the order of events. `Order`: an event tells no more than the server knows
  (`EventsSay`), a READY under way is the first event (`ReadyFirst`: a new session loses the ones before it), a
  message is newer than all before it (`CreatesNew`), an acknowledgement follows the message it is for
  (`AcksFollow`). `Coming`: whatever the client does not know yet of a message (`LastComing`) or a cursor
  (`CursorComing`), an event under way will tell it, also where an entry without a cursor ignores some of them (`HeldComing`) and
  where a READY will first take back what the client knew (`ReadyComing`). Without events under way, `Coming`
  is `CaughtUp`; a cursor moves back in `OnReady` alone. `StaysRead` and `NotAhead` say of a step what keeps
  `ReadIsAcknowledged` and `NothingSkipped`, which speak of `seen`, not of the cursor a READY may have moved.
- *Outbox.* `Places` says that a message is in one place on its way (slots and PUTs, POST, posted) and `Flags` what the
  flags of its upload mean (who failed or was cancelled carries `cancelFlag`, is told of it once, and is on no way to the channel);
  `Shows` ties the preview to what will end it. `Whole` says that a message to be POSTed has all its files on the server and no DELETE of one under way.
  A step of `Composer` is a step of `Outbox` or leaves it alone (`ComposerStepsOutbox`).
- *VoiceClient.* What the server sent and the voice thread has not handled is one path, `q \o wire`, however much of it was
  received: receiving a frame does not change it, and dropping the oldest ACK from a full queue only thins it. Before the
  handshake there is a HELLO on it, last but for ACKs, behind the "connected" that announces it (`HelloNext`); in
  a session one answer at most, before any description (`InSession`). A call that is shown connected has its socket and the key
  unless the path says otherwise (`Shown`). That the key is the session's rests on what RESUME may be sent for: a client
  that has a key and may resume has the key of the session the server holds (`KeyHeld`), and one that may resume will, or
  finds its key dropped by an end or a new session that is on the path (`Resuming`, `Falling`). `Owned` has the joins and the threads,
  `Calm` the whole history of a call without faults, whose heartbeat thread never finds an answer missing.
  `KeyHeld` was not inductive at first, and the state that broke it was reachable with a third attempt: it is the late HELLO
  of section 6, which the bound of two had hidden.
- *DaveSession.* Neither property is inductive. A transition that completes must find a group (`ReadyInGroup`), and a session
  that is gone holds nothing (`Housed`). `LeftUnheard` follows from two facts that are: a key is of the owner of its SSRC (`KeysOwned`), and
  an owner is in the call (`OwnersIn`), each with its exception. There is one lemma per group of opcodes.
- *Permissions.* The last event under way that tells of a row tells what the server has, and a row of which no event
  tells is the server's already (`Known`, for roles, membership and channels: `AllKnown`). An entry of the member list, which
  invalidates nothing, brings news only if the event that does invalidate is behind it (`ListBacked`); READY is the
  first event of its session (`ReadyFirst`). With those, an entry of the cache that is not what the rows give has the
  event that drops it under way (`StaleNotForLong`), and the composer follows the entry of the open channel or the
  signal under way (`ComposerFollows`). The proof uses of
  `Computed` its type and that it depends on the rows of its guild, not what it computes: that is TLC's part.
  `ComposerStepsGuild` does for `Composer` what `ComposerStepsOutbox` does.
- *VoiceManager.* `NoStray` is about generations: a live signal is of the connection there is, and its end is told
  only once it ended (`LiveOwned`). `CallCurrent` is about the two streams of a call. The server update handled last is
  the newest (`Newest`); a server update finds the account in its guild, or has the state that puts it there behind it
  and before any other server update (`Paired`, `FirstSelf`); an account without a call has one half of it pending and
  the other one under way (`Coming`, `Halves`). A server update that is kept for its state is, until that comes, all there is to say of
  servers, so the connection only has to be on the newest one while nothing is kept.
  `MicrophoneTrue` follows the calls posted to the voice thread: `Outcome` is what all of them together will make of the
  pipeline, and `Mic` says that it agrees with the manager's mute and with the connection before and after each of
  them; what a sequence of calls makes of the pipeline is `After`, a recursive function whose value one call
  further is shown by induction. `AudienceTrue` compares two ways of hearing of a user: where the client will have the user once
  the events are handled is where the user is (`Tracked`), and the last signal about the user says what the voice server told last
  (`Told`); who is missing in the list, or is one too many, has a signal coming (`Shown`, `Few`).
- *MessageStore.* The invariants are about the client, and rest on what is under way to it: a page in an answer is ascending, and
  if it is history and short it is the end (`Answers`); a deletion that is told has happened (`Told`); there is one history load or
  none (`Loads`), which is what `WaitEnds` follows from. The memory, the table and the view are ascending, so a message
  is in each at most once (`Sorted`); with it the binary search is what `std::lower_bound` promises, for sequences of any length
  (`LowerBoundSplits`), and inserting keeps the order. That the known end of the history stays the end (`EndKnown`) needs that the server
  makes only newer messages.

- *ForumUnreads.* A batch's markers, its pending threads and its parked ones are tied together by `BatchOK`: every marker stands for
  a thread pending or taken, and what is pending is of the batch's forum. `TakenIs` says what `take()` does with the parked ones: each is
  marked or parked again, and one at least is marked, so that no flush hands out nothing. The replies are attributed (`Attributed`)
  because, as long as none came late, a flush is only let through when all requests under way have been given up (`GivenUp`).
- *MemberList.* That a batch does what its operations do one by one is `ProcessedIs`: an operation added to an update does to the
  outcome what it does applied alone; and applied alone to rows that agree with the gateway's list (`Agree`) it leaves rows that
  agree with the list after it (`OneApplied`). A run of INSERTs is applied in order anyway. A run of DELETEs is sorted
  first, which changes nothing when the rows come ascending already (`RisingStays`), as they do in an update that is
  `InOrder` (`OrderIs`, `UpdatesFollow`); of any other update the theorem only says that its list is `strayed`. The answer to a subscription may be about a list that changed unreported: every SYNC of
  it makes the rows that are wrong fewer, by those of its block (`Wrong`, `SyncByIs`), so those that are left are in blocks nobody
  asked for (`SyncsRight`, `ReplyIs`). Two facts are
  about the subscription: parked ranges have row 0 among them and a reply to wait for, and the request that goes out last is
  for the list shown (`LastAsked`). Without the latter `AskedAgain` is not inductive: at its bound `Ask` drops the oldest
  request, which might have been the one that is needed.
- *RemoteAuth.* `CallbackOnce` and `NobodyForgotten` are inductive together: who has asked is in one place, the queued calls
  (`Posted`), the queue or the dialog, and leaves it for the next one only by a step that answers, overwrites or has lost its
  owner; `ShowStep` says so once for all the ways into `startNext`. A rejected solution reuses the dialog, so that nobody's
  callback may be in it while it verifies (`Verified`). The types need a bound on the challenges shown. `Counted` gives it: each challenge shown is
  another pair of a caller and one of its attempts (`Showings`), because who asks has an attempt left (`AskedBelow`), and
  those pairs are finitely many. The login's half is `Phases`, the life of the client with its threads, and `Exchange`: until the
  login ends, the HTTP thread, its answer and the login's challenge are in one of six states together.
  That only a network thread brings messages (`Silent`) is needed for a HELLO not to start a heartbeat in a client without threads.
  `LoginEndsOnce` follows from `Phases`, in which an end stands for `done`, and `done` for every end refused.

Folds. The community modules define a fold over the ways to take a set apart, with an operator as a parameter. `FoldExists` shows, by
induction over the subsets of a finite set, that there is one; from there on a fold over a sequence is a function on the
subsets of its places (`Running`), of which `FoldMore` says what one element more does and `FoldTyped` what type the result
has. The lemmas named `...Steps`, `...Are` and `...Unrolled` do this for the folds of the two modules, for sequences of any length.

The library's induction theorems take an operator as a parameter, which the provers cannot instantiate. Where a proof needs
induction (what `After`, `LowerBound` and `Remaining` compute, that a finite set has an ascending enumeration, the folds) it goes through sets
of naturals: `LeastNatural` and `AllNaturals` follow from the library's `WFMin`.

Only model-checked: the liveness properties (`JoinsReturn`, `Recovers`, `ZombieDetected`, `EventuallyAnswered`, `DestroyReturns`, `LossSettled`,
`Served`, `SendsEnd`, `LoginEnds`, `CaptchaAnswered`), because the prover does not do liveness under fairness; and what `Computed` gives for each set of roles and overwrites, of which the proofs
use only its type and what it depends on.

## 6. Differences between the code and what it says

Seen while modelling, from reading the code or from a counterexample. No run checks them now; where one touches a property, the
property names it as its exception.

Gateway:

- `Gateway.cpp:165`: `sendPayload` fails under one lock and decides why under another, so a send that was skipped while
  connecting can force a reconnect of the connection just made; the comment (174-179) says that it must not. It is
  the one exception of `NoSpontaneousReconnect` (`races = 0`); `Recovers` is checked across it.
- `Gateway.cpp:839`: a HELLO of the lost connection, handled during the back-off, leaves a finished but joinable heartbeat
  thread, and the next session gets none (hence `HeartbeatAlive` in `ZombieDetected`).
- `Gateway.cpp:954` reports "reconnecting" after a failed connect although a stop was asked for; the comment at
  1029 wants no flash of that state after a stop. `Gateway.cpp:956` leaves the loop on a stop during the wait
  without any `disconnected` (comment at 1027). A fatal close code (`Gateway.cpp:1128`) can be overtaken
  by `shouldReconnect` from a queued handler and restart the loop (comment at 1125).

REST and sessions:

- `RequestWorker.cpp:464`: the failures reported while the worker is shut down are queued calls to an object in its
  destructor, and never run: those callbacks are left hanging (comment at 457), as `RequestContract!Close` says.
- `Session.cpp:134`: the deferred deletion of an instance closes, by name, the cache of the account's next instance.
  `Session.cpp:90` closes the cache before the instance is deleted (comment at 126 calls the other order an
  invariant). `Session.cpp:141` deletes an instance that has not reported Disconnected, and the account
  is shown as Disconnecting (comment at 138).

Read state, messages:

- `ReadStateManager.cpp:401`: a channel whose entry a mention made ignores every acknowledgement from another device.
  `ReadStateManager.cpp:30` keeps local unread counts over READY (`ReadStateManager.hpp:26` says reset on read).
  `ReadStateManager.cpp:41`: a READY handled while the active channel's acknowledgement waits for the timer puts the
  server's older cursor back, and the timer, or leaving the channel, acknowledges that one: what the user read stays
  unread at the server, which the flush at 452 is meant to prevent (comment at 449). `rewound` in `ReadState`.
- `MessageManager.cpp:996`: a page computed before a message's event, and handled after it, drops the message from memory
  and view. `MessageManager.cpp:205`: once the end of history is known, rows the view trimmed cannot be loaded again.
- `ChatModel.cpp:1332` puts history in front of a message a jump has inserted meanwhile, so that the view is
  not ascending; and the jump branch uses elements of a list it has moved from.
- Outbox: a DELETE of `cleanupUploadedSlots` that fails is logged and never repeated, and the file stays (`Client.cpp:1234`,
  `leftover`); a failed POST leaves the uploaded files in their slots; a failed answer that comes after the echo marks a delivered
  message as errored; a preview stays if its echo was lost with the session (a reply from a toast,
  `NotificationManager.cpp:629`, then never settles either).

Voice:

- A pairing does not compare guilds: if a move's VOICE_SERVER_UPDATE comes before its VOICE_STATE_UPDATE, the token of the
  new guild is used for the old one (`VoiceManager.cpp:206`; `mixed`), and the state that follows does not repair it. A queued `stop()` that is lost with its thread leaves the
  microphone captured (`lost`). After a terminal end a VOICE_SERVER_UPDATE does not connect again (`gone`). A new session
  on the same client keeps users who left meanwhile; a new pipeline never gets `setDeafened`; `removeUser` forgets a local
  mute's volume.
- A READY queued when `VoiceClient::stop()` runs is handled afterwards and sets up a UDP transport (comment at
  `VoiceClient.cpp:158`); the discovery's answer then dereferences the missing gateway (651). An internal
  `stop()` never emits `disconnected`. A late READY or RESUMED after close code 4006 sets `canResume` (`late`). A zombie
  verdict at a fatal close reconnects a client that is already disconnected (`VoiceGateway.cpp:599`). A late HELLO leaves a
  finished heartbeat thread (`VoiceGateway.cpp:259`), and clears `isResuming` for the connection after it (251): that one begins a new
  session while `canResume` stands, and if its READY is lost the next RESUME continues the newer session with the key of the older. RESUMED and two discovery time-outs tear the call down.
- DAVE: `onPrepareEpoch` sets `protocolVersion` but not `pendingProtocolVersion`, so that after a downgrade the
  EXECUTE_TRANSITION of an upgrade downgrades again (`DaveSession.cpp:165`, 239). Of two overlapping transitions the first execution
  completes with the newest group and the second starts a healthy session over (`pendingTransitionId` is never
  compared). After a failed commit or welcome the client waits for an EXECUTE_TRANSITION. Two outstanding key packages
  can chase each other. CLIENT_CONNECT names an SSRC without keying its decryptor (`VoiceClient.cpp:571` against 550:
  `silent`). After a downgrade late encrypted frames go to Opus. A user with two SSRCs who leaves keeps one entry in the map
  and its keyed decryptor, because both loops break at the first (`VoiceClient.cpp:587-592`, `DaveSession.cpp:299-304`): that SSRC is still
  decrypted, and is keyed again if a datagram comes (`behind`, an exception of `LeftUnheard`, as is `silent`).
- Jitter buffer: a sender that starts again below the window is discarded, and prebuffering counts no misses
  (`JitterBuffer.cpp:38`); advancing by several frames assumes one number per frame (`tests/tst_JitterBuffer.cpp`).

Forum, member list:

- `ForumManager.cpp:34`: `forget()` can empty a batch whose flush is scheduled; the flush then leaves `flushScheduled` set, and
  no later request schedules another (`jammed`; comment at `ForumManager.hpp:165`). The starter messages' batch has
  the same fault. A late reply clears another batch's markers (`mixed`), and may store a count for a thread read or deleted meanwhile.
- Paging: `st.offset` is not adjusted to posts deleted or inserted live, so a page may skip a post; `retryCount` is
  not reset when the retries run out; `onMessageCreated` changes a sort key without sorting.
- `MemberListManager.cpp:863` sorts a run of DELETEs and applies them one after another: "delete 1, delete 0" removes the
  wrong row, although the comment at 859 expects such runs and sorts them to be right. `RowsTrue` exempts the list by name
  (`InOrder`, `strayed`) until a SYNC covers its rows. An update nobody asked for stops the response timer
  (`untimed`). `refreshActiveSubscription` drops the parked ranges. `setActiveChannel` to a channel of the same list resets the ranges
  without a reset of the view. A SYNC shorter than its range leaves old rows.

Permissions:

- After the READY of a new session the composer is not refreshed; eviction of the open channel's entry suppresses the signal that a
  change of the guild sends (`hushed`). A composer in a thread is never refreshed: the parent's permissions are asked, the signals name
  the thread. A channel deleted while offline keeps its row and a stale entry. GUILD_UPDATE has no listener, so a change of owner is
  never stored. `onGuildMembersChunk`, READY_SUPPLEMENTAL and GUILD_MEMBER_LIST_UPDATE save the own member without
  invalidating. An own member missing from GUILD_CREATE caches "no permissions". READY's precomputation takes absent
  overwrites for none, while the database keeps the old ones.

QR login and captchas:

- The message box of `startNext` is a nested event loop in which another challenge may overwrite `currentCb`: the first
  callback is then never called (`BrowserCaptchaResolver.cpp:167-177`), against `CaptchaResolver.hpp:66` ("cb is invoked once"). `overtaken` in
  `NobodyForgotten` and `CaptchaAnswered` names those callbacks; only the owner of the topmost message box can be one. A
  dialog left verifying by a consumer that is gone stays open and holds the queue (`Stranded`): there is no time limit.
- A socket that closes normally fails a login whose exchange is under way (`RemoteAuthClient.cpp:288`).
  `notify_all` at 306 does not wake the heartbeat thread, and without the mutex it may be missed: `stop()` then waits
  for an interval.

## 7. What is not modelled

Inside the modelled components: rate-limit windows and buckets, headers, TLS, zlib's state beyond "a
context exists", the contents of payloads; mutes and notification levels; edits, reactions, previews of
messages being sent in other windows, layout caches; SQL text. More than one channel in `MessageStore`: the
channels share only the object cache, which is `Evict`. Voice: RTP, levels, devices, push to talk, volumes of single
users, `curl_easy_init` failing; what the MLS library does inside; the ten seconds in which an older ratchet is tried. Forum: search
pages and starter messages. Member list: roles' names, groups' counts and repainting. Permissions:
direct messages, the guild's owner, slow mode, threads, GUILD_CREATE and GUILD_DELETE, transactions of the cache that fail.
QR login: the RSA handshake, the image, the local web page (a server that cannot listen is a captcha cancelled at once).

Assumed of the server: events come in order within a session; a member whose role is deleted gets a GUILD_MEMBER_UPDATE;
member-list operations fit the list they are sent for; replies to a forum's request come in the order of the
requests.

Outside: the components with status `not_modelled` in `PROJECT.json`, each with its reason. Pure
transformations of text and bytes (Markdown, emoji, protobuf, RTP) are better served by the repository's own
tests; painting, devices, codecs and ciphers are out of reach; images, link previews, typing, users and settings are
keyed caches in which no property spans two keys. More than half of the repository is such code, so the share of it
that the map covers stays small.

## 8. What was built in which order, and what is left

1. `Gateway`, `RequestContract` and `HttpClient`, `Session`, `ReadState`, `MessageStore`, with the proofs of the first three.
2. `VoiceManager`, `VoiceClient`, `DaveSession`; `RequestBatch` and `ForumUnreads`; `MemberList`; `Outbox`;
   `CaptchaResolver` and `RemoteAuth`; `Permissions` and its composition with `Outbox`; the proofs of `ReadState`, `Outbox`,
   `DaveSession` and `Permissions`.
3. The proofs of `MessageStore`, `VoiceManager`, `VoiceClient`, `ForumUnreads`, `MemberList` and `RemoteAuth`.

Left, most useful first: the search pages of a forum against live events (`st.offset`); `VoiceManager` composed with
`VoiceClient`, which are checked apart and meet in the connection's phases; `ImageManager`'s request de-duplication; and nested
transactions.
