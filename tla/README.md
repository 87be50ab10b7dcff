# Verification of meow-chat

TLA+ models of meow-chat - a self-hosted family chat: a Go server (Fiber,
SQLite, one process per household), an Angular client, and a federation of
households - with the TLC configurations that check them and proofs checked by
TLAPS. Paths below are relative to the repository.

Contents: [the system](#1-the-system), [modules](#2-the-modules),
[runs](#3-the-runs), [proofs](#4-what-is-proved),
[divergences found](#5-where-code-and-documents-disagree),
[limits](#6-what-is-not-modelled), [what could follow](#7-what-could-follow),
[how to run](#8-how-to-run).

## 1. The system

| part | state | operations | hard because |
|---|---|---|---|
| WebSocket hub, `backend/handlers/handlers.go` | `clients`, `connOpened`, `onlineUsers`, `graceTimers`, two counters, eight channels | `runHub`'s select cases, `HandleWebSocket`, `GoOffline`, grace timers | goroutines, timers that cannot be recalled once fired, writes that fail while the registry is ranged over |
| Push fallback, `push.go` | subscriptions in SQLite | `sendPushNotification` from the hub | a network call on the hub's goroutine |
| Messages, posts, polls, groups, friends, invites (`handlers.go`, `groups.go`, `polls.go`) | SQLite tables | one HTTP handler each | SELECT-then-UPDATE without a transaction; commit before the frame is queued |
| Account keys (`crypto.service.ts`, `device-auth.ts`, `devices.go`, `e2ee.go`) | two halves of a key in IndexedDB, `user_keys`, `device_auth_requests`, `user_keys_backup` | create, publish, link, approve, deny, back up, recover | two writes for one key, two pages on one storage, SELECT-then-UPDATE |
| Group keys (`chat-group-key.service.ts`, `crypto.service.ts`, `e2ee.go`) | keys per epoch in the client, two kinds of shares on the server | sync, ask, share, rotate, remove a device | epochs read, compared and set across awaits; rotations on several devices |
| Sessions (`auth.go`, `database/tokens.go`) | `refresh_tokens` | `Refresh`, `Logout`, `ClaimRefreshToken` | two tabs share one token; a grace window; a logout during a refresh |
| Federation delivery (`federation/queue.go`, `transport.go`, `health.go`, `handler.go`) | `federation_servers.status`, `federation_queue`, a drain mutex | `SendOrQueue`, drains, pings, receiving handlers, block and unblock | lost answers, crashes, two servers' views of each other |
| Federation membership (`handler.go`, `route.go`, `mediator.go`, `admin_federation.go`) | `federation_servers`, `federation_network`, invites | join, introduce, gossip, recover, route | handshake across servers, use counts |
| Backup and restore (`handlers/backup.go`, `backup/`) | zip files, `.maintenance`, `.restore-pending`, the database file | create, upload, restore, restart | several files replaced one by one with a restart between |
| Disk cache (`cache/lru_cache.go`) | table of entries, files | store, read, enforce the limit | nothing calls them but the clearing of an empty table |
| Request gate (`frontend/.../concurrency.interceptor.ts`) | `limit`, `streak`, `active`, `waiting` | acquire, hand over, release, report | callbacks in any order, unsubscription at any point |
| Session in the client (`api.service.ts`, `auth.interceptor.ts`, `connectivity.*`) | tokens, socket, retry count, timers | refresh, connect, back off, go offline | overlapping timers and events |
| Open thread (`chat.ts`, `chat-*.service.ts`) | messages shown, optimistic messages, ids seen | send, WebSocket frame, reload | frames racing REST answers, thread switches |
| Badges and read marks (`app.ts`, `chat.ts`, `groups.go`, `handlers.go`) | counts, boundaries, `is_read`, `last_read_message_id` | count a frame, hydrate, mark, load | frames, refreshes and marks cross |
| Ciphers, images, stickers, GIFs, update check, logs, pages | little | library calls, I/O, forms | not concurrent; unit tests reach them |

How they interact: an HTTP handler writes SQLite, then sends a value to a hub
channel (`h.broadcast <- frame`), then may call `SendOrQueue`. The hub writes
frames to sockets and falls back to push. `HandleWebSocket` goroutines and
timers reach the hub through its channels only. Drains and pings share the
federation tables with the handlers. In the client every REST call passes
`timeoutInterceptor` and the gate; frames arrive through `ApiService`.

What makes each part correct, in a line: the hub - no user is shown offline
while connected or forgotten online, no counter drifts, no person has more
sockets than the cap; the gate - no slot is lost, no waiter stranded, never too
many in flight; delivery - what is owed is in the queue exactly once, leaves it
only for a reason, and arrives; sessions - a token is exchanged once, except
within the window; the connection - a page that wants one has something on its
way to it, with one socket; membership - two peers hold one token, an invite
admits no more than it counts; keys - an account has one identity key, somebody
holds it, a group's epoch is only used by who has its key; thread - each message
shows once and a reload loses none; badges - what they show is what the server
counts, and nothing is read that was not shown.

## 2. The modules

| module | models | variables | notes |
|---|---|---|---|
| `Presence` | what the hub promises about the online indicator | `present`, `online` | abstract |
| `Hub` | registry, cap, counters, presence, grace timers | the fields of `Handler` with the code's names, `handler` (the goroutine of each socket), `fuse` (the runtime's timers) | implements `Presence` |
| `RequestGate` | the gate | the interceptor's four module variables, `request` | |
| `FederationDelivery` | messages between households | `status`, `queue`, `attempts` (rows), `batch`, `call`, `answer`, `stray` (goroutines and requests), `inbox` (the other side's rows) | composes the sender, the network and the receiver |
| `FederationJoin` | how households become peers | `row` (`federation_servers`, by its token), `users`, `uses`, `call`, `imports` | composes both servers, the network and crashes |
| `ChatThread` | the open direct chat of one tab | the component's fields with the code's names (`selected` is `selectedUser`, `seen` is `seenMessageIds`), `array`, `load`, `opening` (what handlers hold across an await), `rows`, `frames`, `socket` (server and network) | composes the client, the hub's frames and the server's table |
| `Unread` | badges, dividers, read marks | `sent`, `read` (server), `frames`, `loads`, `marks`, `fetches` (network), `open`, `hidden`, `known`, `timer`, `counts`, `boundary` (page) | composes `App`, the chat page and the handlers |
| `Reconnect` | the WebSocket of one tab | `tab`, one record of `ApiService`'s fields | methods are operators on the record |
| `Session` | sign-in of tabs on one storage | `user`, `access`, `store`, `call`, `stray` (requests given up), `ending`, `rows` (`refresh_tokens`) | composes tabs, storage and server |
| `AccountKeys` | the identity key of an account | `jwk`, `spki` (IndexedDB), `accountKey`, `backup`, `req` (server), `page` | composes pages, devices and server |
| `GroupKeys` | the keys of a group chat | `raw`, `epoch` (client), `userShare`, `deviceShare`, `registered` (server), `op`, `rotation`, `asks`, `ready` | composes devices, frames and server |
| `MC...` | the instance of each for TLC | | |
| `...Proofs` | proofs about `Hub`, `FederationDelivery`, `FederationJoin`, `AccountKeys`, `GroupKeys`, `Unread`; `ClientHttpProofs` about `RequestGate` and `Session`, the two halves of the client's HTTP, `ClientTabProofs` about `Reconnect` and `ChatThread`, the two parts of a tab that live with its socket, which is why their specifications include `GateSpec` and `ReconnectSpec` | | |

Names for a changed form of a definition (`CountsEveryDisconnect`, `NoMutex`,
`OnlyFresh`...) that nothing uses are the mutants of section 3.

### Hub

One action per case of `runHub`'s select (`Register`, `Unregister`,
`GraceExpired`, `ForceOffline`; the four broadcast cases are `WriteFrame`),
because one goroutine handles one receive at a time. A case that writes to
sockets chooses the set of sockets whose write fails and closes them, as
`closeConn` does inside the loop. `register` and `unregister` are unbuffered
channels, so the send and the receive are one step; `graceExpired` and
`forceOffline` are buffered and are sequences with the code's
give-up-when-full send. Around the hub, `HangUp` and `ReadFails` end a socket's
read loop, `GoOffline` is the HTTP handler, `TimerFires` the function of
`time.AfterFunc`, `Tick` the clock. `graceTimers` is what the hub remembers and
`fuse` what the runtime runs: they part when an entry is overwritten without
`Stop`, which is where most of the interesting behaviour is. `time.Now()` in
`connOpened` is the rank of the registration. `shown`, `dropped` and `away` are
ghosts: no guard reads them.

### RequestGate

JavaScript runs one task at a time, so an action is a callback. A granted
request starts in a later microtask (`Dispatch`), and may be unsubscribed before
(`Cancel`). `ActiveAfterRelease` keeps the order of `releaseSlot`: `handOver`
shifts the queue, then the queue is tested. `Dispatch` counts a delivery since
`tap` sees `HttpEventType.Sent` first. `answered` is a ghost.

### FederationDelivery

A message is handed to `SendOrQueue` once. A request is made (`Send`,
`DrainSend`), handled on the other side (`Serve`), and its answer read
(`Return`), in separate steps; the sender may give up in between (`GiveUp`, the
5 s and 30 s timeouts), and then the request may still be handled
(`ServeStray`). `DrainStart` is `processPending` under `drainMu` up to the batch
it has read; the goroutine of a recovered ping is the second `Worker`.
`PingAnswered`/`PingFails` are `pingOne` up to its SELECT and `PingWrites` is the
UPDATE, since nothing ties them together. `Crash` loses goroutines and
connections and keeps rows. Only one ping of a pair runs at a time, and rows of
one second keep their insertion order.

### ChatThread

A task runs to its next await, so each handler is cut there: `FrameArrives` and
`FrameOpened` are the frame handler around its decryption, `SelectUser`,
`LookUp` and `Merge` are `selectUser`, `Reload`, `ReloadAnswered` and one
`RowOpened` per new row are `reloadOpenThread`, `StartSend`, `Prepared` and
`PostAnswered` or `PostFails` are `sendMessage`. JavaScript evaluates
`this.messages` before the await in `this.messages.push(await ...)` and in
`mergeMessages(this.messages, await ...)`; other handlers replace the array in
the meantime. So `array` holds the arrays somebody still refers to, `current` is
the one on the screen, and `since` tells which arrays share the object of a
pending bubble, which is renamed in place. An array is a bag of message ids: the
order of the bubbles and their contents are left out. A conversation may hold
messages of every scheme, so each await may take long. The request for the rows
is three steps (asked, read by the server, answered), and any of them may fail.
`Connect` includes the effect on `wsConnected`; between it and `HubRegisters`
the tab believes itself connected while the hub sends it nothing. `crossed`,
`raced` and `unheard` are ghosts that name the circumstances under which the
code does not keep a promise.

### Reconnect

`ApiService` is one object on one thread, so its fields are one record and each
method - `ScheduleReconnect`, `ConnectWebSocket`, `RefreshAccessToken`,
`RetryConnection`, `OnOpen`, `OnClose`, `DisconnectWebSocket`, `Logout` - an
operator from record to record that calls the others as the code does; an action
is one browser callback. A socket is free, connecting, stalled (its handshake's
packets vanished), open, or closing: `close()` leaves its handlers attached, so
its close event is still to come and `OnClose` acts on whatever socket is
current then. The watchdog detaches the handlers (`DropSocket`). Times are left
out: a timer that is set may fire. `gaveUp` marks an attempt that ended in a
failed refresh, `staleClose` a close event of a socket that is not the current
one; both are ghosts.

### Session

Tabs share `store`. `StartRefresh` reads the stored token; `Claim`
(`ClaimRefreshToken`, with the 60 s window) and `Save` (`SaveRefreshToken`) are
`Refresh`'s two statements; `Answered`, `Refused` and `TimesOut` are the
client's ends of the call, `TimesOut` with `timeoutInterceptor`'s one retry. A
request that is given up, by the timeout or by a reload, may still reach the
server (`Abandons`, `stray`): `StrayServed` is `Refresh` for it, before the
retry's claim, after it, or when the session has long gone on. Only one whose
token was fresh is kept, since the claim of an exchanged token changes nothing
and nobody reads the answer. `GraceOver` ends a row's window.
`LogsOut` empties the storage and queues `POST /logout`, which the gate may send
after the access token is gone (`LogoutServed`). `excused` is set by a logout
and by an exchange whose answer no tab stored.

### Unread

The badge follows from three things that cross: frames (`Receive`), `GET
/unread` (`GetUnread`, `UnreadAnswered`: what the server read and when it
arrives), and the marks the chat page sends (`MarkServed`). `Open`, `Reloading`
and `LoadAnswered` are the page's selections and reloads, `Hide`, `Show`,
`Focus`, `Reconnected` what triggers refreshes, `BoundaryTimer` the 30 s timer.
`IsCorrectChat` is `startsWith` on the URL, with ids that are prefixes of each
other. `drifted` and `cut` name the ways a badge or a divider can be wrong.

### AccountKeys

A page runs one operation at a time and is cut at each await: `Look`,
`AskServed`/`AskFails`, `CreatePrivate`, `CreatePublic` (`ensureIdentityKey`,
two IndexedDB writes), `Upload` (`PutKey`), `Use`, `ReadPublic`, `SyncServed`
(`syncPublicKey`). `Link`, `ApproveChecks`, `ApproveWrites`, `Deny` and
`PollAnswered` are the link requests, the approval's SELECT and UPDATE apart.
`ImportPrivate` and `ImportPublic` write another key over the device's.
`Close` kills a page between any two steps, `Evict` empties a device's storage.

### GroupKeys

`Open`, `EpochAnswered`, `Compare`, `Commit`, `Last` are `syncEpoch` and the
request that follows it, cut at its awaits: the comparison and the write of the
epoch are apart. `AskArrives`, `Upload`, `ReadyArrives` are the request and its
answer by another member. `Remove` sends every device of the account, the removed
one included, the frame that starts its rotation: `RotationReads`,
`RotationWrites`, `RotationMoves`, `RotationShares`. `OpenedByDevice` and `OpenedByUser` say which shares open at
all. `overtaken` marks a device whose epoch rose between the comparison and the
write, `overlapped` one that began two rotations from one epoch, at once or
after its epoch fell back.

### FederationJoin

`Connect`, `Check`, `Count`, `Register`, `Store` are the statements of
`AdminConnectFederation` and `HandleJoinInvite` in their order; `Share` and
`Import` the two fetches of users; `LoseCall`, `LoseImport` and `Crash` may come
at any of them, after which the handler on the other side still runs to its end.
`Delete` is `AdminDeleteFederationServer` on one side. A token stands for its
row. `uneven` names pairs that joined each other at once, joined while the
joining side held a row, or lost a row during a join.

## 3. The runs

| run | question | bounds |
|---|---|---|
| `HubOneUser` | can any order of registers, evictions, failed writes, forced offlines and expiries break the registry or the indicator of one user, is a user without a socket turned offline in the end, and does the hub implement `Presence`? | 3 sockets against a cap of 2, 2 timers alive, periods of 1 tick, room for 2 expiries, 1 forced offline |
| `RequestGate` | is a slot ever lost, and is every waiter served? | 5 requests, ceiling 2 |
| `FederationSafe` | do overlapping drains, lost requests, failing statements, pings, blocks and crashes keep the queue exact? | 2 messages, 2 drains, 2 losses, 1 fault, 1 crash, 1 block |
| `FederationDrains` | does a queued message leave the queue, across a crash? | 2 messages, one of which can never be stored, 2 losses, 1 crash, batch of 2 |
| `FederationJoin` | do peers agree on their token, is an invite used as often as it says, are the users known on both sides? | 3 servers, 2 invites of one use, 2 calls at once, 2 tokens, 1 lost message or crash, 1 disconnected peer |
| `ChatThread` | does a thread at rest show every message, does one ever show a message twice, or keep a bubble of a send that is over? | 2 threads, 2 messages, 2 requests in flight, and any 3 of: 3 openings, a reload, a send, a drop, a message from another tab |
| `Unread` | do badges and dividers come to rest right, and is anything read that was not shown? | direct chats 1 and 12, group 1, 2 messages, 3 of navigation, hiding, losses, failures |
| `Reconnect` | can a page that wants a connection be left without one or with two, and does it get one? | 5 of what user, network and server do unasked; 8 socket names, more than can be in use |
| `Session` | does a tab sign another out, does the stored token die, does a refresh hang? | 2 tabs, 6 tokens, 3 of logins, logouts, reloads and timeouts whose request is still on its way |
| `AccountKeys` | is there one identity key, is it held, is a fork signalled, does a denial hold? | 2 devices, one with 2 pages, 2 keys, 2 of links, backups, recoveries, closed pages, evictions |
| `GroupKeys` | does a device write only under a key it has, can it read what it wrote, does its epoch fall? | 2 members, one with 2 devices; epochs to 2, 4 keys, 1 message, 1 opening, 2 of removals, registrations, losses |
| `GroupKeysEpochZero` | (a violation) is the user-level share the key of epoch 0, as the code says? | the same |

Why the bounds are enough. The hub's hazards need one more socket than the cap,
two timers of one user, and an expiry in the channel during a reconnect; the
cap, the periods and the channel sizes only enter comparisons, and the proofs
cover all values. The gate's faults need a queue whose last waiter is served
while others hold slots. In delivery two messages are needed for order and
batches, one loss and one retry for duplicates, a crash at every step for
recovery; in the join two calls for crossing, one fault for a one-sided row, a
third server for a pair that a crash must leave alone. In the thread two messages
are needed for a frame between two rows of one reload, two requests for
overlapping answers. In `Unread` a prefix of an id and a group are needed beside
a plain chat, two messages for a divider between them. In `Reconnect` five events
allow a hide, a show, a lost handshake, a token that expires and a refresh that
fails in one behaviour. In `Session` two tabs are the race, two events sign both in and the
third is a logout, a reload or a request that is served late; six tokens are what
can be remembered at once (stored, presented and new for each tab, in the request
given up), so that a name is free whenever one is made. In `AccountKeys` two pages
of one device and one of another are the two races; two key pairs are a fork. In `GroupKeys` two rotations of one
device need two removals, so two events and epochs to 2. The mutants show that
each property's case is reached: every property of a passing run has one, a
definition changed as a slip in the code would (`KeepsSlot` forgets the
decrement, `OnlyFresh` drops the grace window, `NoWatchdog` the watchdog), and
the run then fails.

`TwoSymmetry` exchanges the two messages of `FederationSafe`, which have one
sender and one receiver; `ChatSymmetry` the friends and the requests; `SamePhone` the two pages
of one device; `MCSymmetry` two calls. Liveness is checked without symmetry.

`CHECK_DEADLOCK FALSE` is set for `RequestGate`, `ChatThread`, `Reconnect`,
`Session`, `Unread`, `AccountKeys`, both `GroupKeys` runs and `FederationJoin`:
what users and the network do unasked is bounded, and after it the instance
rests, as the program would.

Fairness. `Hub`: Go's select picks any ready case, so each case is weakly fair;
closed connections fail their reader (`ReadFails`); timers fire. Nobody is
obliged to connect, hang up or go offline. `RequestGate`: microtasks run and
`timeoutInterceptor` ends a request after 12 s, so `Answer` or `Lose` happens.
`FederationDelivery`: tickers tick, an answered request is read, a running server
answers, a crashed one is restarted, a recovered peer is noticed. `Reconnect`:
the browser delivers the handshake and close events it owes and runs the timers
that are set, and a refresh is answered or fails. `Session`: a refresh under way
goes on, since `timeoutInterceptor` ends it. Nothing that fails has to fail, and
losses, faults, crashes and unasked events are finite.

Properties stated but in no run, because another one implies or outweighs them;
each holds when its name is added to the configuration: `Hub`'s `TypeOK`,
`CapRespected`, `ConnectedIsOnline`, `ShownIsOnline` and `RequestGate`'s
`GateTypeOK`, `QueueIsWaiters`, `NoWaiterStranded`, `FederationJoin`'s `TypeOK` and
`FederationDelivery`'s `BatchIsQueued`, `ChatThread`'s `ShownIsClaimed`,
`OwnThread` and the action property `KeptUnlessRaced` (all proved), and
`Reconnect`'s `ConnectedIsTrue`.

## 4. What is proved

All theorems hold for every value of the constants; the assumptions are the
modules' named ASSUMEs (finite sets, natural bounds, a cap and a limit of at
least one, an owner for every socket, page, device and invite), which TLC
evaluates. Each has the same argument: an inductive invariant, one lemma for
each action that keeps it, and a temporal step.

`HubProofs`:
- `RegistrySafe`: `TypeOK`, `ConnCount` and `CapRespected`. The invariant adds
  that every registered socket has a goroutine that is reading or leaving
  (`Attended`): without it `Unregister` could not be told from a second
  registration. `RegistryCounts` is the arithmetic of the counter.
- `PresenceSafe`: `ConnectedIsOnline`, `ShownIsOnline`, `NeverStuckOnline`; the
  witness of an online user without a socket is the goroutine of the socket just
  lost, then the timer, then the channel entry.
- `OldestEvicted`, the action property, and `HubImplementsPresence`: every hub
  step is a step of `Presence` or leaves `present` and `online` alone.

`ClientHttpProofs`: of `RequestGate`, `GateSafe`; the queue lists exactly the waiting requests,
each once, and `active` never exceeds the holders, hence a waiter implies a
holder: a queue forms only while `active >= limit >= 1`.

`FederationDeliveryProofs`: `DeliveryTypes`, `QueueIsWhatIsOwed`,
`BatchStaysQueued`, `CopiesNeedLostAnswers`, `LossesAreRefusals`. The invariant
(`DeliveryInv`): every row is of a message its household owes, in no row twice,
and every message owed has its row; one drain of a household at a time has a
batch, whose rows are still there and may be tried; a request that is waited for
is `SendOrQueue`'s first attempt or the drain's for the head of its batch. So the
row a drain deletes is the one its answer is about. The copies on the other side
stay within the lost answers, and one more once the answer to one has been
read or is about to be. `Without` and the drain's order are written with positions
rather than filters, which the prover could not expand.

`FederationJoinProofs`: `PeersAgree`, `InvitesBounded`, `PeersKnowUsers`,
`JoinTypes`. The invariant says of a pair that is not `uneven` that its rows
agree and, while one joins the other, that no join goes the other way, that the
joining side has no row or the right one, and that an answer under way holds the
other row's token. For the invite the rows made, with the calls that have
counted, are at most the uses, and the uses with the calls that have only checked
stay below the limit plus the number of calls (`Cardinality` of sets of calls).
For the users (`UsersInv`): while nothing is lost or deleted, a row without its
counterpart belongs to a join that has been answered, whose fetch of users is on
its way; of two peers each has the other's users, or a fetch that brings them is
still to be answered, or somebody asked too early.

`ClientTabProofs`, of `Reconnect`: `TabTypes`, `NobodyIsAbandoned`, `OneLiveSocket`. A lemma for
each method says what it keeps of a `Sound` record (a handshake has a watchdog,
an open socket sets `connected`, a user has a token) and that an attempt ends
connected, on its way, or signed out; the actions compose these lemmas as they
compose the methods. Unless a close came late, no socket lives but the current.

`ClientTabProofs`, of `ChatThread`: `ChatTypes`, `NoMessageIsMissed`,
`NothingIsShownTwice`, `NoPendingBubbleIsLeft`, `ShownIsAlwaysClaimed`,
`ThreadsKeepTheirOwn`, `ShownUntilOpenedOrRaced`. The invariants build on each
other, and each is proved once for the steps that leave the bubbles alone
(`Quiet`) and once for those that do not (`Loud`); a lemma per handler says what
that handler does to the bubbles.
- `TypesInv` is the types, and that the id of a pending bubble is no row's.
- `LoneInv`: until two writers race there is one load at most, and what it holds
  across its await is the array on the screen, with no bubble pending.
- `ClaimInv`: the rows an array holds, and the row a reload pushes next, are in
  `seenMessageIds`, unless a thread was just opened over pending handlers.
- `OwnInv`: until a thread is opened over pending handlers, every array, frame
  being decrypted, load and cache entry is of one chat.
- `OnceInv`: one bubble per id on the screen and in the caches; the rows a reload
  has yet to push, and the row of a send not yet answered, have none.
- `PendInv`: a bubble without a row is the send's, in the cache as on the screen.
- `AllInv`: every message of the other side is on the screen, in a frame on its
  way or being decrypted, among the rows a request has read or will read, due to
  the reload of the next connection or to the banner of the failed load, or in
  `unheard`; and one that is in `seenMessageIds`, so that its frame is refused,
  is on the screen or left to a load that will show it.

TLC checked the six invariants after the types on the run's instance (1.7 million
states) before they were proved. They showed that two properties could say more:
"a settled thread shows nothing twice" became `ShownOnce`, at every moment, and
`NoPendingLeft` now bounds the pending bubbles during a send too. They also gave
`KeptUnlessRaced`, what is left of `NothingVanishes` (section 5).

`ClientHttpProofs`, of `Session`: `SessionTypes`, `NoTabSignsAnotherOut`, `TheStoredTokenLives`.
The invariant: the token of an answer under way is known to nobody else, and in
no request that was given up, so that none served late can exchange it; a
presented token lives; a stored token that has been exchanged has that exchange
under way, so its window is open; nobody is signed in on an empty storage.

`AccountKeysProofs`: `AccountTypes`, `OneKeyEver`, `TheKeyIsHeld`,
`ForksAreSignalled`, `DenialsHold`. The invariant: without a race the page that
creates makes the first key (`FirstKey`); some device that no page is about to
overwrite holds the account's key, and before there is one, so does every device
that could publish its own (`Held`); what each page knows is the account's key or
has been signalled (`Fine`).

`GroupKeysProofs`: `GroupKeyTypes`, `EpochsHaveKeys`, `OwnTextsReadable`,
`EpochsRise`. The invariant: a rotation that has written finds its key when it
moves the epoch, a sync that has compared finds its own, and the slot a rotation
will write to is empty and no other rotation's unless two began from one epoch.

`UnreadProofs`: `UnreadTypes`, `ReadsAreShown`, `BadgesAreTrue`,
`DividersAreNotLate`. For what is read: a mark on its way names only messages the
page has shown, and what was written bounds what is known, framed and read. For
the badges (`BadgeInv`) the count is compared with what is due: unread, in no
frame the page has yet to receive and, in a direct thread, in no mark under way.
`BadgeOf` says that the count is their number while no load (of a direct thread)
or mark (of a group) is on its way, and never more in a direct thread; that a
direct frame about a message already shown is read or being marked; that the
boundary is at or before the first that is due, and before every frame to come,
which rests on frames arriving in order. An answer of `GET /unread` is true of
the threads that have not changed since it was read. That the first unread
message exists (`MinIsLeast`) is the well-foundedness of the numbers. `BadgeInv`
was checked by TLC with one thread, two messages and five events as well. It
showed that a message of a group brought by a hidden reload before its frame is
neither counted nor marked; `drifted` names that case, and no longer the loads
of a group, which the proof does not need.

Only model-checked: liveness (`GoesOffline`, `WaiterServed`, `QueueDrains`,
`OnlineAgain`, `RefreshEnds`) and anything with ENABLED, which is beyond the
prover. Every safety property of the passing runs is a theorem.

## 5. Where code and documents disagree

`GroupKeysEpochZero` is a run expected to end in a violation: after a rotation the
user-level share holds the key of the current epoch, and a member without the
first key takes it for the key of epoch 0
(`chat-group-key.service.ts:100`; `crypto.service.ts:345` says such a share
exists for epoch 0 only).

These properties state what a document, comment or test says, and are refuted
when added to the configuration named (a PROPERTY without its SYMMETRY line):

| property | add to | what the code does |
|---|---|---|
| `Hub!GraceHonoured` (PROPERTY) | `HubOneUser.cfg` | an expiry in the channel, or a timer no longer in `graceTimers`, survives a reconnect and cuts a later grace period short (`handlers.go:345`; `docs/ws-requirements.md:217`) |
| `RequestGate!GrowsOnAnswers` (PROPERTY) | `RequestGate.cfg` | the limit rises on requests that were only sent (`concurrency.interceptor.ts:174`; its lines 17-19) |
| `FederationDelivery!SettledIsDelivered` (INVARIANT) | `FederationSafe.cfg` | a 403 ends a message (`queue.go:74`; `CHANGELOG.md:237`, `queue.go:56-58`) |
| `FederationDelivery!BlockSticks` (PROPERTY) | `FederationSafe.cfg` | a ping overwrites a block (`health.go:112`; `health_test.go:88-106`) |
| `ChatThread!EachShownOnce` (INVARIANT) | `ChatThread.cfg` | a reload settles before its awaits which rows are new, and shows a message again that a frame has brought since (`chat.ts:638`; `docs/ws-requirements.md:43`) |
| `ChatThread!NothingVanishes` (PROPERTY) | `ChatThread.cfg` | the merge works on the list of before its await and takes messages off the screen (`chat.ts:868`; `chat-thread.service.ts:62-65`) |
| `Reconnect!ReconnectNeverStops` (INVARIANT) | `Reconnect.cfg` | a refresh that fails other than with 401 schedules nothing (`api.service.ts:396-403`, `1209-1213`; `docs/ws-requirements.md` PWA1) |

The models, and reading for them, show more. The excuses in the properties
(`excused`, `gaveUp`, `staleClose`, `drifted`, `cut`, `raced`, `tabs`,
`overtaken`, `overlapped`, `uneven`, `early`) are where:

- Hub and gate: a forced offline of an offline user hides the next connection
  from everybody; a reconnect leaves an orphaned timer running; an evicted socket
  is neither active nor counted in `wsClosedTotal`. `releaseSlot` frees a slot it
  has just passed on, so that the ceiling can be exceeded; slots are passed on
  after the limit has fallen, and nobody is woken when it rises. `RequestGate` also answers the question `BACKLOG.md`
  leaves open, whether a cancelled request can lose a slot: it cannot; the count
  errs the other way.
- Delivery and join: re-arming before each select keeps rows that always fail in
  the batch; the quick attempt may time out after the peer has stored the
  message, which is then stored twice. A lost answer of a join leaves a one-sided
  row: every retry gets 409 and burns a use of the invite (`handler.go:85` before
  `:88`). Crossing joins, or a one-sided delete and a rejoin, leave two tokens
  while both rows stay active. The import after 500 ms may run before the joining
  side has its row, and is not repeated. `AdminDeleteFederationServer`'s DELETE of
  the row fails on its foreign keys without a word. Recovery cannot be reached.
- Connection: the close event of a replaced socket nulls the new one and its
  watchdog, and two sockets live; after `goOffline` it schedules a reconnect of a
  hidden page. A refresh answered after a logout stores tokens again and may open
  a socket. `POST /logout` waits in the gate and is sent without the access
  token: 401, and the tokens stay (`routes_coverage_test.go:313-317` expects
  otherwise). `auth.go:76` saves the new row with the old one's expiry. The slow
  poll of 60 s in the documents is a cap of 30 s in the code.
- Thread: the answer of a chat that is no longer open replaces the one that is and
  can reach its cache (hence `crossed` in `OwnThread`); a send whose chat is left
  before the answer keeps its pending bubble in the cache; rows stored before the
  first connection and after the load are not shown until the next load; a
  message of one's own from another tab is ignored although
  `docs/ws-requirements.md` R14 has it appear; `reloadOpenThread` does not open
  server envelopes.
- Badges: `/chat/12` starts with `/chat/1` (`app.ts:540`); a refresh overwrites
  frames that race it; a reload on return marks messages read without clearing
  the count; `selectGroup` marks before it loads, and `MarkGroupRead` takes
  MAX(id) at the server's time; a load that fails has cleared the badge; the 30 s
  timer of an earlier visit clears a later divider.
- Account keys: two pages of one device, or two devices, that both find no key
  both generate one; a mix of two pairs' halves is a fork nobody is told of; a
  page closed between the two IndexedDB writes leaves half a pair; the 409 of
  `PutKey` is swallowed at creation; a forked device can approve links and back
  up its key; `ApproveAuthRequest` checks with a SELECT and updates without
  condition (`devices.go:258-269`); a link request never expires, although the
  schema gives it 15 minutes (`database.go:489`): `GetAuthRequest` parses `expires_at` as
  `2006-01-02 15:04:05` (`:213`), the driver hands over RFC 3339
  (`push_timezone_test.go:17-30`), and the error skips the branch;
  `needsRecovery` set after the component's start opens no form.
- Group keys: device shares are wrapped with the sharer's device key and
  unwrapped with its identity key, so that none opens, and keys of later epochs
  reach nobody (`e2ee.go:174-176`, `docs/plans/per-device-e2ee.md:67`); one's own
  share replaces the one that opened; a removed device rotates too, and a revoked
  one registers again; two rotations from one epoch replace each other's key;
  `syncEpoch` can move the epoch back (`chat-group-key.service.ts:12`);
  `requestKeyOnce` stays set when nobody is on line to answer.
- Friends (read, not modelled): after `RemoveFriend` the accepted request stays
  and a new one is refused for ever (`handlers.go:2099`); opposite requests at
  once stay pending both (`docs/sessions/2026-06-27-friend-search.md:12`).

## 6. What is not modelled

In `Hub`: `Close` and the `stop` channel (tests use them, the program does not),
the `last_seen` UPDATE, the frames' contents and addressees, the process's own
crash (its state is memory only), the unsynchronised reads of `onlineUsers` by
HTTP handlers. In `RequestGate`: uploads and sign-in paths, which bypass it. In
`FederationDelivery`: deleted and pending servers, unparseable bodies, failing
DELETEs and UPDATEs of the drain, `RouteHop`s, image caching on the receiving
side; one ping of a pair runs at a time. In `FederationJoin`: gossip,
introduction, routes, the mediator and recovery, which nothing calls or reaches;
expired invites, versions, sticker packs. In `ChatThread`: group chats
(`selectGroup`, `reloadOpenGroup`, `onGroupKeyReady` share the array and the
claims), poll updates, contents and order of the bubbles, and that a load brings
the last 100 rows only. In `Unread`: that a load takes several awaits (that is
`ChatThread`), a second tab, one's own messages. In `Reconnect`: the times of the
back-off, the connectivity service's display. In `Session`: the days after which a refresh
token expires, WebAuthn. In `AccountKeys` and `GroupKeys`: the ciphers, which
either open or not, the envelopes of direct messages, recovery phrases,
membership changes of the group; link requests do not expire, since the branch
that would do it is never taken (section 5).

Parts without a module are in PROJECT.json with the reason: forms, pages, images, ciphers, the
update check, the disk cache nothing calls, and handlers that are one check and
one write (registration, friend requests, polls), whose races are listed as
hazards. Backup and restore is decided by what the file system leaves after a
kill, which is not in this code.

## 7. What could follow

- `HubDelivery`: requests that commit, the hub's channels, sockets and push, with
  a frame or a push for every reader. The channels' order and the push's time on
  the hub goroutine are hazards no property covers.
- `Invites`, `Polls`: the check-then-write handlers, as one module of two
  requests on one row.
- Group chats in `ChatThread`, and its composition with `Unread`.
- An abstract specification of delivery (a message is unsent, owed, or settled)
  for `FederationDelivery`.

## 8. How to run

    tlc -workers 2 -config HubOneUser.cfg MCHub.tla
    tlapm HubProofs.tla

Every row of "runs" in PROJECT.json names its module and configuration. The
largest instances (`FederationSafe`, `FederationJoin`) take under three minutes
on two workers, `ClientTabProofs` about six, each other proof module under two.
