# Formal models of Wisply

Wisply is a messenger: five Go services behind nginx (`auth-service`, `chat-service`,
`media-service`, two `ws-gateway` instances, `notification-worker`), PostgreSQL, Redis,
NATS JetStream, MinIO, and a browser client in plain JavaScript. This directory holds TLA+
models of the parts that carry the program's own logic, the TLC configurations that check
them on small instances, and theorems checked by TLAPS.

Run a model with `tlc -config MCOutbox_safety.cfg MCOutbox.tla` and a proof with
`tlapm OutboxProofs.tla`.

## 1. The system

### Parts, their state and operations

| part | state it keeps | operations |
|---|---|---|
| chat-service, messages (`service/message.go`) | `messages`, `message_events` (edits, deletions), `message_hidden_for_user`, the read marker in `chat_members` | SendMessage, EditMessage, DeleteMessageForAll, DeleteMessageForMe, MarkRead, GetHistory |
| chat-service, groups (`service/group.go`) | `chats`, `chat_members` (role, wrapped chat key) | CreateGroupChat, AddMember, RemoveMember, SetMemberRole, LeaveChat, DeleteGroupChat |
| chat-service, private chats and moderation (`service/chat.go`, `moderation.go`) | `chats`, `chat_members`, `blocked_users`, `message_reports` | CreateChat, UpdateChatKey, BlockUser, UnblockUser, ReportMessage |
| chat-service, outbox (`repository/tx.go`, `outbox.go`, `events/relay.go`) | `outbox` table, one relay goroutine with a wake channel | WithTx, EnqueueOutbox, RelayOutbox, Wake, Run |
| chat-service, presence and rate limit (`cache/presence.go`, `ratelimit.go`) | Redis keys with a TTL | SetOnline, SetOffline, SetTyping, Allow |
| ws-gateway (`hub`, `ws`, `events`) | the registry of sockets of this instance, one ephemeral consumer per subject | serve a socket, fan events out, presence and typing, token expiry |
| notification-worker (`notify`, `events`) | a durable consumer of `msg.created` | decide who is offline, publish `notify.push`, send web push |
| auth-service, registration and e-mail codes | `users`, codes, reset links and limiters in Redis | Register, VerifyEmail, LoginWithGitHub, RequestPasswordReset |
| auth-service, sessions | claimed and revoked refresh tokens, time of the last revocation, in Redis | Login, RefreshToken, Logout, ChangePassword, ResetPassword, DeleteAccount |
| media-service | `media` rows (pending, confirmed), MinIO objects | RequestUpload, ConfirmUpload, GetDownloadURL |
| browser client (`frontend/js`) | socket with reconnect, pending queue, rendered history, chat keys | send, receive, merge history after a reconnect, re-key stale members |

### How the parts interact

A request arrives over gRPC (or its HTTP gateway) or over a socket of a ws-gateway, which
calls chat-service over gRPC. chat-service changes PostgreSQL and, in the same transaction,
inserts an event into `outbox`; its relay publishes committed rows to the JetStream stream
`CHAT_EVENTS`. Every ws-gateway instance reads that stream with its own consumers and asks
chat-service who the members are and what the message says *at the time of fan-out*; the
notification-worker reads the same stream with a durable consumer. Presence and typing go
over core NATS without a stream. Clients join the pieces: history over HTTP plus live
events over the socket.

### What is hard

* Handlers are sequences of separate SQL statements (check, check, act); only the last
  write and the outbox row share a transaction. Two handlers interleave between any two
  statements (`service/group.go`, `service/chat.go`, `service/message.go`).
* Delivery crosses three queues with different guarantees: the outbox (at least once),
  JetStream ephemeral consumers with `AckNone` (at most once per gateway session), a durable
  consumer (at least once), core NATS (at most once).
* Processes are killed and restarted between any two steps; PostgreSQL keeps the locks of a
  dead session for a while; the broker's acknowledgement can be lost.
* Redis keys expire by TTL between a check and its use; counters are `INCR` then `EXPIRE`.
* Two gateway instances each see only their own sockets, but presence is per user.
* The keys that end sessions have a resolution of a second and a TTL of their own; they must
  outlive what they end and spare what is newer.
* The tabs of a browser share its refresh cookie and its private key, and each keeps an access
  token and chat keys in memory. What the server stores for one user is written by tabs of another.

What makes each component correct is the list of properties below; what is hard to test is
listed line by line under `hazards` in `PROJECT.json`.

### What makes each part correct

| part | correct when | where |
|---|---|---|
| outbox and relay | an event is announced only if its change is committed, each committed change is announced in the end, in the order commits could be observed, and a resend adds no copy inside the dedup window | `Outbox` |
| groups | a live group keeps its creator as admin, only admins (or the creator) change members and roles, the limit holds up to overlapping additions, a deleted group leaves nothing | `GroupChat` |
| private chats, blocks | two users have one chat up to overlapping requests, a block in force before a request is respected | `PrivateChat` |
| messages | readers of the database and of the events agree up to overlapping edits, a deletion is final for what follows, times follow conversations, a stored read marker is the one announced last up to overlapping requests of a user who has left | `Messages` |
| fan-out and client history | a client that stays connected, or reconnects, ends with the last page of the chat as the database has it, what it showed stays, and no message is listed more often than its reconnects explain | `Delivery` |
| presence, pushes | when nothing changes any more, a watcher sees whether somebody looks at a tab, and a message that nobody could see is pushed | `Presence` |
| sessions | a refresh token is exchanged once, a revocation ends what was issued before it and nothing newer, a changed password leaves no session of the old one, tabs that race raise no alarm | `Sessions` |
| registration, limiters | a code works once and for its own registration, a verified account keeps the address, GitHub gets a verified account, a limiter starts again | `Registration` |
| chat keys | a chat has one key, copies stay readable, stale ones are renewed | `ChatKeys` |

## 2. Modules

Every component has a module with its state and one action per statement (or per step that
another actor can see), a `...Proofs` module with theorems (`ContactsProofs` for both `PrivateChat` and `Presence`), and an `MC...` module with the
symmetry sets for TLC. A mutant, an operator whose comment begins with "Mutant:", is a plausible bug of
the definition that follows it; no specification uses it. It stands beside the code it
perturbs to show which property would notice.

The components of chat-service share one abstraction of it. A **request** is a gRPC handler: a
goroutine that runs one SQL statement after another at READ COMMITTED. Each statement is an
action, because anything can happen between two statements that are not in one transaction;
`WithTx` around one change and its outbox row is one action except in `Outbox`, which is
about the inside of it. A request may end without a trace after any of its statements
(`GiveUp`, in `Outbox` `RollbackTx`): a statement fails, a lookup in auth-service says no, a
process dies, or the caller cancels. A request that was answered is idle and may come again as
any other request, so a bounded set of requests is a bound on what runs *at the same time*, not on how
many there are.

### `ReliableEvents` and `Outbox`

`ReliableEvents` is the promise to consumers of `CHAT_EVENTS` with no trace of how it is
kept: a change becomes committed, a committed change may be announced any number of times,
and each is announced in the end. `Outbox` implements it with `Event <- Id`,
`committed <- applied`.

| `Outbox` | code |
|---|---|
| `tx`, `BeginTx`, `WriteChange`, `EnqueueOutbox`, `CommitTx`, `RollbackTx`, `OnCommit` | `PostgresChatRepository.WithTx`, `EnqueueOutbox`, the `onCommit` hook |
| `lastId`, `applied`, `outbox`, `dead` | the sequence, the committed changes, the table, row locks of sessions that were killed |
| `relay`, `wake`, `TakeWake`, `Tick`, `LockBatch`, `Publish`, `PublishError`, `DeleteRow`, `CommitBatch`, `AbortBatch` | `Relay.Run`, `drain`, `Wake`, `RelayOutbox` |
| `stream`, `dedup`, `Store`, `Forget` | JetStream as `publishEvent` uses it: `Nats-Msg-Id` and the dedup window (external) |
| `Kill`, `Shutdown`, `Start`, `ReleaseDead` | SIGKILL, SIGTERM with `GracefulStop` in `cmd/server/main.go`, the container's restart, the database noticing a closed connection (the last two external) |

`before` and `forgotten` are history variables: what was committed when an id was drawn,
and which ids the broker has ever forgotten.

### `GroupChat`

One group from `CreateGroupChat` to `DeleteGroupChat`, and requests that add, remove, promote, demote, leave,
delete or change the avatar. `role` is the column `chat_members.role` with `"out"` for no row,
and `at` names a request's next statement (`IsAdmin`, `IsMember`, `MemberCount`,
`GetMember`, `ListMembers`, the write). The references to `chats` with `ON DELETE CASCADE`
are part of the writes: `DeleteChat` empties `role` and `avatar`, an INSERT into a deleted
chat is an error. `during[q]` is history: the roles the user and the target of `q` have had
since `q` began. The wrapped chat keys that
AddMember stores with a member are not modelled; no check of the service reads them.

### `PrivateChat`

CreateChat and SendMessage between two users (or one user alone), with BlockUser and
UnblockUser at any time. Membership of a private chat never changes, so a chat is the set of its
members and `chats[p]` counts the chats the users `p` have; nothing in the schema keeps it at one.
`facts[q]` is history: whether the users were unblocked, and without a chat, at some instant
of `q`. ReportMessage only inserts a row nobody reads back, and UpdateChatKey is in `ChatKeys`.

### `Messages`

One chat: its members and admins change arbitrarily (`ChangeMembers`, every sequence of steps of
`GroupChat` and more), and requests send, edit, delete, hide and mark as read. `log` is the
sequence of transactions in commit order, each the row it stores *and* the event it
announces. By `CommitOrderKept` that is the order in which clients hear of them, but for transactions that
overlap and share no row, whose events can go out either way; the properties therefore exempt requests
that overlap. What readers of
the database see is a function of it: `LatestEdit` and `Deleted` are the `latest_edit` and
`latest_delete` subqueries of `repository/postgres.go`. `clock` is `time.Now()`, read by
`Now` before the transaction; `since` is history: the length of `log` when the request began.
A transaction whose statements wait for nobody is one step, `Commit`. That of MarkRead is two, because its
UPDATE (`UpdateMarker`) locks the user's row of `chat_members` until the COMMIT: `Locked` keeps other requests
of the user and changes of the row (`ChangeMembers`) away meanwhile. Of a user who has left it finds no row
(`found`) and locks nothing, so the user can join again, and mark another message as read, before the COMMIT.
The rate limit of SendMessage always lets it pass here, and the block check is in
`PrivateChat`. `Asked` (here and in `GroupChat`) selects the operations a run enumerates; the
theorems hold for any selection.

### `Delivery`

The way of one chat's messages to one browser tab, from the stream to what the tab lists. A
change (a message sent, edited or deleted) is known by its position in `log`, which is the
order in which the outbox announces changes. What is shown of a message is the position of the
last change it reflects, 0 if it is not there; so frames, pages and entries of the tab's list
are all functions of positions, and "shows the database" is `shows = Latest(m)`.

| `Delivery` | code |
|---|---|
| `next`, `IsNext`, `LoseConsumer`, `LookupFails` | one ephemeral consumer per gateway instance and subject: `consumeMulti`, `newConsumer`, the early returns of `HandleMessageCreated` |
| `found`, `GetMessage`, `BroadcastMessage`, `BroadcastUpdate`, `Deliver` | `Fanout.HandleMessageCreated` (lookup, then broadcast), `HandleMessageUpdated`, `Registry.Broadcast`, `session.Deliver` |
| `conn`, `Register`, `Break`, `Notice`, `Open` | `session.run` and `expiryWatcher`; the socket events of `WsClient._open`. A connection may be dead before the tab notices |
| `asks`, `answer`, `wire`, `GetHistory`, `GetHistoryFails`, `WriteHistory` | `session.handle` of `get_history`, `session.write`; frames of fan-out and answers interleave on the wire |
| `queued`, `Ask`, `SelectChat`, `Refresh`, `refreshing` | `WsClient.send` with `pendingMessages`, `handleSelectChat`, `refreshAfterReconnect` (which awaits the list of chats) |
| `tasks`, `Receive`, `Decrypted`, `EditDecrypted`, `pending` | the async handlers of `connectWs`: each waits for a decryption, so they end in any order |
| `copies`, `Pushed`, `Merged`, `Update` | `chat.messages`: `appendMessage`, `onHistory`, `onMessageUpdated` (the first entry found) |
| `Recent`, `Snapshot` | `ListMessages` with `LIMIT`, the page of `get_history` |

`tasks` is a bag, since two equal frames may wait. `asked` and `raced` are history: whether
the history was asked for on this connection and no event of it was lost since (or the answer
failed), and which messages were updated while an older body was on its way, or listed twice.

### `Sessions`

One account, and the tabs of its browsers. Refresh tokens are numbered in the order they were
issued, an access token is the second it was issued in. `now` counts seconds, because `iat`, `exp`
and the revocation keys do; any number of steps fall into one second.

| `Sessions` | code |
|---|---|
| `spent`, `revoked`, `changed` | `auth:refresh-blacklist:`, `auth:refresh-revoked-all-at:`, `auth:password-changed-at:`, each with the second it holds and the one it expires in |
| `Refresh`, `CheckRevoked`, `Claim`, `Punish`, `Issue`, `Answer`, `Retry` | `refreshAccessToken` of the client with its one retry, and `RefreshToken` a command at a time |
| `Login`, `GetByEmail`, `Logout`, `Revoke`, `LoggedOut` | `Login`, `Logout`, `handleLogout` |
| `Protected`, `Stale`, `GetByID`, `MarkAllRevoked`, `MarkChanged`, `Update`, `ResetPassword` | `ChangePassword`, `DeleteAccount`, `ResetPassword` with `endSessions`; the interceptor that asks `IsAccessTokenStale` |
| `Lose` | a command fails, a process dies, or the answer is lost |
| `cookie`, `access` | the refresh cookie of a browser, the access token of a tab |

`password` counts how often the password was set. A token's `pw` and `apart` are history (which
password its session was opened with, and whether any step of the session met a change), as is `seen`.

### `Registration`

One e-mail address. Rows come and go, because a registration that was not verified gives way
to a later one; an account is the number of its row. A code is the account it was made for, so that a code
that is used for another account shows. `sends` is the limiter of `Register`, INCR and EXPIRE as two
commands; the three other limiters have the same code.

| `Registration` | code |
|---|---|
| `Incr`, `SetExpire`, `KeyExpires` | `EmailSendRateLimiter.Allow`, and the TTLs of Redis (external) |
| `Release`, `Delete`, `Create`, `StoreCode`, `Send`, `Rollback` | `Register`, `releasePendingRegistration`, `rollbackRegistration` |
| `VerifyEmail`, `Get`, `Del`, `GetByEmail`, `Mark` | `VerifyEmail`; `EmailVerificationStore.Verify` is a GET, a comparison and a DEL |
| `LoginWithGitHub` | releases a pending registration, then takes the account it finds or makes one |
| `RequestPasswordReset`, `StoreLink`, `ResetPassword`, `Consume` | links, used once by GETDEL; a reset verifies the account |
| `DeleteAccount` | `Anonymize`, which frees the address; of whoever has tokens, be it of a pending account that a login with GitHub was given |
| `GiveUp` | a failure, or the death of the process, after a command |

### `ChatKeys`

The key of one chat. A key pair is how many its user has had before it, a chat key is the order of
creation; encryption is a record that names both. A handler of a tab is a `task` that awaits
one request after another.

| `ChatKeys` | code |
|---|---|
| `pair`, `wrapped` | `users.public_key`, `users.wrapped_private_key` |
| `copy` | `chat_members.encrypted_chat_key` and `wrapped_for_public_key` |
| `session`, `device` | what the tabs of a user share: the cookie, the private key in IndexedDB |
| `private`, `cache` | `cachedPrivateKey` of `crypto.js` and `chatKeyCache` of `main.js`, one per tab |
| `CreateChat`, `Insert`, `Created` | `handleCreateChat`, and `CreateChat` of chat-service, which answers with the chat there is |
| `GetChatKey`, `SendMessage` | `getChatKey`, `handleSend` |
| `OpenChat`, `ListChatKeys`, `GetPublicKey`, `UpdateChatKey` | `handleSelectChat` and `reKeyChatForStalePeers` |
| `ChangePassword`, `UpdateWrapped`, `ResetPassword` | `handleChangePassword`, `handleResetPassword`, the two updates of auth-service |
| `Login`, `Logout`, `Reload` | `handleAuthSubmit`, `handleLogout`, `bootstrap` with `enterAppOrPromptUnlock` |

### `Presence`

One user with tabs on two gateways, one other user who watches, and one message for the
notification-worker. Time is counted in periods of `PRESENCE_REFRESH_INTERVAL_MS`; frames, calls
and announcements take less than a period, so `Tick` waits until they are done (`Settled`), but not for
a connection to come back or a broken one to be noticed.

| `Presence` | code |
|---|---|
| `ttl`, `SetOnline`, `SetOffline`, `Expired` | the key `chat:online:` and its TTL |
| `focus`, `Look`, `Heartbeat` | `updateOwnActivity`, `startPresenceRefresh` |
| `conn`, `wire`, `Sent`, `Break`, `Notice`, `Connect`, `CloseTab` | `WsClient` with `pendingMessages`; a connection may be broken before the tab notices |
| `Handle` | `session.handle` of `set_active` and `set_inactive` |
| `dead`, `leaving`, `Remove`, `MarkOffline` | the end of `session.run`: a gateway that loses its last session of the user marks the user offline, whatever the other gateway has |
| `air`, `Announced` | `presence.changed` over core NATS, lost or overtaken at will |
| `Ask`, `Show` | `get_presence` of `refreshAllPresence`, `onPresenceChanged` |
| `job`, `HandleMessageCreated`, `Push`, `Ack`, `Redeliver` | the worker's `consumeOne` and handler |

`calm` and `idle` are history: for how many periods nothing has changed or failed, and since when
nobody has looked.

## 3. Runs

| run | shows | instance and bounds |
|---|---|---|
| `outbox_safety` | `AnnouncedIsCommitted`, `NothingLost`, `OncePerWindow` | two handlers, two processes, two ids, two faults, one kill, batches of one |
| `outbox_live` | `CommitOrderKept` and `NoLostWakeup` until the process is killed, `OutboxDrains`, `KeepsPromise` (refinement of `ReliableEvents` with its fairness) | one process with a kill and a restart, three ids, one fault, batches of two |
| `group_safety` | `CreatorStaysAdmin`, `NothingOutlivesChat`, `LimitUpToOverlap`, `OnlyAdminsManage`, `AdminsManagedByCreator` | five users, two requests at a time, limit three |
| `private_safety` | `DuplicatesUpToOverlap`, `BlockIsRespected` | two users, three requests at a time |
| `messages_edits` | `LaterRequestLaterTime`, `ReplayAgrees`, `NoChangeAfterDeletion`, `ChangesAllowed` | two users, one message, two requests, three readings of the clock |
| `messages_marks` | `MarkersAnnounced` | one user who leaves and joins, also between the UPDATE and the COMMIT of MarkRead, two messages, two requests, four readings of the clock |
| `delivery_safety` | `CaughtUp`, `UpToDate`, `FewCopies`, `ShownStays` | two messages, two changes, two gateways, pages of one message, one broken connection, one lost consumer or failed lookup, one request for history on its way when the chat is selected |
| `sessions` | `EndedStaysEnded`, `NewTokensWork`, `OldPasswordEnds`, `NoFalseAlarm`, `SpentStaysSpent` | two tabs of one browser, three refresh tokens, four seconds, three passwords, three requests besides retries; access tokens live two seconds, refresh tokens three, the grace period is one |
| `registration` | `LimiterRecovers`, `OwnCode`, `UsedOnce`, `VerifiedStays`, `GitHubVerified` | two requests at a time, four in all, three rows, limit two, one reset link at a time |
| `chat_keys` | `OneKey`, `CopyStaysReadable`, `RekeyHeals` | two users, three tabs, two chat keys, three pairs for each user, six actions of users besides messages |
| `presence` | `SettledIsRight`, `NoMissedPush`, `SelfHeals` | two tabs, two gateways, a key that lives two periods, two mishaps |
| `chat_keys_twin` | a disagreement: `CacheIsDerived` | as `chat_keys` |

Types are proved (`TypeCorrect` of each proof module, `PresenceTypeCorrect`); the runs do not check them again.

**Bounds and why they are enough.** Races of this code need two requests; a third one changes
only counts, and `private_safety` has three because its property counts. Four users are the
smallest group in which a creator, an admin, a member and an outsider exist; there is
a fifth, because two additions that overlap at a limit of three (the least that
`CreateGroupChat` accepts) need two outsiders. In `Outbox`, ids, faults and kills are budgets: two ids are enough for two
commits in the other order than their ids, three ids with batches of two make a batch that
is full and one that is not, and two faults (`outbox_safety`) make a publish fail and its retry meet a second
failure. `Messages` bounds the readings of the clock; three are a message and two
changes of it, which is what every property about two changes needs; four are two messages and two MarkRead, one of
which finds no row while the other moves the marker. Batches of one or two rows
stand for `relayBatchSize`. In `Delivery`,
two changes are two messages, of which the second pushes the first off the page, or a message and its edit or
deletion, which is what an older and a newer body need; two gateways that are not equally far
are what a reconnect can meet, and one loss is put between any two steps. `Sessions` needs two tabs that present one
token, one that changes the password meanwhile, and seconds enough for a token issued before,
in and after that of a revocation; the lifetimes are in the order that the code's are (grace
period, access token, refresh token), and the last of them ends within the four seconds. Three rows of an address in
`Registration` are one that is released, one that takes its place and one that another request
makes after it; two mails are the least limit at which the count passes 1 before it is reached. In `ChatKeys` two users are a private chat,
the second tab of one of them is the other holder of a cached key, and with three pairs a user resets twice. Budgets (`MaxCalls`, `MaxTrouble`) bound what users do and what
fails; retries, heartbeats and polls cost nothing. What these
instances cannot show, a larger number of actors, the theorems of section 5 do.

**Where a run may stop.** `CHECK_DEADLOCK FALSE` is set for `GroupChat`, where a deleted chat
stays deleted and nothing follows, for `Messages`, where the clock stops at its
bound `MaxTime`, for `Delivery`, which rests when its changes are made and have arrived, and for `Sessions`, `Registration`
and `ChatKeys`, which rest when the budget of requests is used up (and the clock of `Sessions` stands). The other models, `Presence`
among them, have no state without a successor. The safety
runs use symmetry (users, messages, requests, processes, gateways, tabs of one browser or user are interchangeable); `outbox_live`
and `presence` do not, since symmetry is unsound for liveness.

**Fairness** is assumed in two models. In `Outbox` the relay's goroutine takes its next step
(`WF(RelayStep)`), its ticker fires (`WF(Tick)`, `time.NewTicker` in `Relay.Run`), a stopped
container is started again (`WF(Start)`, `restart: unless-stopped` of the compose file), and
the database ends sessions whose connection is gone (`WF(ReleaseDead)`). Handlers and the
wake token carry no fairness: a caller may go away, and the ticker alone must drain the
table. Failures are bounded by `MaxFaults`, so eventually a publish succeeds; without that nothing
could be promised.

In `Presence` frames are read (`WF(Handle)`), the timer fires (`WF(Tick)`, `setInterval`), a broken
connection is noticed by its gateway (`WF(Remove)`, the read deadline `pongWait` at the latest) and then `run`
goes on (`WF(MarkOffline)`), the watcher asks and is answered (`WF(Ask)`, `WF(Show)`), an announcement arrives or is dropped
(`WF(Announced)`), and the worker goes on (`WF(HandleMessageCreated)`, `WF(Push)`, `WF(Ack)`). No fairness says that a tab gets a connection or that anybody looks at one; mishaps are bounded by
`MaxTrouble`, so in the end nothing changes any more, which is when `SelfHeals` promises something.

## 4. A disagreement found, and promises that are weaker than expected

`chat_keys_twin` (a finding in `PROJECT.json`, with the lines it quotes): a tab that asks for a new chat makes a key first. If
the chat exists by then, chat-service answers with it, and the tab remembers its own key for it: until the page is loaded again
it sends what nobody can read and reads nothing. `OneKey` says that this is the only
way to a second key.

Other promises are weaker than one might expect; properties that hold say how far they go:

* Two CreateChat of the same users that overlap make a chat each (`service/chat.go:51`); `DuplicatesUpToOverlap`
  says how many at most.
* RemoveMember reads the role of its target and then deletes the row whatever the role is by
  then, so a member promoted in between is removed by an ordinary admin (`service/group.go:146`);
  `AdminsManagedByCreator` is what remains true.
* DeleteGroupChat lists the members before it deletes the chat, so the event does not name a member added in
  between, and that member's client shows the chat until it is loaded again.
* Additions that overlap pass `MemberCount` together, so a group can exceed `MaxGroupChatMembers`
  (`LimitUpToOverlap`).
* MarkRead announces a marker whether its UPDATE found a row or not (`service/message.go:219`). If the user leaves, the UPDATE finds
  none and locks none; if the user then joins again and reads another message, the empty MarkRead can commit last, and
  clients show its marker until they load the chat again (`MarkersAnnounced` says what remains).
* After a reconnect a tab asks for the latest page only; when more than a page was missed, older missed
  messages are missing between listed ones.
* A message can be listed twice (`FewCopies`); an edit that overtakes the message it changes is dropped, and
  the older text stays until the next page (`UpToDate` exempts it through `raced`).
* A session that is refreshed, or opened, while the password changes survives the change
  (`OldPasswordEnds` exempts it through `apart`), and so does one issued in the second of the change.
* An EXPIRE that is lost after its INCR closes the limiter for good (`LimiterRecovers` exempts it).
* An account that is verified between the two statements of `releasePendingRegistration` is
  deleted; `VerifiedStays` covers accounts verified before. A code can verify a later registration of the
  address that is under way at the same time (`OwnCode`), and a login with GitHub can be given such an account (`GitHubVerified`).
* After a reset on another device, a tab that changes the password wraps its old private key, which does not
  fit the public key that the account has by then; `CopyStaysReadable` is about users without a reset.
* A second gateway's last session marks a user offline who looks at a tab on the first, until the next
  heartbeat (`SettledIsRight`).

## 5. Proofs

Theorems hold for every value of the constants under the named assumption of each module
(`BoundsAssumption`, `GroupAssumption`, `PrivateAssumption`, `MessagesAssumption`,
`DeliveryAssumption`, `SessionsAssumption`, `RegistrationAssumption`, `ChatKeysAssumption`, `PresenceAssumption`), which ask for
no more than finite sets where something is counted (members, gateway instances) and markers (`None`, `NoOne`, `NoGateway`) that are not
members, numbers that are positive, of `Sessions` that two exchanges which are not slow fit into the grace period, and of `Presence`
that the online key lives for two periods or more.

`OutboxProofs`
: `TypeCorrect`, `OnlyCommittedAnnounced`, `NoEventLost`, `NoDuplicateInWindow`: the three safety
  invariants become inductive with `RowsFresh` (an id is handed out once; without it a commit could
  reuse the id of an announced event), `RelayCorrect` (a relay deletes only what the broker
  stored) and `BrokerCorrect` (what is in the stream is remembered or forgotten).
  `SafeRefinement`: every step is a step of `ReliableEvents` or leaves its variables alone.
  `OrderKept`: with one process and until it is killed, from the additional
  invariant that a locked batch is closed under "must come before" (`BatchOrdered`). With a
  kill, or a second process, order is *not* kept: rows the dead session still locks are skipped by
  the next relay.
  `WakeupsKept` (`NoLostWakeup`) holds with any number of processes, from `WakeInv`: until a kill, every row of the table is
  *minded* by some relay, or a handler is between its COMMIT and its `Wake`. A relay minds a row when its token waits, when it is about
  to fetch, when its batch has the row, or when its batch is full, so that it will fetch again. The delicate case is a relay that
  fetches while another one has the rows locked (SKIP LOCKED): it may go to sleep, because the owner of the lock minds them.

`GroupChatProofs`
: `TypeCorrect`, `CreatorKept`, `NothingLeftOver`, and the action properties `OnlyAdmins` and
  `AdminsByCreator` follow from `Checked(q)`: what the checks a request has passed still
  guarantee although roles have changed since. Only facts about the creator, who never
  changes, and facts of the past (`during`) survive. `LimitBounded` needs a
  different strengthening: an addition that has passed `MemberCount` is counted as if its
  member were in already.

`ContactsProofs`
: Of `PrivateChat`: `TypeCorrect`, `DuplicatesBounded` (creations about to insert are counted as chats once there
  is one), `BlocksRespected`, and `ChatsMadeIfFree` (a request's history contains what holds
  now, and an answer of a statement is in it).
  Of `Presence`: `PresenceTypeCorrect`; `PushNotMissed` (`NoMissedPush`): a frame on its way to a gateway was sent in this period
  (`FramesFresh`), so what is left of the key's life and the time since somebody was there never add up to more than `TTL` (`KeyYoung`);
  `StatusSettles` (`SettledIsRight`), for every `TTL`: in a calm period only heartbeats are on their way and they set the key,
  or nothing is and the key has lost a period for each calm one (`Heard`), so after `TTL` of them the key is right
  and every answer repeats it (`Told`). `ContactsProofs` extends both modules, which is why the names of
  `Presence` that every specification has are prefixed (`PresenceSpec`, `PresenceTypeOK`).

`MessagesProofs`
: `TypeCorrect`; `TimesFollow` and `DeletionIsFinal` from `Placed` (a request's time is later than
  every entry before it began, and it has seen no deletion among them); `ClientsAgree` from
  the former; `MarkersAgree` from `Marked` (a request between UPDATE and COMMIT that found no row had
  begun before the marker of its user, if there is one, was stored) and from `RowHeld` (whoever holds the lock of
  a row has that row); `OnlyEntitled` from `Entitled` and from `Fresh` (a message
  that is being sent is known to nobody else, so its sender does not change under
  another request).

`DeliveryProofs`
: `TypeCorrect`; `MessagesStay`; and `AllCaughtUp`: a tab at rest that asked on its connection lists the
  last page. The invariant says where a recent message can be while the tab does not list it (`Due`): a
  request for the history is still unanswered, or the answer, the wire or a waiting handler has
  the message, or the gateway has looked it up, or its consumer has not come to it yet. The step
  that needs care is `GetHistory`: what is announced before it is in the page, and what is announced after
  it finds the session registered (`AskedFirst`). `RecentStep` shows that a change makes no other
  message than a new one recent. Pages are of any size.
  `FewListed` (`FewCopies`) is a proof by counting (`Budget`): the entries of a message, the frames on the wire and the handlers that
  will add one, together with the gateways that have not broadcast the message yet, never exceed one plus the number of
  gateways; together with one if the gateway of the tab, or the next one, may still broadcast it (`Chance`), they never
  exceed two plus the number of breaks so far. This is where `DeliveryAssumption` needs finitely many gateways.
  `ShownUpToDate` (`UpToDate`) is the longest argument, `ShowsInv`: a recent message that was not updated while an older
  body was on its way is still to come, or is listed with an entry that shows the last change or will when the wire and
  the decryptions are done (`Settles`). It rests on what is on its way being genuine (`Genuine`: a body is that of a change of its own
  message), and on the order of what is still to arrive: no body is older than an update that some gateway has
  announced already, no update on the wire is older than one its gateway has announced (`NoneOlder`).

`SessionsProofs`
: `TypeCorrect`, with what each step of a handler works on (`Fits`). `EndedForGood` and `NewOnesWork` from
  `RevokedInv`: the last revocation stands in its key for the whole life of what it ends, later ones
  included, and what was issued before it was issued no later than its second. `SpentForGood` from `SpentInv`: a claimed token's
  key lives as long as the token, although `Claim` computes its TTL from a second that may have passed (the
  invariant needs that `ttl` was taken after the check, `Fits`). `OldOnesEnd` from `PasswordInv`: what
  stands and is apart has the current password, and a handler that will issue a token either has it as well, or met the change. Its steps
  are sorted into those that touch nothing it speaks of (`QuietStep`) and those that do. `AlarmsJustified` (`NoFalseAlarm`)
  from `AlarmInv`: in a browser in which no exchange was slow or lost, a used token in the jar is about to be replaced by a tab
  whose request began no later than the use (`JarOnTime`), so whoever presents it has found it there at most `Slow` after that (`AskedOnTime`);
  with the assumption on `Slow` and `Grace` the use is then within the grace period.

`RegistrationProofs`
: `TypeCorrect`, which includes that one row has the address (`RowsUnique`); `VerifiedKept` (the row a request is going to
  delete was not verified when it began, `WasKept`); `LimiterRestarts`; `GitHubGetsVerified` (whatever is pending
  when a login with GitHub has released the address was met by it, `GithubKnows`); `CodesWorkOnce` (the code that is stored, or about to be stored,
  has not been used, `CodesFresh`);
  `CodesVerifyTheirOwn` (`OwnCode`; `CodeInv`: the code that is stored belongs to whoever is pending unless that registration is under way or broke off,
  a verification has met the registrations that are under way, `Meets`, and keeps what it has learnt from the code although rows change after it, `Learnt`). Every step is first reduced to what it may do to another request (`OthersSame`).

`ChatKeysProofs`
: For any number of members, tabs and key pairs: `TypeCorrect`; `OneKeyOnly` from `OneKeyInv` (every key that is held
  by a copy, a tab, a message or a handler that is about to write it is the one of the chat, as long as no creation met a chat that exists); `CopiesReadable` from
  `ReadableInv` (what a handler is about to write for a user without a reset is for the first pair, and so is what the device and the tabs of the user hold);
  `PassesHeal` from `PassInv` (what a pass has read of a member is still stored, unless the pass was told of a change).

**Only model-checked:** liveness (`OutboxDrains`, `SelfHeals`) and the liveness half of the refinement
(`KeepsPromise`; its safety half is `SafeRefinement`), which are out of the prover's reach. Every other property of a passing run
is stated by a theorem.

Each inductive invariant was first checked by TLC on the instance of its module's run (`CopiesInv` and `ShowsInv` also with one
change less, where the run completes with the larger invariant), so a leaf that the provers do not find is a matter of the proof and not of
the model.

## 6. Assumptions and what is not modelled

* The requests of all processes read one clock that never returns the same time twice. The deployment runs one
  chat-service; with several, `LaterRequestLaterTime` holds only up to the skew of their clocks.
* PostgreSQL at READ COMMITTED: a statement sees what is committed when it starts; constraints are
  checked with the statement that could break them; an UPDATE or DELETE touches the rows that
  are there when it runs, waits for a row that another transaction has changed, and holds the rows it changed
  until its transaction ends.
* One chat per model: no statement of the modelled services relates two chats.
* `Delivery` takes the announced changes in one order, each once: resends outside the dedup
  window are not in it. Changes of one message do not overlap (`Messages` has those that do). The
  tab starts when the chat is new and knows it; older pages, trimming, and chats that
  appear while the tab runs are not modelled. NATS consumers (position in the stream, loss) are modelled as
  `consumeMulti` uses them.
* `Sessions`: one clock for the instances of auth-service and Redis, in whole seconds. The limiter of logins lets
  a request pass or refuses it before anything is written. The time that `MarkAllRevoked` writes
  is read in the step that writes it; in the code the SET follows `time.Now` by a network call, so a token issued in
  between, in a later second, outlives the revocation. Frames of a session that is over are not answered by another one.
* `Registration`: codes of two registrations are never equal by chance. A mail arrives while or before its sender is told
  of an error.
* `ChatKeys`: the chat is private, the cryptography does what its names say, the password a tab asks for is the right one.
  Access tokens do not expire by the clock: what a tab does while its token lives is done within the bound of `MaxCalls`.
* `Outbox`: a COMMIT whose acknowledgement is lost is not modelled: the row is there and nobody was woken, as after a
  kill between COMMIT and `onCommit`, which is.
* `Delivery`: what an entry "shows" is the body or, for a tab without the chat's key, its placeholder. `onMessageUpdated`
  drops an edit when `getChatKey` is rejected, which happens to such tabs only, because a key that decrypted
  anything stays in `chatKeyCache`; the placeholder then stays as it is.
* `Presence`: frames of one connection are handled before the next period (the code lets a call take up to
  `handleTimeout`, 10 s, two periods), those of a broken connection
  are lost with it, and one session's frames do not overtake those of a later session of the same tab. The times of `last_seen` are left out.
* A bound of every counter is a CONSTANT: `MaxId`, `MaxFaults`, `MaxCrashes` (`Outbox`),
  `MaxTime` (`Messages`), `MaxChanges`, `MaxBreaks`, `MaxLosses` and `MaxAsks` (`Delivery`), `MaxTime`, `MaxTokens`,
  `MaxPassword`, `MaxCalls` (`Sessions`), `MaxAccounts`, `MaxLinks`, `MaxCalls` (`Registration`), `MaxKeys`, `MaxPairs`, `MaxCalls`
  (`ChatKeys`), `MaxTrouble` (`Presence`). `MaxMembers` and `MaxSends` are the program's own limits.
* Not modelled: media-service (a check of membership and one read or write of a row whose id nobody else has), typing (a signal shown for
  three seconds), profiles, avatars of users, search, statistics and reports (one statement each), web push, group key copies at AddMember, pagination by scrolling,
  transports, rendering, logging, tracing and metrics. Components without a module are listed with the reason in `PROJECT.json`.
* Most lines of the repository that no definition stands for are generated (`src/proto/gen`, more than half of the Go code), conversions
  between them and the service layer (`chat_server.go`, `auth_server.go`), or screens.

## 7. Plan

Done, in this order: `Outbox`, `GroupChat`, `PrivateChat`, `Messages`, `Delivery`, `Registration`, `Sessions`, `ChatKeys`, `Presence`.
Next:

1. `Delivery`, older pages: `handleLoadMoreHistory` with its offset, `trimInactiveChatHistory`, and the hole after a
   reconnect.
2. An abstract specification of `Sessions` (a session is the chain of its tokens, ended or not) that `Sessions` implements.
