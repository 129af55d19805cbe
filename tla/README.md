# Verification of the chat backend

The repository is a NestJS backend: an HTTP API, three WebSocket gateways that share one `ws`
server, a Kafka producer and consumer in the same process, a Bull queue in Redis, MongoDB for
users, chats, messages and files, an S3 bucket for the objects, and a Redis cache. This
directory holds TLA+ models of its stateful parts, the TLC runs that check them on small
instances, and proofs that hold for every instance. Paths below are relative to
`src/src/modules`.

## 1. Inventory

| Component | State | Operations | Model |
|---|---|---|---|
| Presence registry: `common/services/webSocket.service.ts`, the three gateways | `usersOnline` (user id to socket, in memory), the state of each socket, the point each `handleConnection` has reached | `addClient`, `removeClient`, `broadcast`, `handleConnection`, `handleDisconnect`, `handleMessage` | `Presence`, `PresenceProofs` |
| Message delivery: `chat/gateway`, `chat/controllers/chat.consumer.controller.ts`, `chat/services` | Kafka topics and offsets, a message collection for each chat, the Bull queue `chat` | `createMessage`, `updateMessage`, `deleteMessage`, the consumer's handlers, the `.pending` handlers, `hasJobInQueue` | `Delivery`, `DeliveryProofs`; what it promises: `Mailbox`, `MailboxProofs` |
| Chat deletion: `ChatService.deleteChatById`, `handleMessageDeleteProcess` | chat document, its message collection, `chat.delete.process` and `upload.delete.process` records | emit, walk page by page, drop, delete | `ChatDeletion`, `ChatsProofs` |
| Chat creation: `ChatService.createChat` over HTTP and for `chat.create` | chat documents of one set of users | look for one, create it, create its collection | `Chats`, `ChatsProofs` |
| Message contents: `addMessage`, `updateMessageById`, `deleteMessageById` | image and file references of a message, `lastMessage` of the chat | create, then point the chat at it; read, write, purge; delete, then its files one by one | `Contents`, `ContentsProofs` |
| Files and objects: `upload/` | `Files` documents, S3 bucket and objects | `upload`, `deleteFile`, the handlers of `upload.create`, `upload.delete`, `upload.delete.process` | `Files`, `FilesProofs`, `PurgeProofs`; what it promises: `FileLife` |
| Users and their cache: `user/services/user.service.ts` | `User` documents, cache entries without expiry | read-through, registration, update, deletion | `Users`, `UsersProofs` |
| Sports and their cache: `user/services/sport.service.ts` | `Sport` documents, the cached list | the same, on one key | `Users`, `UsersProofs` |
| Authentication: `auth/` | none: verifies passwords, signs and verifies tokens | | a choice in `Presence` (`Connect` or `ConnectRejected`) |
| Validation, dates, error mapping: `common/` | none | | not modelled: pure functions |
| Bootstrap: `src/src/main.ts`, `app.module.ts` | none | | not modelled: it fixes one consumer and one process |

How they interact:

* Every WebSocket connection is handed to `handleConnection` of *each* gateway (user, upload,
  chat). The three run as three coroutines, each awaiting its own `UserService.getUserByID`,
  and all of them call `addClient` on the one registry. The chat gateway then replays the Bull
  queue (`create`, `update`, `delete` in turn) before it attaches its `message` listener.
* A client's chat request becomes a Kafka record. The consumer, in the same process, writes to
  MongoDB, looks up the chat and tells each member: over the registered socket if the registry
  has an entry, otherwise by a record on a `.pending` topic. The handler of that topic adds a
  Bull job. Nothing works the queue: only the replay of a later connection reads and removes
  jobs.
* HTTP controllers call the same services as the consumer, without notifications, so they race
  it on the database.
* Deleting a chat, or taking images out of a message, emits `upload.delete.process`, whose
  handler removes the files one by one. Deleting a message calls `deleteFile` itself.

What is hard here, and what "correct" means:

* **Presence**: several coroutines for one connection, several connections for one user, a
  single entry each, and close events that may come during an `await`. Correct: an entry is the
  user's own live connection, it is not taken away by anybody else's events, and clients are
  told the truth about it.
* **Delivery**: emits that nobody awaits, records that come again (after a restart, a rebalance
  or a retry of the producer), an online check followed by asynchronous queueing, a replay that
  spans six awaits. Correct: a decided notification is never silently forgotten, is addressed to
  the right user, does not lie, is repeated only with its record, and is queued if it is to be
  queued; a requester who stays connected is sent an answer.
* **Chat deletion**: an offset-paged walk of a collection that changes meanwhile, and a handler
  of several steps that is retried. Correct: a file is forgotten only through a race with a
  request, or if its purge was lost in the walk that led to the drop; the document goes last;
  and the deletion ends. The last does not hold of a chat without messages, nor after an
  interruption between the drop and the deletion of the document (findings 3 and 5).
* **Chat creation**: check-then-create, beside a deletion that is retried. Correct: one chat
  for a set of users, and no messages left of a chat that is gone, except for what overlapping
  requests do.
* **Files**: two stores written one after the other, by several callers, any step of which may
  fail. Correct: a document has its object; an object without a document is a trace of a
  failure; deletions are confirmed once; a requester who stays connected is sent an answer.
* **Message contents**: read, write and purge without a transaction. Correct: files in use
  stay, files out of use go.
* **Users**: a cache invalidated before the write, names checked before they are written.
  Correct: the cache is stale, and a name taken twice, only after an overlap.

`PROJECT.json` lists the hazards one by one at the line where they bite, with the property that
would catch them, or says why none does.

## 2. Modules

### Presence

| Model | Code |
|---|---|
| `usersOnline[u] = s` | `usersOnline[u]` is the socket; `NoSocket` stands for no entry |
| `readyState[s]` | `client.readyState` as `ws` reports it |
| `stage[s][g]` | how far `handleConnection` of gateway `g` is: at the `await` (`lookup`), in the replay (`drain`), listening (`ready`), returned early (`done`) |
| `Connect`, `ConnectRejected` | everything up to the `await`: URL and token checks, or `close(1008)` |
| `LookupFound`, `LookupFails` | the rest of `handleConnection`, or its `catch` |
| `CloseEvent` | `handleDisconnect` of all gateways. They run in one turn of the event loop and the second and third find nothing to remove, so they are one step |
| `QueryOnline`, `QueryIsOnline` | `handleMessage` |
| `Crash` | the process ends and starts again |

Each action is a piece of code without an `await`, so JavaScript runs it without interruption;
interleaving happens between actions. `told`, `refused` and `closedEarly` are history
variables: no guard reads them.

### Delivery

`Delivery` EXTENDS `Presence` and composes with it: `PresenceOnly` are the steps of a
connection that do not concern messages, `Admit` is `LookupFound` plus the beginning of the
replay, the last `ReplaySend` is `Drained`, and `Restart` is `Crash` plus what happens to Kafka
and Redis.

| Model | Code |
|---|---|
| `outbox`, `topic`, `handled` | a record emitted and not acknowledged; in the topic; handled but not committed |
| `Publish`, `PublishAgain`, `PublishFails` | the broker acknowledges the record; takes it, but the producer does not hear of it and sends it again (`retries: 10`, not idempotent); rejects it, and nobody looks at the result |
| `Commit`, `Rebalance`, `Restart` | the offset is committed; or the commit fails, or the session expires, or the process ends, and what was handled comes again |
| `task` | the consumer between its write and the answer of `getChatByUsersIds` |
| `queue`, `removing` | the Bull jobs in Redis; `job.remove()` calls that were not awaited |
| `replay`, `scan` | the call of `hasJobInQueue` a connection is at, and the jobs it has read |
| `Request` | `createMessage`, `updateMessage`, `deleteMessage` of the gateway |
| `HandleCreate`, `HandleUpdate`, `HandleDelete`, `HandlerRejects` | the service call of each handler, and its `catch` |
| `FanOut`, `FanOutFails` | the loop over the members, and a throw between the write and it |
| `HandlePending` | the three `.pending` handlers |
| `ReplayRead`, `ReplaySend`, `RemoveJob` | `getWaiting`, the loop, the removal |
| `HttpCreate`, `HttpDelete` | the HTTP endpoints on the same collection |

Abstractions, and why they keep what matters:

* Records are emitted without a key, so partitions give no order: `topic` is a set, and any
  record may be next. This allows more orders than one partition does.
* One consumer in one process handles one record at a time and commits after handling (the
  defaults of `kafkajs` under NestJS).
* A notification is a record `[topic, id, kind, msg, user]`. Two equal ones would be one
  element of a set; the model makes every request and every job distinct by number, so equal
  ones only arise from one record handled twice: sent twice by the producer, or handled and not
  committed. `repeated` notes which records that may have happened to; no guard reads it.
* Any dependency may fail at the points marked `Fault`, at most `MaxFailures` times in a run.
* `updateMessage` checks that the message exists and then emits; the check and the emit are one
  step, since the handler checks again and the outcomes are the same.
* `HttpCreate` leaves `Spare` identities of messages to the requests, so that a request never
  fails for want of one where the code would not.
* The reads of `hasJobInQueue` are one step; the loop over what was read is another, after the
  awaits in between. The loop itself does not await.
* A consumer group that starts for the first time reads from the end of the topic. The models
  start with the consumer already subscribed.

### Mailbox

What `Delivery` promises, without gateways, records or jobs: a notification is decided on,
waits, is shown or missed, leaves only once it was shown or missed, and comes back only with a
record that Kafka has handed over again. `KeepsPromises` is
`Mailbox` under this mapping:

| `Mailbox` | `Delivery` |
|---|---|
| `promised` | `handed`: the notifications a fan-out has decided on |
| `waiting` | `Waiting`: those with a record in `outbox` or `topic`, or a job in the queue |
| `shown` | `Told`: those delivered to some socket |
| `missed` | those in `dropped` (sent to a socket that is not open) or `lost` (an emit that came to nothing) |
| `again` | `CameAgain`: those a record of which, or of the request they come of, has come again |

`Decide` is the fan-out, `Attempt` the replay's `sendToUser`, `Leave` `job.remove()`, `Disturb`
an emit that fails, a record sent twice, a rebalance or a restart; all else stutters. A
notification that was decided on, and of which no record came again, is not decided on again
(`Untouched`).

### ChatDeletion

One chat. `coll` is its message collection, newest first, as `getMessages` sorts it; `phase`
and `page` are the handler. `getMessages` does a `find` and a `count`; they are one step. An
exception leaves the record in `ready`: NestJS passes the rejection of an event handler on and
`kafkajs` tries the record again. `NoSuchPage` is `getMessages` on a page without a message,
`HandlerThrows` any other exception of what the handler awaits, before or after it took effect.
`PublishFaultily` and `PurgeFails` are emits that the broker rejects, or gets twice;
`Rebalance` and `Crash` bring back what was handled and not committed. `Fault` counts failures.

Three histories name the causes of what is left behind. `races` counts HTTP changes between the
first page read and the drop. `lost` has the messages whose purge was lost since the walk that
is under way, or the last one, began: a new walk has all the messages it finds purged, so
`Start` takes those out. `half` says that the handler was cut short between `dropCollection`
and `findByIdAndDelete`.

### Chats

`Chats` EXTENDS `ChatDeletion` and composes the deletion of a chat with `createChat` for the
same set of users.

| Model | Code |
|---|---|
| `chat`, `others` | the chat that `ChatDeletion` follows, and how many more of the same users there are |
| `creating[c]` | the step of `createChat` a caller, an HTTP request or the consumer, is at |
| `FindOne`, `Create`, `CreateCollection` | `findOne`, `create`, `createCollection` |
| `Throws` | the look, or the creation, throws |
| `creates`, `created`, `CommitCreate` | `chat.create` records to be handled, and handled but not committed |
| `RequestTwice`, `RebalanceCreate` | the producer sends a record twice; what was handled and not committed comes again |
| `Restart` | `Crash` of `ChatDeletion`, and all calls end |

The consumer handles one record at a time, so a handler of `chat.create` and one of
`chat.delete.process` exclude each other (`Begins`, `Deleting`); HTTP requests exclude nothing.
A collection is created with the first write, so `createCollection` has no state of its own.
`late` and `overlapped` are history.

### Files

| Model | Code |
|---|---|
| `bucket`, `objects` | S3: no bucket, one without its policy, or a public one; the objects in it |
| `docs` | the `Files` collection |
| `call[c]` | an HTTP request or the consumer: the step it awaits, its file, the files its loop has still to delete, and whether the loop goes on after an exception (`patient`) |
| `outbox`, `topic`, `handled`, `task` | records as in `Delivery`, and the one in hand |
| `Accepted`, `Rejected` | the checks of `upload`: Base64, name of the bucket, allowed types |
| `HeadBucket`, `CreateBucket`, `BucketExists`, `PutBucketPolicy` | `ensureBucketExists` |
| `PutObject`, `SaveDocument` | the end of `upload` |
| `FindByIdAndDelete`, `FileNotFound`, `DeleteObject` | `deleteFile` |
| `online` | the users registered with an open socket, which is what `sendToUser` asks for; `ComesOnline` and `GoesOffline` stand for what `Presence` has in full |
| `Finish` | the consumer's handler returns: `sendToUser`, in both branches, and the record is done; it is `told` only if the requester is online by then |
| `PublishAgain`, `PublishFails`, `Rebalance` | as in `Delivery`; `repeated` has the records that came again |
| `StepFails` | the call that is awaited throws, before or after it took effect |
| `Crash` | a restart: calls end, records that were not committed are read again |

Each action is one awaited call, so overlaps of requests are interleavings of actions. Two
requests for a new bucket race: `BucketExists` lets S3 refuse the second or not, since this
differs by region. An upload chooses an identity nobody used: its key has a random UUID. A file
stands for the object and the document that names it. `cut`, `bare`, `lost`, `repeated`, `made`,
`told` and the other history variables are read by no guard.

### FileLife

What `UploadService` promises of each file: it is `none`, `arriving` (the object is there),
`whole` (the document too), `leaving` (the document is deleted), `gone`, in this order and
without a way back, and its deletion is confirmed, if at all, with the last step.
`KeepsFileLife` is `FileLife` under this mapping of the two stores:

| `life[f]` | `Files` |
|---|---|
| `whole` | in `objects` and `docs` |
| `arriving`, `leaving` | in `objects` only; `leaving` if the document was deleted (`removed`) |
| `none`, `gone` | in neither; `gone` if the document was deleted |
| `dangling`, which no step of `FileLife` reaches | in `docs` only |

`Arrives` is `PutObject`, `BecomesWhole` is `SaveDocument`, `Leaves` is `FindByIdAndDelete`,
`Goes` is `DeleteObject`; so is a step that throws after it took effect. All else stutters.

### Contents

`Contents` EXTENDS `Files` and composes with its deletions and its purge handler: `Emit` is the
one that `EmitPurge` calls, and the deletion of a message goes through the steps of
`deleteFile`.

| Model | Code |
|---|---|
| `msgs`, `last` | the messages with their images and file; `lastMessage` of the chat |
| `op[c]` | what a call has in hand: the message, its body, the images left out |
| `AddMessage`, `UpdateChat` | `create`, then `findByIdAndUpdate` of the chat |
| `FindMessage`, `WriteMessage`, `EmitRemoved` | `updateMessageById`: `findById` with the images populated, `findByIdAndUpdate`, the emit |
| `Filtered` | the filter of the images, as a relation between a list and what is left of it |
| `DeleteMessage`, then `DeletionStep` | `findByIdAndDelete`, then `deleteFile` for each image and the file, up to the first exception |
| `CallFails` | a `populate`, or the answer to a write, throws between two writes |
| `DeleteFile` | a client deletes a file itself |

The handlers of `chat.message.*` call the same three methods as the HTTP endpoints; in this
module they are calls among others, which allows more overlaps than the single consumer does.
`why` records, for each file, what may have it deleted while a message refers to it: a client
deleted it (`direct`), gave it to two messages (`shared`) or to a message while it was on its
way out of one (`again`), or changed only the text of its message (`text`); an update written
over another one leaves files that no call has noticed (`overwritten`). `abandoned` has the
files a call dropped when it gave up. In `KeptFilesStay` and `UnusedFilesGo` these are the only
exceptions: everything else that overlapping, failing and restarted calls do is covered.

`settled` has the messages that the chat got as its `lastMessage`, and `before` the pairs of
such a message and one that was created later; `LastIsNewest` compares the two under any
overlap of additions. It is about messages written, not about messages there are:
`deleteMessageById` leaves `lastMessage` alone, so that it may point at a message that is gone.

Of the body of `updateMessageById` the model has the images. `findByIdAndUpdate` writes all of
`{...body}`, which over HTTP is images and text; what a WebSocket request, which nobody
validates, may write beside them is left out.

### Users

| Model | Code |
|---|---|
| `users`, `sports`, `cache` | the two collections; the cache, whose entries do not expire |
| `call[c]` | the step a request awaits, and the copy of the user it has |
| `GetUser`, `GetSports`, `Find`, `SetToCache` | `getUserByID`, `getSports` |
| `RegisterUser`, `EmailExist`, `UserNameExist`, `Create` | `registerUser` |
| `UpdateUser`, the same questions, `DeleteFromCache`, `FindByIdAndUpdate` | `updateUser`: it begins with `getUserByID`, and asks only for names that differ from what that returned |
| `DeleteUser`, `FindOneAndDelete` | `deleteUser` after the login |
| `ChangeSport`, `WriteSport` | the three writes of `SportService` |
| `Throws`, `Restart` | an exception; a restart, which may or may not empty the cache |

`Taken` is `findUser`: by email or by user name. `Duplicate` is the unique indexes, which guard
each field on its own, so that one user's email may be another's user name unless the questions
prevent it. `overlapped` has the keys that were written while another call was using them;
`crossed` says that calls which set names overlapped, or that an update went by a stale copy
(`Misled`). Passwords, pictures and the sports of a user are left out. An update has a new
email or a new user name, and a registration an email that is not its own user name: bodies
that change both at once, or neither, and registrations with one name in both fields are not
tried.

### Variants

Definitions with a comment "Variant" (`addClient_lastWins` and so on) are plausible mistakes.
No action uses them: each one replaces the definition it is named after to show that the
property it is paired with in `PROJECT.json` would notice.

## 3. Runs

| Run | Question | Bounds |
|---|---|---|
| `presence` | Who is registered, for how long, what are clients told, and does every handshake end? | 2 users, 2 connections, all 3 gateways |
| `presence_ghost` | Is an online user connected? **No** (finding 1) | 1 user, 2 connections, 3 gateways |
| `delivery` | With a restart at any point: do notifications reach the right user, does a replay leave anything old behind, what may vanish? Does it all implement `Mailbox`? | 1 chatter of 2 users, 2 connections, 1 request, 2 messages, 2 jobs, 1 restart, no failures |
| `delivery_live` | With a failure at any point, a record sent twice or handled twice among them: does a notification lie, is it repeated, is it queued, is a requester who stays connected sent an answer? Does it all implement `Mailbox`? | 1 chatter, 1 connection, 1 request, 2 messages, 3 jobs, 1 failure, no restart |
| `delivery_offline` | Is a member without connections sure to have the message queued? **No** (finding 2) | 1 chatter, 2 connections |
| `chats` | What may be left without a purge, what may outlive the chat, when are there two chats of the same users, and is a chat with messages deleted in the end? | 3 messages, 2 deletions or creations, 1 HTTP caller beside the consumer, 1 HTTP deletion, 1 failure, 1 restart |
| `chat_deletion_empty` | Is any chat deleted? **No** (finding 3) | 3 messages, 1 deletion |
| `chat_deletion_half` | Is a chat with messages deleted in the end, though the process restarts? **No** (finding 5) | 3 messages, 1 deletion, 1 restart |
| `files` | Do documents and objects agree, are purges complete, is a requester who stays connected sent an answer? Does it all implement `FileLife`? | 2 files, 1 HTTP request and the consumer at a time, 1 requester, 1 record, 1 failure, 1 restart |
| `contents` | Do files in use stay and unused ones go? Which message is the last one of the chat? | 2 messages of up to 1 image and a file, 2 files, 2 calls at a time, 3 in all, 2 records, 1 failure or restart |
| `contents_text` | Does a change of the text leave the images alone? **No** (finding 4) | 1 message, 1 file, 1 call at a time |
| `users` | When may the cache be stale, and when may a name be that of two users? | 2 users, 4 names, 1 sport, 2 calls at a time, 4 calls and restarts in all |

Why the bounds are enough.

* *Presence*: two connections of a user with three gateways give every order of admission,
  failure and close between them; a socket that ends is gone for good, and a second one meets
  what it left. Two users show that one does not disturb the other. The proofs remove the
  bounds.
* *Delivery*: a request by one connection gives a writer, a chatter with two connections a
  reader, online or not, and covers the replay that another connection overtakes; one restart
  covers each point of a request once, and a second restart meets the same states again. One
  failure covers each emit, each commit and each await of a handler once; of two messages one is
  left for a record that comes again. That messages of two requests, or notifications of two
  chatters, do not disturb each other is proved and not run.
* *Chats*: three messages leave room for a page read, one to be shifted, and one to arrive on
  either side; two deletions, a deletion and a creation, or two creations overlap; a failure and
  a restart may both fall into one of them.
* *Files*: two files let two uploads race for the bucket, and a list of two files fail at the
  first; an HTTP request and the consumer are two calls on the same file, or the same bucket,
  and a third would do what one of them does. What a restart or a failure leaves is there for
  the others to meet. One requester who comes and goes is online at any point of the record, or
  not.
* *Contents*: two calls on one message overlap, and a third one meets what they left; two files
  are one kept and one left out. Failures and restarts are each tried alone.
* *Users*: a writer and a reader, two writers, or two registrations overlap and two calls
  remain to meet the outcome; four names let two users have distinct ones.

`MaxJobs` never blocks what a liveness property asks about: in `delivery_live` it is the number
of pending records that a request and a failure can produce. In `delivery` the third job of a
request stays a record of the topic, if the restart brings back the request and a notification
of it. `Presence` and `Files` never rest and are checked for deadlock (though in `Files` the
requester may always come or go); elsewhere the system rests when the bounded requests and
connections are used up. `VIEW WithoutHistory` drops history variables that nothing in the run
reads: those of `Presence` in `Delivery`, some of those of `Files` in `Contents`. Symmetry is
used for safety only.

### Fairness

* `LookupFound \/ LookupFails`: the database answers or the driver reports an error.
* `Drained`, `ReplayRead \/ ReplaySend`: Redis answers; the loop has no other wait.
* `CloseEvent`: `ws` destroys a closing socket after 30 seconds and emits `close`.
* `Publish`: the broker acknowledges. `ConsumerStep`, `HandlerStep`: `kafkajs` goes on to the
  next record, and tries one that failed again; what a handler awaits is answered or throws.
* `Create`, `CreateCollection` of the consumer: MongoDB answers, so `chat.create` makes way for
  the next record.
* `RemoveJob`: Redis carries out what it was sent.

No fairness is put on clients, HTTP requests, failures, rebalances or restarts. `files` and
`chats` check liveness with a failure and a restart: a record that is in the topic is handled
again. `delivery_live` has a failure of any kind and no restart: its properties begin with an
emit, which nobody awaits, and one that comes to nothing is lost for good, which they name
(`lost`). The answers are to a requester who stays connected: both properties end, answered or
not, with the socket that the question came from.

## 4. Findings

1. **A closed connection stays online** (`presence_ghost`). `addClient` does not look at the
   socket. If the connection closes while a gateway awaits `getUserByID`, `handleDisconnect`
   finds nothing to remove and `addClient` enters a dead socket afterwards. Since only the
   first socket of a user is entered, the user's later connections are refused and receive
   nothing until the process restarts (`GhostStays`, proved). `GhostOnlyFromHandshakeRace`
   (proved) says that this is the only way.
2. **A notification to a dead entry is dropped** (`delivery_offline`). The fan-out asks for an
   entry of the registry, `sendToUser` for an open socket; what falls between is neither sent
   nor queued.
3. **A chat without messages is never deleted** (`chat_deletion_empty`). `getMessages` throws
   on an empty page, so the handler throws before the drop and is retried in vain.
4. **A change of the text purges the images** (`contents_text`). `updateMessageById` compares
   the images of the message with those of the body, and a body without images counts as one
   that keeps none. `findByIdAndUpdate` then leaves the images in the message, but their files
   are sent to `upload.delete.process`.
5. **A deletion cut in half never ends** (`chat_deletion_half`). `dropCollection` and
   `findByIdAndDelete` are two steps. If the process restarts, or MongoDB fails, between them
   (`chat.consumer.controller.ts`, lines 262 and 263), the record comes again to a chat without
   messages, and finding 3 applies: the chat stays, and the record is retried in vain.
   `ChatWithMessagesIsDeleted` says that a chat with messages is deleted but for this (`half`),
   or if all of its messages are deleted over HTTP before the drop.

## 5. Proofs

All theorems hold for every value of the constants under the assumptions the modules name:
`PresenceAssumption` (`ChatGateway` is one of the gateways; `NoSocket` is no socket, `NoUser`
no user), `DeliveryAssumption` (the chatters are users, `NoMessage` is no message),
`FilesAssumption` (`NoFile` is no file, `Consumer` no HTTP call, `NoUser` no user),
`ContentsAssumption` (`NoMessage` is no message, and the calls about messages do not need more
records than there may be), `ChatDeletionAssumption` (the messages are finitely many),
`ChatsAssumption` (`Consumer` is no HTTP call), `UsersAssumption` (`AllSports` is no user,
`Absent` no name), and that the bounds are natural numbers. So they hold for all three gateways,
and for any number of connections, users, messages, files, images of a message, requests, calls
at a time, failures and restarts. `PROJECT.json` lists them all. Every type invariant, safety
invariant, action property and refinement that the runs check is proved; liveness is not.

`PresenceProofs` proves `Spec => []IInv`, where `IInv` adds to the invariants the runs check:

* `Handshakes`: a connection that was never opened left no trace, and a coroutine that goes on
  after its lookup has a user. Without it `LookupFound` could enter anything.
* `Ghosts`: a closed socket that is registered, *or that some gateway still awaits the user
  of*, is in `closedEarly`. The second half is what makes `GhostOnlyFromHandshakeRace`
  inductive: the ghost appears at the lookup, its cause came before.
* `Audience`: only open sockets are told anything, and of those only refused ones are not
  registered. `ToldAccurate` needs it: a socket that hears no broadcasts must not have been
  told anything.

`LookupFoundStep` and `CloseEventStep` are the two long cases; they are the only steps that
change the registry of a running process. From `IInv` follow `TypeOK`, `RegistryConsistent`,
`AdmittedIsRegistered`, `ToldAccurate`, `GhostOnlyFromHandshakeRace` and the two action
properties `EntryOutlivesOpenSocket` and `GhostStays`.

`DeliveryProofs` first shows that every step of `Delivery` is a step of `Presence` or leaves
its variables alone, hence `DeliverySpec => KeepsPresence`; `IInv` is an invariant of
`Delivery` for free. Its own invariant `DInv` then has four parts beside the types:

* `NotesInv`: every record, job, read job and delivery is *well meant*: for a chatter, and true
  of its message. Since messages only age (written, then deleted: `MessagesAge`), what was true
  stays true, and since a connection keeps its owner (`OwnersStay`), what was addressed stays
  so. `NotesFlow` says where a step may take records, jobs and deliveries from; each action is
  shown to respect it, and it is shown once to keep `NotesInv`. `Addressed` and `Truthful`
  follow. `Addressed` also rests on `RegistryConsistent`: the replay looks the user up again
  when it sends.
* `RemovedWerePassed`: a job waits for its removal only after `sendToUser` got its
  notification. `JobsAreReplayed` follows.
* `NothingVanishes` is inductive given the other parts.
* `ReplayInv`: the jobs queued before a replay began are of kinds it has not come to, or among
  those it has read. `ReplayComplete` is the case of a finished replay.

`MailboxProofs` proves two things of `Delivery` that `DInv` does not say, both about requests
that are carried out twice.

* `CopiesComeOfRedelivery`, for `CopiesNeedRedelivery`. `RequestsOnce`: a request has a number
  of its own, a record that is both emitted and in the topic, or handled, has come again and is
  noted in `repeated`, and one being handled is still in the topic. `ToldOnce` then ties what
  was told to where the request is: unless its record came again, nobody was told of it while
  it waits, and of one message when it is done. The fan-out is the one step that tells, and
  moves the request on; failures of it tell nobody and move it on too; only `PublishAgain`,
  `Rebalance` and `Restart` bring a request back, and they note it.
* `DeliverySpec => KeepsPromises`: a second fan-out of the same record would bring back what has
  left the mailbox. `FreshRequest` excludes it unless the record came again, from `ToldOnce`.
  `FanOutDecides` is the one step that needs it; the others are mapped one by one in `MailStep`.

`FilesProofs` proves `Spec => []FInv`. `DocHasObject` alone is not inductive: a deletion could
take the object of a file whose document another call is about to create, or still needs. What
excludes this is ownership. `UploadsOwn`: an upload has its file to itself, with no document
before it ends. `DeletionsOwn`: only the one call that took the document goes on to the object,
as `findByIdAndDelete` is atomic. `StoreInOrder`: a document that was deleted does not come
back. The steps are first classified by their effect on a file (`Effect`), failures included,
since a step that throws may or may not have taken effect; the invariant is then shown for each
effect. From it follow `TypeOK`, `DocHasObject`, `OrphansAreCut` and `DeletionConfirmed`.

`Spec => KeepsFileLife` rests on the same invariant: each effect is a step in the life of its
file (`EffectLife`), and everything else leaves the stores alone (`StepLife`). A document is
created for a file that has its object and never had a document, so `arriving` becomes `whole`;
an object is deleted by the one call that took the document, while the object is still there
(the other half of `DeletionsOwn`), so `leaving` becomes `gone`, and nothing is confirmed
twice.

`PurgeProofs` rests on `FInv`. `BareBucketIsCut` is inductive beside it. `PurgedAreGone` needs
three facts of purges: their files have been in use, so no upload brings one back
(`PurgesInOrder`); what the handler of a purge has behind it is gone or cut, what it has before
it is in its list (`HandlerInOrder`), also after a file it could not delete; and so for a purge
that is over (`PurgedInOrder`). `CopiesComeOfRedelivery` is for the documents of an upload
record what it is in `MailboxProofs` for messages (`MadeOnce`). It rests on numbers that are not
given twice (`IdsInOrder`) and on the handler of an upload having one file only
(`UploadsSingly`): the step that makes the document is the one that ends it.

`ContentsProofs` begins with what carries over from the files: a step of `Contents` is one of
`Files` for the documents, or leaves them alone, or makes a call about messages start a
deletion, so `FInv` and the order of purges stay invariants (`CInv`). It adds the types,
`OpsInOrder` (a call is at a message there was, and has files purged that were in use) and
`OnlyPurges`: every record is a purge, the file in the consumer's hand is one of the record's
list, and a record that is done has been through its list. On top of it:

* `LastInOrder` for `LastIsNewest`: a message that the chat has yet to get is the business of
  one call and is not `settled`. So it is in no pair of `before` as the earlier one when it
  becomes the last, and a message that is created makes pairs with itself as the later one only,
  while it is not settled.
* `FilesKept` for `KeptFilesStay`. That a file in use has its document is not inductive: an
  update holds the images it read before it wrote. So for each file in use without an excuse in
  `why`: one message refers to it, in one place (`OnlyOf`), no record and no deletion has it
  (`Untouched`), and a call that has it among the images to be removed is the update that is
  about to write the list without it (`ReplacedIn`). The excuses are noted when a message is
  given a file, so each step that adds a reference has to show that it either notes one or finds
  the file in nobody's hands.
* `UnusedInOrder` for `UnusedFilesGo`. `Pending` counts an update that has read the images and
  not written yet, which may still come to nothing. `ToBeDeleted` counts it only from its write
  on, when the images are out of the message.

`ChatsProofs` proves `ChatsSpec => []CInv`. `PurgesArePending` needs `WalkInOrder` (a handler
that is under way has its record) and `DropInOrder` (after the drop the collection has late
messages only, of which none was purged). `TwinsNeedOverlap` needs `CreationInOrder`: without
an overlap, the caller that is past its look is alone and finds no chat. From it follow
`TwinsNeedOverlap`, `OrphansCameLate` and `PurgesArePending`. Two more invariants count:

* `Counted`, for the types: the three kinds of records of a deletion add up to no more than the
  deletions asked for and the failures, each of which doubles one record at most, and the chats
  there are with those that callers are about to create to no more than the requests and the
  failures. Only as long as `others` is 0 may a record still lead to a chat, so only then are
  the records counted beside the callers.
* `MissedAreRaces`, for `LeaksHaveCauses`: the messages that the walk has passed, or the drop has
  taken, without a purge that was emitted, were it in vain, are at most the requests that came
  while it went on. A deletion shifts one message before the page the walk is at, an addition
  puts one there; each page that is read adds a message that is purged. After a restart or an
  exception the walk begins again at the first page, with nothing passed and nothing of the
  collection `lost`, so that what an earlier walk lost is read again. It is a set of messages
  that is counted, which is why they are assumed to be finitely many.

`UsersProofs` proves `Spec => []UInv`. The entry of a key that nobody wrote beside another call
is right because of what calls are about to do: a copy on its way into the cache is what
MongoDB has (`CopiesInOrder`), and there is no entry when MongoDB is written (`WritesInOrder`).
`OverlapsNoted` turns two calls on one key into an entry of `overlapped`. Each step is
classified as one that looks, reads, fills the cache, clears it or writes a key, and the
invariant is shown for each of the five. From it follow `TypeOK` and `StaleNeedsOverlap`.

The second part of `UsersProofs` rests on `UInv`. As long as nothing is noted in `crossed`, at
most one call sets names, and the answers it has got stay true until it writes
(`AnswersInOrder`): what it asked about is nobody's (`Settled`), and what it did not ask about
is the user's own (`Trusted`), as its copy was right when it came. So `Create` and
`FindByIdAndUpdate` take names that are free or were the user's, and `NamesAreUnique` follows.

## 6. What is only model-checked, and what is left out

* Liveness (`AdmittedOrClosed`, `PendingReachesQueue`, both `RequestsAreAnswered`,
  `ChatWithMessagesIsDeleted`) is checked by TLC only: the prover does not reason about
  fairness.
* That the exceptions the properties name do occur is not proved, only that nothing else does.
  The runs show it where the code falls short of what it says: `presence_ghost` reaches the
  race of `GhostOnlyFromHandshakeRace`, `contents_text` the reason `text` of `KeptFilesStay`.
* `KeepsPresence`, that the message path changes the registry in no way `Presence` does not, is
  proved (`DeliveryImplementsPresence`) and in no run. So is, of what the runs check of
  `Delivery`, every case of more than one chatter or request.
* That a job is replayed in the end is no property: one that is queued just after a replay has
  read the queue waits for the next connection, though its user is online (`ReplayComplete`
  says which jobs may be left). Nor is it one that `lastMessage` points at a message there is.
* Counts and orders of lists are proved without induction over data: `Filtered` is stated by
  positions and not by recursion, and sets are counted by one element more or less.
* `getMessages`, `getChatsByUserId`, `getChatByUsersIds`, `getUsers`, `searchFile` and
  `getFileAll` over HTTP or WebSocket change nothing and are left out, as is the list of
  allowed file types (`CreateType`, `deleteType`): it decides between `Accepted` and
  `Rejected`, which `Files` leaves open.
* In `Delivery`, `chat.create` and `chat.delete` requests are left out: the first tells nobody
  that is offline, the second only leads to `ChatDeletion`. The contents of messages are in
  `Contents`, which notifies nobody.
* `Contents` begins with uploaded files: that an upload overlaps with the message that refers
  to it cannot be, since a client learns the id of a file when the upload is over.
* Passwords, sports and pictures of a user, logging, response envelopes, DTO validation and the
  wording of errors are left out.
* More than one process would need a shared registry; the code has none, and the models have
  one process.

## 7. Plan

Written: `Presence`; `Delivery` on top of it, and `Mailbox` above; `ChatDeletion` and `Chats`
on top of it; `Files`, `FileLife` above and `Contents` on top of it; `Users`. Proved: the
registry, the message path and its refinement of `Mailbox`, the files, their refinement of
`FileLife` and their purges, what messages refer to, the chats, the cache and the names of
users; no safety property of the runs is left. To come: the part of the liveness argument that
the prover can state, namely that a record in the topic stays there until it is handled, as an
action property of `Delivery` and `Files`.
