# Formal models of Simple_IMChat

TLA+ models of the server and the client of Simple_IMChat, the TLC configurations
that check them on small instances, and TLAPS proofs of what matters most. Paths
below are relative to `src/`.

## 1. The system

| Part | Code | State it keeps | Operations |
|---|---|---|---|
| Business layer | `ChatServer/src/server/chatservice.cpp` | `_userConnMap`, `_pendingRecvAckMap`, `_saveMsgQueue` | `login`, `clientCloseException`, `oneChat`, `recvAck`, `retransmitLoop`, `backgroundSaveThread`, `syncMessages`, `handleRedisSubscribeMessage`, `sendApply`, `processApply` |
| Worker pool | `ChatServer/include/server/ThreadPool.hpp` | task queue | 4 workers run every request |
| Reactor | `ChatServer/src/server/ChatServer.cpp`, `net/Epoll.cpp` | `connections_` by descriptor | accept, dispatch, close, 30 s idle check |
| Connection | `net/TcpConnection.cpp`, `net/Buffer.cpp` | read and write buffer, `closed_` | framing, `send`, `onWrite`, `shutdown` |
| Redis access | `db/Redis.cpp` | two contexts, observer thread | timelines (ZSET), routes (hash), channels |
| MySQL access | `db/ConnectionPool.cpp`, `db/Connection.cpp`, `server/model/` | pool of connections; tables | users, history, friends, requests |
| Client network | `IMchat/net/imclient.cpp` | send queue, sync key, dedupe window | retransmission, acknowledgement, sync |
| Message ids | `IMchat/net/snowflake.h` | last timestamp, sequence | `nextId` |
| Client windows | `IMchat/ui/` | bubbles and their status, friend list, open requests | the slots of `LoginWidget` and `ChatWidget` |
| Protocol | `*/proto/msg.pb.*` | objects with their has-bits | writing and parsing 17 messages, by code from two versions of `protoc` |

A message goes: client `nextId` and `sendOneChat` -> reactor -> worker runs
`oneChat`: acknowledge to the sender, put on the save queue, add to the
receiver's timeline in Redis, push to the receiver if connected here, else
publish to the receiver's node. A message between users who are not friends is
answered with a refusal. The receiver's client acknowledges a push; the
retransmission thread resends what is not acknowledged. A client that logs in
asks with its sync key for what it missed. Nodes share one MySQL and one Redis.

Hard behaviour, and where it lives:

* threads: 4 workers, the reactor, the Redis observer, the retransmission
  thread and the save thread share `_connMutex`, `_pendingMutex` and
  `_queueMutex`; requests of one connection run in any order;
* stores written one after the other without a transaction: table `User`,
  `_userConnMap`, channels, `user:route`; the save queue and the timeline;
* retransmission by sender and server, duplicates, lost connections;
* crashes and restarts of one node while others run;
* liveness: the save thread, the retransmission thread, waiting for mutexes, and
  what hangs once the retransmission thread holds `_pendingMutex` for ever.

`PROJECT.json` lists every component with its status and every such hazard at
its line.

What makes each component correct:

* *timeline and history*: an acknowledged message is not lost without a cause;
  the cache holds the newest messages; a sync key never skips one in silence;
* *push*: an entry is settled, never orphaned, never dropped in silence;
* *session*: the four places that say where a user is agree;
* *ids*: increasing in a client, unique among clients that differ in worker id;
* *worker pool*: every request is started once, in order, and comes to an end;
* *connection pool*: a connection has one holder, a waiter gets an answer;
* *connection*: packets come out whole, in order, and all of them;
* *reactor*: the service hears once of every connection that ended; none is shut
  down for another one's idleness; descriptors are given back;
* *friends*: a friendship is mutual and comes from an accepted request; windows
  show what the tables hold;
* *client*: what the user is told of a message is true, and he is told; a message
  is shown once; the sync key passes nothing unseen;
* *protocol*: each side reads what the other meant.

## 2. The modules

### Timeline: acknowledgement, save queue, cache, sync

| Model | Code |
|---|---|
| `Accept`, `Enqueue`, `CacheAdd`, `CacheTrim` | `oneChat`, chatservice.cpp:389-452: a task is one run of the handler for a message and a copy of it; each step is one call another thread can come between |
| `SaveTake`, `SaveInsert`, `SaveFails` | `backgroundSaveThread` 683-710 and `insertBatch`, on each node: all rows or none; `Insertable` states MySQL's primary key and column length |
| `Hit`, `Least`, `Misread` | `zminscore` (Redis.cpp:245-261): the smallest score as Redis prints it and `atoll` reads it |
| `SyncMin`, `SyncRange`, `SyncQuery`, `SyncQueryFails`, `SyncReply`, `SyncDropped` | `syncMessages` 713-775 and the client's side of it (imclient.cpp:328-362) |
| `Crash` | a node dies and is restarted; Redis, MySQL and the clients' stored keys survive |

A message has an id (`MsgId`), an integer as `msg_id` is; two messages may have the
same one, since all clients are worker 1 of `Snowflake`. The members of a timeline
are messages: a retransmission repeats the same bytes. There are several nodes on
one Redis and one MySQL; each has its own save queue and save thread, and a message
is on that of the node its sender is connected to (`On`). `acked`, `entered`,
`stored`, `refused`, `lost` and `disturbed` are history variables: they record
what happened and no guard reads them. `disturbed[u]` records what can make
a sync skip a message of `u`: a message that reached a queue or the timeline
after one with a larger id or the same score (`Late`), one that is saved while an
older one waits on another node (`Overtakes`), a trim between the two reads of one
sync (`TrimsUnderSync`), and a minimum that was misread (`Misread`).

A score of a ZSET is a double, so ids near each other may have one score (`Score`,
run `timeline` has a tie); among equal scores Redis orders by the member. What
`atoll` makes of the printed score is a constant too (`Read`): Redis up to 7.0 prints
`%.17g`, which has an exponent from 1e17 on, and an id of `Snowflake` is beyond that
nine months after `kEpoch`; a later Redis prints a double's shortest digits.

Assumed: MySQL in strict mode (an over-long value is an error, its default);
a statement that fails changes nothing. Left out: the friend check (a
refused message changes nothing on the server; its answer is in `Client`), the
benchmark mode with synchronous writes, a Redis that fails, the client's
deduplication.

### ReliablePush: push, acknowledgement, retransmission, close

| Model | Code |
|---|---|
| `PushSend`, `PushArm`, `PushThrows`, `PushRecord` | chatservice.cpp:454-474 and 343-364: send under `_connMutex`, whole or with a rest for which `EPOLLOUT` is asked, then record under `_pendingMutex`; between the actions another thread can come |
| `PushStore` | a message of the Redis channel whose receiver is gone (381-385) |
| `Stores` | `OfflineMsgModel::insert`, whose result nobody reads: too long a payload and any failure of MySQL leave the table as it is |
| `RecvAck` | 493-502 |
| `Disconnect`, `CloseErase`, `CloseOffline`, `CloseSweep` | `TcpConnection::onRead` at the end of the stream, `clientCloseException` on the reactor thread, which closes one connection at a time |
| `RetxLock` .. `RetxUnlock` | `retransmitLoop` 505-539, which holds `_pendingMutex` through its pass and through `clientCloseException` |
| `Login`, `ClientRecv` | the clients; a client acknowledges each copy it reads |

A `std::mutex` locked twice by one thread is undefined; with the C++ library
used here the thread waits for ever, and the model has no step out of that
place. `skips` bounds how often a pass finds an entry that is younger than 3 s.
`TcpConnection::send` throws if the reactor takes the descriptor out of epoll while it
runs: in a worker the exception ends in the task's future and the message is not
recorded (`thrown`), in the Redis observer and in the retransmission thread
(`RetxThrows`) it ends the process. The pending map goes by `msg_id`: of two messages
with one id only the first has an entry. The login is one step here (its
interleavings are module Session).

### Session: login and close over four stores and several nodes

Each call of `login` and `clientCloseException` to MySQL or Redis is a step
(`LoginQuery` .. `LoginTell`, `CloseErase` .. `CloseTell`); a node crashes
(`Crash`) and comes back through `resetState` (`BootReset`) and
`cleanNodeRoutes` (`BootRead`, `BootDelete`). `told[u]` is the last status
notification of `u`, which Redis delivers in the order of the `PUBLISH`
commands. `disturbed` marks users for whom steps overlapped: a login while
another login, session or close of the user is under way, a login whose
connection is gone, a start of a node during a session, an `HDEL` of a route
that another node had written since. `missed` marks users whose session ended
in a crash: nobody tells their friends.

Left out: a second login on the same connection, the snapshot of friends in the
login answer, a failing MySQL or Redis.

### Snowflake: message ids

`NewMilli`, `SameMilli`, `Exhausted` and `Waited` are the paths through
`nextId`; its mutex makes each one step, and the wait for the next millisecond
a state (`waiting`). Bits are factors: shifting by 12 is multiplying by
`SeqSize`. `SetBack` sets a clock back, `Restart` is a new process with a new
generator; it does not fit into the millisecond of the last id. A clock differs
by at most 1 between clients at the start.

### Connection, Buffer, PacketPipe: bytes between server and client

| Model | Code |
|---|---|
| `SendOnClosed`, `SendQueued`, `SendBegin`, `SendWrite`, `SendError`, `SendBlocked`, `SendArm`, `SendArmThrows` | `TcpConnection::send` (195-242): `sendMutex_`, the first write, the rest to `writeBuffer_`, the write event |
| `WriteBegin`, `FlushWrite`, `FlushStops`, `FlushDone` | `onWrite` |
| `ReadSome` .. `RefusePacket`, `CloseDel`, `CloseFd` | `onRead`: the loop until `EAGAIN`, the framing, the end |
| `Poll` | `Epoll` with edges: `ready`, `noSpace`, `hup`, `inEdge` |
| `ClientSend`, `Arrive`, `ClientGone` | the socket of the client and the network |
| `ClientRead`, `ClientHandle`, `ClientAwait`, `ClientRefuse` | `ImClient::onReadyRead` (imclient.cpp:424-456), a turn of its loop at a time; while it runs (`reading`) no further segment is taken |
| module `Buffer` | `net/Buffer.cpp`: `Compact`, `Grow`, `ReadFd` with its second buffer |

A packet is a row of cells of which the first ones are its length. The abstract
specification `PacketPipe` (accept a packet, deliver the oldest, break) is
implemented by both directions: its safety is `SendIsPipe` and `ReadIsPipe`, its
fairness (what was accepted is delivered while the pipe is open) `PacketsArrive`.
`TcpConnection::shutdown` is left out, since its only caller does not come that
far (run `push_giveup`). A write error is only an error: libmysqlclient, which
every server links, ignores `SIGPIPE`.

### ThreadPool, ConnectionPool, Backend: what runs a request

| Model | Code |
|---|---|
| `Enqueue`, `NotifyOne`, `TakeTask`, `WaitForTask`, `EndTask`, `Stop` | `ThreadPool.hpp` |
| `GetConnection`, `GetAgain`, `TimesOut`, `GiveUp`, `GiveBack` | `getConnection` and the deleter of its `shared_ptr` |
| `Produce`, `ProducerWaits`, `Scan` | the two threads of the pool |
| `Submit` .. `Finish`, `MaintainPool`, `Shutdown` of `Backend` | requests that run as tasks and ask for a connection |
| `GiveUpHangs`, `Hangs` | after a give-up `retransmitLoop` holds `_pendingMutex` for ever: a task of `Locking`, which needs it or the `_connMutex` that a blocked push holds, does not end |

The pool's time is `clock()`, that is CPU time (Connection.h:26): `Tick` is one
unit of it, and nothing says that it passes. A connect that fails at the start
and `ping` with its reconnection are left out.

### Reactor: accept, dispatch, close, idle check

| Model | Code |
|---|---|
| `Poll`, `OnListener`, `OnEvent` | the loop of `ChatServer::start` |
| `Accept`, `AcceptDone`, `AcceptFails` | `handleNewConnection` |
| `ReadPacket`, `ReadEnd`, `ReadNothing`, `Disconnect` | `onRead` and `handleClientDisconnect` |
| `Collect`, `ShutDown` | `checkConnectionTask`: the numbers collected under the lock, the `shutdown(2)` after it |
| `EndTask` | a worker lets go of its `shared_ptr`, a login keeps it in `_userConnMap` |
| `Push`, `Acknowledge`, `GiveUp` | an entry of `_pendingRecvAckMap` holds the connection too (chatservice.hpp:112); the sweep of `Disconnect` takes it away, and after a give-up the reactor hangs there (`rpc = "stuck"`) |
| `Connect`, `Send`, `Hang`, `Vanish`, `GrowIdle` | clients and time |

A descriptor is closed with the last reference to its connection; the kernel gives
out the lowest number that is free.

### Friends: requests, friendships, notifications, windows

| Model | Code |
|---|---|
| `ApplyCheck`, `ApplySelect`, `ApplyInsert`, `ApplyLook`, `ApplyPublish` | `sendApply` |
| `AnswerUpdate`, `AnswerBind`, `AnswerState`, `AnswerLook`, `AnswerPublish`, `AnswerRespond` | `processApply` |
| `Login` .. `LoginAck`, `Close` .. `CloseTell` | what `login` and `clientCloseException` do about friends |
| `Deliver` | Redis and `handleRedisSubscribeMessage` for APY, BND, NTF |
| `ClientApply`, `ClientAnswer`, `ClientRead` | `ImClient` with the slots of `ChatWidget` |

There is one node; a user logs in again after the last close has ended and Redis
has delivered what it had for him; the sets `user:friends:<id>` stand where the
code reads its cache of rows. `outdated` records what a window may have wrong
because an answer with older knowledge came after a notification.

### Client: ImClient and its windows

| Model | Code |
|---|---|
| `SendPackets`, `SendFails`, `Connect`, `ConnectAndLeave`, `ConnectFails`, `ConnectionBreaks` | `sendPacket`, `onConnected`, `onDisconnected`, `onError` |
| `PressLogin`, `PressSend`, `Logout`, `CloseBox` | the windows |
| `CheckRetransmit`, `CheckRetransmitFails` | `checkRetransmit`, whose resend may end the connection and clear the map it iterates over (imclient.cpp:404) |
| `ReadyRead`, `HandleLogin`, `HandleAck`, `HandlePush`, `HandleSynced`, `HandleSync`, `HandleNote` | `onReadyRead` and `handleMessage` |
| `ServerReads`, `ServerLogsIn`, `Arrive`, `ServerPushes`, `ServerNotes` | what a client sees of the server: a login registers its connection before it is answered, and pushes may come in between; a message is taken over or refused, each copy by itself |

A message box runs an event loop inside a slot: timers fire and the connection may
end while `onReadyRead` still has to go on. `oneChatReceived` reaches nobody while
there is no `ChatWidget`: such a message is in the window and `unseen`. A send while
`myUid_` is -1, because the connection broke under the window, is refused by the
server (`named` has the others). Left out: heartbeats, the box of `networkError`, what
a broken connection leaves in `readBuffer_`, a `SYNC_RESP` above 64 KiB, which
`onReadyRead` takes for an invalid packet.

The project's README.md:49 says that resends back off exponentially; the code
resends every 3 s, and so does the model.

### Wire, ServerMessages, ClientMessages, Protocol: the generated code

A message on the wire is a sequence of tokens: field number, varint or length,
value. `ServerMessages` and `ClientMessages` say for each of the 17 messages what
the two generated sources write and read; the client's has has-bits, the
server's goes by default values. No message of `msg.proto` is nested in one that is
nested: a message is written and read by passes over its fields and tokens
(`Serialize`, `Parse`), what is inside it by passes of their own (`SerializeFlat`,
`ParseFlat`), and neither is recursive. `Protocol` sends an id of `Snowflake` through
all its journeys. Left out: bytes that cannot be cut into tokens, unknown fields
(which nobody reads), sizes, arenas, `MergeFrom`, reflection.

## 3. The runs

| Run | Checks | Distinct states |
|---|---|---|
| `timeline` | `CacheHoldsNewest`, `HitCoversUnread`, `SyncKeyCovers`, `AckedIsHeld` | 1,019,091 |
| `timeline_saving` | `RefusalHasCause`, `QueuedIsSettled` (liveness) | 55,024 |
| `timeline_poison` | violation of `AckedIsSaved` | |
| `push` | `NoOrphan`, `NothingDropped`; `PendingIsSettled` (liveness) | 174,344 |
| `push_giveup` | violation of `GiveUpCloses` (liveness) | |
| `session` | `PlacesAgree`, `FriendsTold`, `RefusedIsHarmless` | 1,974,187 |
| `ids` (module `Protocol`) | `IdTravels`, `SidesAgree`; action properties `IdsIncrease`, `NoIdTwice` | 47,803 |
| `connection` | `FlushIsDue`; `FallsOnlyInRace` (action); refinements `SendIsPipe`, `ReadIsPipe`; `PacketsArrive` (liveness) | 166,009 |
| `backend` | `StartedInOrder`, `WakeUpIsDue`, `ScanNeedsIdle`, `RequestsEnd` (liveness) | 115,648 |
| `reactor` | `NoStranger`, `ClosedIsTold`, `BacklogIsSeen`; `ShutWasIdle` (action); `SilentIsDropped`, `EndedIsClosed` (liveness) | 417,563 |
| `friends` | `OnePending`, `FriendsAsAnswered`, `AppliesShown`, `FriendsShown` | 996,072 |
| `client` | `SendingIsPending`, `BubbleIsRight`, `ShownOnce`, `KeyIsShown`; `SendingIsSettled` (liveness) | 1,270,713 |

Every property is stated in words above its definition. The type invariants of the
modules with a proof are theorems and not checked again.

### Bounds

* `timeline`: three messages over two nodes, two of them with one score, one score
  read as a smaller number, one message retransmitted, cache size 1, batches of 2, one
  crash: the cache overflows, batches are full and partial, copies meet in one batch
  and in two, and an older message waits on either node.
* `timeline_saving`: two messages with one id on two nodes, one retransmitted, one too
  long, one MySQL failure, one crash. `timeline_poison`: two users, whose messages
  share a batch.
* `push`: two connections of one user, so that the user can come back while the
  old connection is closing; one local and one remote message, the remote one too long
  for its column; one failure of MySQL; one resend before giving up. Messages that share
  an id are left to the theorem, which is for any ids. `push_giveup` has the code's
  limit of 3.
* `session`: three connections of one user on two nodes and one crash, enough for
  a login to overlap a close and a start and to be followed by another one.
* `ids`: one client, two worker ids, three sequence numbers, four milliseconds: the
  sequence wraps and the clock passes the old time again after a set-back. Words of
  16 and 256 values hold every id and have negative numbers of both widths.
* `connection`: a worker and the observer send, four packets of which one is too
  long, a kernel buffer of 3 cells, a header of 2, a `Buffer` of 3 with 2 cells
  more on the stack: writes stop inside a header, buffers fill, are moved and grow.
  `MixedLoads` sends much, receives much, or both.
* `backend`: two workers and the save thread, two requests, one of which needs
  `_pendingMutex`, a pool of 1 to 2 connections: fewer than threads, so that they
  wait, and the scanner meets an empty queue.
* `reactor`: two connections and two descriptors, one task each: numbers are reused
  while a task, a login or a push holds the old connection. One client sends and may go
  without a word; the other one only comes and closes, which is enough to take a number
  over.
* `friends`: two users, three requests, four inputs, one refused update; users and
  requests are interchangeable (symmetry; nothing there is a liveness property).
* `client`: one message out, two in, a window of 1, one resend, five inputs (what
  users and network do), each of which may come while a box is open. A pass that finds
  the entry too young to be resent (`MaxSkips`) changes nothing else, so none is needed.

`CHECK_DEADLOCK FALSE` stands in all runs but those of `Timeline`, where clients may
always sync again: elsewhere a behaviour ends when all connections, requests or
inputs are used, the clock is at its bound, or a process has stopped.

### Where code and documentation part

* `timeline_poison`: a retransmitted message makes its whole batch fail, with
  another user's acknowledged message in it (README.md:50, 53).
* `push_giveup`: at the retry limit the thread locks `_pendingMutex` twice and
  never comes to close the connection (chatservice.cpp:522).

The models allow some more such cases and say in a property where they begin: two
messages to one user whose handlers finish in the other order, or whose nodes save
them in the other order, let a sync key pass the smaller id (chatservice.cpp:766
against README.md:52, `SyncKeyCovers` with `disturbed`); two overlapping logins are
both let in (chatservice.cpp:191, `PlacesAgree` with `disturbed`); every client is
worker 1 (snowflake.h:62 against msg.proto:50), so that two messages may share an id:
MySQL then refuses a batch (`RefusalHasCause`) and the pending map has one entry for
both (`ShareId` in `NothingDropped`); a failed reconnection leaves the client's timers
stopped (imclient.cpp:371, `SendingIsSettled` with `unmade`); a write event set for a
connection that was just removed ends the server from a background thread
(`FallsOnlyInRace`), or a push before it is recorded (`thrown` in `NothingDropped`).
Four more go against a comment or the README:

* `zminscore` reads a score that is printed with an exponent as its first digits, so
  that every key but 0 passes for a hit, and what is no longer in the cache is not
  looked for in MySQL (Redis.cpp:256 against the comment at chatservice.cpp:731;
  `Misread` in `HitCoversUnread` and `SyncKeyCovers`). Redis 6, which README.md:75
  names, prints ids from 1e17 on like this; `redis:alpine` of docker-compose.yml is
  whatever is the latest.
* The sweep at a close erases an entry whose INSERT into `OfflineMessage` was refused
  (offlinemessagemodel.cpp:44 against the comment at chatservice.cpp:318; `refused` in
  `NothingDropped`). The message is still in the timeline.
* `getConnection` begins its timeout anew each time it is woken in vain
  (ConnectionPool.cpp:108 against the comment at 107; `Overtaken` in `RequestsEnd`).
* A push between the registration of a login and its answer is shown to nobody, and the
  sync after the login takes it for a duplicate (imclient.cpp:268, 342 against
  README.md:95; `unseen` in `KeyIsShown`).

A property that excepts such a case says that nothing else leads there; it does not
catch the case itself, and `hazards` in `PROJECT.json` says so at each.

### Fairness

`Timeline`: a started handler goes on (weak fairness per step): workers are
never cancelled and nothing in those steps waits for another thread for long.
The save thread of each node wakes at least once a second (`wait_for`, 1000 ms) and
loops.
Nothing is assumed of clients, of MySQL's success or of syncs.

`ReliablePush`: threads that need a mutex get strong fairness: they wait for it
where it is free again and again, since the retransmission thread sleeps 2 s
between passes. The retransmission thread's own steps and `CloseOffline` get
weak fairness, `RetxErase` strong, since it waits for `_connMutex`. Nothing is
assumed of clients and networks. `PendingIsSettled` excepts the time in which
the retransmission thread is giving up, which is where it stops for ever.

`Connection`: threads and the reactor run on, the network delivers while the link
is up, and the reactor gets `sendMutex_` if it is free again and again (strong
fairness of `WriteBegin`). The client's event loop calls `onReadyRead` for what has
arrived and the call comes to its end (weak fairness of `OnReadyRead`).

`Backend`: threads run, a `wait_for` ends by itself, a connection is given back, all
by weak fairness. Nothing says that a thread which waits for a connection gets one
before the others: `RequestsEnd` excepts a worker that is overtaken for ever
(`Overtaken`). A task of `Locking` ends only while no message was given up.

`Reactor`: the loop and the heartbeat thread run, tasks end while no message was given
up, time passes for a client that is gone, and no client sends for ever faster than
`onRead` reads (strong fairness of `ReadNothing`). Nothing is assumed of clients that
should acknowledge. After a give-up `Disconnect` may end in `stuck`, from which no
step leads: `SilentIsDropped` and `EndedIsClosed` except what hangs there.

`Client`: a connection is made or fails, the timer fires while it is there, and the
loop of `onReadyRead` goes on. Users and servers owe nothing: a box may stay open.

`Session`, `Snowflake`, `Protocol` and `Friends` check safety only.

## 4. The proofs

All constants are arbitrary under the named assumptions of the modules; no
bound of the runs is used, and sets need not be finite unless an assumption
says so (`MsgsAssumption`).

| Module | Theorems | Argument |
|---|---|---|
| `TimelineProofs` | `TypeCorrect`, `TimelineHoldsNewest`, `HitsCoverUnread`, `AckedIsHeldAlways`, `RefusalHasCauseAlways`, `SyncKeyCoversAlways` | An addition only adds newer ids, and a trim leaves `CacheCap` ids that are newer than each one it takes; so a key that reaches the oldest of the cached ids has everything newer in the cache. `Singles`: an id that only one acknowledged task has is in one place of one node, once, from which a refusal has a cause. `InOrder`: for an undisturbed user messages come to MySQL in the order of their ids, whichever node saves them (`Queued`), their scores differ and the timeline holds the largest (`Ranked`), and every answer is complete up to its largest id (`Syncing`). |
| `ReliablePushProofs` | `TypeCorrect`, `NoOrphanAlways`, `NothingDroppedAlways` | Who can be where: a push that has sent holds `_connMutex` and its receiver stays registered; the retransmission thread holds `_pendingMutex` from the scan on; a connection is registered only for its owner; one connection is closed at a time; a copy is on a wire, read or acknowledged only after it was forwarded (`OnlyForwarded`), and what is being given up is in the map until its INSERT was tried (`GivesUpPending`). |
| `SessionProofs` | `TypeCorrect`, `RefusedIsHarmlessAlways`, `PlacesAgreeAlways`, `FriendsToldAlways` | Only a connection that was let in is registered or logs its user off; one that is not there yet has no login. For the four places: `IInv` = `ConnsInv` (what a connection at each step of its login or close has done) and `UserInv(u)` for every `u` that is not `disturbed`: one connection of `u` at a time is between its query and its last notification (`OneAtATime`), and it says what the registration, the row, the route, the subscription and the last notification are, step by step (`EntryInv`, `RowInv`, `RouteInv`, `SubsInv`, `ToldInv`). |
| `ConnectionProofs` | `TypeCorrect`, `FlushIsDueAlways`, `FallsInRace`, `SendIsPipeAlways`, `ReadIsPipeAlways` | `Inv` = types of the server's side, who holds `sendMutex_` where (`Locks`), how far a close is (`Closing`), and that what waits has its wake-up also inside a call (`Woken`). For the pipes: cells are a `Stream` of packets if they are those packets' cells, one packet after the other, cut off somewhere. What the client has not handled of its buffer, the kernel, the holder's `rest` and `writeBuffer` joined is the whole stream of the packets accepted and not received, or, once the server has shut the link, a part of it from its start (`OutStream`); the contents of `buf`, `arrived` and `wire` joined are that of the packets asked and not handled (`InStream`). The lemmas `StreamStart`, `StreamMore`, `StreamPart` and `StreamCut` say that a packet cut off the front of a stream is its first one; the lemmas on `Buffer` say that `Appended`, `ReadFd` and `Retrieve` do to the contents what their names say, whether they compact, grow or neither. |
| `BackendProofs` | `TypeCorrect`, `StartedInOrderAlways`, `WakeUpIsDueAlways`, `OneHolderAlways`, `CountIsRightAlways`, `ScanNeedsIdleAlways` | A connection is on the queue once or held by one thread (`Exclusive`); `connectionCnt_` counts both, so an empty queue of which more than `InitSize` are counted means so many holders (`Counting`). A worker sleeps only if the queue is empty or a notification is due (`Wakeful`). |
| `ReactorProofs` | `TypeCorrect`, `NoStrangerAlways`, `ClosedIsToldAlways`, `BacklogIsSeenAlways`, `ShutWasIdleAlways` | A descriptor in `connections_` is that of its connection and no connection has two (`Owners`); epoll holds only descriptors that `connections_` has, and the connection the reactor is at has no other event in the batch (`Watches`); no number to be shut down stands for a connection that was not idle (`Spared`); whom a login or a push holds was accepted (`Registered`). |
| `ClientProofs`, of `Client` | `TypeCorrect`, `SendingIsPendingAlways`, `BubbleIsRightAlways`, `ShownOnceAlways`, `KeyIsShownAlways` | An entry of the pending map is open, has its bubble and ends with the connection (`Pending`); a message that is not settled, and whose connection did not break, is on its way or its answer is (`Answered`); an id that was shown is in the window or was evicted (`Windowed`); everything up to a key on its way was shown or came when there was no window (`Covered`). |
| `ClientProofs`, of `Snowflake` | `IdTypeCorrect`, `IdsIncreaseAlways`, `NoIdTwiceAlways` | The last id is composed of the last timestamp and the last sequence number; while a client waits, the counter has wrapped already, so the sequence number of the last id is `SeqSize - 1`. Composing is monotone in both parts (`ComposeLater`, `ComposeNext`). As long as no clock was set back, no id that a client gave lies beyond its clock, and none of the running process beyond its last id (`Fresh`). |
| `ClientProofs`, of `Protocol` | `MessagesComeThrough`, `ReadersAlwaysAgree`, `WritersAlwaysAgree`, `SidesAgreeAlways`, `IdTravelsAlways` | See below. |
| `FriendsProofs` | `TypeCorrect`, `OnePendingAlways`, `FriendsAsAnsweredAlways`, `AppliesShownAlways`, `FriendsShownAlways` | See below. |

`FriendsProofs` has four inductive invariants beside the types. Each of the
properties speaks of moments at which nothing is under way; the invariant says what
holds at each step on the way there.

* `PairsOpen`: as long as no two tasks for a pair overlapped, one request of the
  pair is open, and a task that is about to insert one is alone and finds none open.
* `Answered` and `Bonds`: an accepted request has a task, and either that task has
  still to insert a row of the friendship or fill the caches, or both rows and both
  cache entries are there; a row without its reverse has a task at `bindBack`, and a
  cache entry has its row. This needs `Addressed` (a task works on a request between
  the two people it names).
* `Here` and `Announcements`: `Here` says what a user has at each step of a login
  and a close: the route, the snapshot, the window, one `LOGIN_MSG_ACK` at most.
  `Announcements` says that an open request to a user who is here is in the window
  (or in the answer that will open it) or has a notification in a task, in the
  channel or in the inbox behind what opens the window (`Reach`); that it is in one of
  these places only, unless announced again; and that a request that was answered is
  in a window only while its answer is on the way to it (`Once`). The lemma
  `TokenStep` follows one notification through each step.
* `AllKnown`, `AllMade` and `AllRight`, for `FriendsShown`, as long as no row was
  refused. `Known`: who is mentioned to a window, in the channel, the inbox, the
  list or what a login or close has looked up, is linked to its user by a row.
  `Made`: a friend is in the list or in what the login has found, or a task or a
  message that will put it there is under way. `Right`: of everything on its way
  that sets the state of a friend in the list, the last one (`LastIn`) has the state
  that friend is in, or the friend will still tell its own (`WillTell`), or a task
  will still publish the friendship (`WillBind`). `FreshLost` and `ToldState` say
  that a friend does not change its state without one of these, the lemmas about
  `Agrees` what each kind of step does to the last message. What is excepted
  (`outdated`) is exactly where the last message was overtaken.

The theorems on `Protocol` are about all messages and not only those the run writes:
`MessagesComeThrough` is for each of the 17 types, any values of its fields (any
texts, any numbers of 32 or 64 bits, lists of any length) and either writer, and
`ReadersAlwaysAgree` for any row of tokens at all. The argument:

* a pass over tokens or fields is a function on `0..n`; that something holds along
  it is shown by induction, which `NatInductionOnSet` gets from the well-foundedness
  of `<` on the naturals (a set of counterexamples would have a least one);
* `ReadBack`: after the tokens of the first `k` fields the server's object has the
  values of these and the defaults of the others (`Upto`). `NumberBack` says that a
  number survives being written as 64 bits without sign and read in its own width;
* `ReadersAgree`: after every token the client's getters show the server's object
  (`View`, `Agreed`), although the client goes by has-bits: the bit of a nested
  message is set wherever there is one (`Object`);
* `WritesAlike`: both sides write the same tokens, so what one side reads of its own
  holds for the other. `ComesThrough` joins the three;
* all this is shown of any two schemas with the same fields in the same order whose
  accessors use the bits of the table (`SameMessage`); `SameTypes` shows that the 17
  messages are such.

`SidesAgreeAlways` and `IdTravelsAlways` then need only that what the run writes are
values of the messages (`FilledFits`, `IdFacts`), from the invariant of `Snowflake`.
They assume that a word of 32 bits holds more than 4 values (`WordsAssumption`: the
samples go up to 2), that ids are below the sign bit of an int64 (`IdsAssumption`: in
the code for 69 years after `kEpoch`), and that the empty text and the samples are
UTF-8 (`TextAssumption`, `SampleAssumption`).

Only model-checked, since the proof system does not reach liveness under fairness:
`QueuedIsSettled`, `PendingIsSettled`, `RequestsEnd`, `SilentIsDropped`,
`EndedIsClosed`, `SendingIsSettled`, `PacketsArrive`.

## 5. Plan

1. `Client` composed with `Timeline`, so that the answers of a sync are those of a
   real server; with it the size of a `SYNC_RESP`.
2. The friend cache of Redis as rows beside the table, with a write that fails.
3. `ping` and the reconnection of a MySQL connection in `ConnectionPool`.

### Not modelled

Registration (one `INSERT`), configuration files, hashing of passwords,
`benchmark.py` and the deployment files hold no state that several steps share.
The layout and the texts of the windows are presentation. Of the generated protocol
code the parts that decide what the peer reads are in `Wire` and the two message
modules; allocation, sizes, arenas and reflection are libprotobuf's contract and not
this program's. Inside hiredis, `SUBSCRIBE` and `UNSUBSCRIBE` are written to a
context that the observer thread reads, without a lock (Redis.cpp:74): what comes
of it is not known from this code. `PUBLISH` is built with `%s` (Redis.cpp:60), which
ends at a NUL byte: a text with one in it is cut there on its way to another node;
the models take a payload as one value.
