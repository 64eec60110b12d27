# blueboat-cpp in TLA+

blueboat-cpp is a room server over WebSockets with a client library. Clients
connect, create and join rooms, and send messages; an application supplies the
rooms' hooks. This directory holds TLA+ modules of its concurrent core, TLC
configurations that check them on small instances, and TLAPS proofs of the
results that matter most. Paths below are relative to `src/`.

## The system

| Part | Code | State | Operations |
|---|---|---|---|
| Server | `server/src/server.cpp` | `managing_rooms_`, `connections_`, `last_activity_by_session_`, `shutting_down_` | accept, handle_connection, create_new_room, handle_client_message, handle_client_disconnect, admin requests, shutdown |
| Room | `server/src/room.cpp` | `clients_`, `disposing_`, `auto_dispose_timer_`, two subscriptions, `on_join_listeners` | initialize, add_client, remove_client, allow_reconnection, dispose |
| Game lock | `server/include/blueboat/game_lock.hpp` | one mutex, a thread-local pointer to the guard that holds it | guard, and `current_lock()` for allow_reconnection |
| Publish/subscribe | `server/src/memory_pubsub.cpp` | `listeners_` | on, unsubscribe, publish (over a copy) |
| Callback list | `common/include/blueboat/common/callback.hpp` | `entries_` | add, remove, call (over the vector itself) |
| Scheduler | `common/src/scheduler.cpp` | `tasks`, `stopping`, the `cancelled` flags | set_timeout, TimerHandle::clear, the worker, the destructor |
| Storage, fetcher, game values | `server/src/memory_storage.cpp`, `room_fetcher.cpp`, `game_values.cpp` | key/value entries with an expiry | get, set, remove, fetch_keys; snapshots of rooms; game values |
| WebSocket connection | `common/src/ws_connection.cpp` | `closed_`, `pending_recv_`, `pending_messages_` | send, close, run_recv_loop |
| Admin interface | `handle_admin_request` in `server.cpp` | locals of the request's thread | GET rooms, GET a room by question and answer over publish/subscribe, game values, external messages |
| Client library | `client/src/client.cpp` | `running_`, `ws_`, `rooms_`, `event_handlers_`, `Room::joined` | join_room, create_room, disconnect, the manager thread |
| Wire formats | `sio_protocol.cpp`, `msgpack_codec.cpp`, `http.cpp`, `ws_handshake.cpp` | none | parse and build |
| Sockets, ids | `tcp.cpp`, `tls_socket.cpp`, `random_id.cpp` | file descriptors | system calls, cryptography |

**How they interact.** Each connection has a thread in `run_recv_loop`; one
more accepts, one runs the timers, and the application has its own. All server
handlers hold the game lock from beginning to end. A handler finds a room by
publishing on the channel of its id; a room that disposes calls back into the
server, which destroys it. Timers, subscriptions and suspended handlers hold raw
pointers to rooms. The client has one manager thread, and application threads
that share `mutex_` with it for short sections.

**What is hard.** (1) `Room::allow_reconnection`, called by an `on_leave` hook,
*unlocks* the game lock in the middle of `remove_client`, blocks on a future and
locks it again. In between, the room can be joined, emptied, disposed and freed.
(2) `publish` walks a copy of its listeners and so outlives them, while `Callback::call`
walks the vector itself while entries erase themselves from it. (3) The
scheduler reads a task's `cancelled` flag before it runs the callback without a
lock, so clearing a timer may come too late. (4) A lost wake-up in the scheduler or
in `allow_reconnection` stops a thread for good. (5) The client's
`join_room_shared` is three critical sections with a reconnect possible between
any two. (6) Double joins make two entries of which one is removed. (7) A hook that
throws leaves `dispose()` in the middle, and `disposing_` keeps it from being run again.
(8) `shutdown()` meets threads that nobody joins. (9) A room that can no longer be disposed
outlives its snapshot, whose id is then given to a room that destroys it. (10) Reads and
writes of sockets have no time limit, and some happen under a lock that others need. (11) Each side's idle timer runs only while
the other side is silent.
`PROJECT.json` lists each hazard at its line.

**What makes each part correct.** Server and room: the registry, the storage,
the heap and the subscriptions agree; nobody who has gone is in a room; clients
are told the truth; empty rooms end; rooms end after 2.5 h; suspended threads go
on with the right answer. Scheduler: callbacks run once, not early, in the
order of their due times, unless cleared in time; the worker does not oversleep
and the destructor returns. Client: its view of a room is the server's; a
connection enters a room once, and re-enters all of them after a loss;
`disconnect()` returns unless a peer is silent for ever. Lifecycle: so does `shutdown()`,
`run_forever()` returns after it, and the connections are told. Keep-alive: live clients stay, dead ones go. Formats: what is parsed is
what was built, and a handshake takes nothing of the frames behind it.

## Modules

| Module | What it is |
|---|---|
| `Listeners` | The listener vectors of `MemoryPubSub` and `Callback`: append, and erase-remove without changing the order of the rest. |
| `RoomServer` | The server's core: `server.cpp`, `room.cpp`, publish/subscribe, the registry and the timers as one composed state machine. |
| `RoomService` | What the server promises, without timers, subscriptions or objects: which rooms are open, who is in them, and who may close one when. |
| `Scheduler` | `scheduler.cpp`: heap of tasks, condition variable, worker, destructor. |
| `TimerService` | What a timer service promises. |
| `ClientLib` | `client.cpp`: manager thread, application threads, one server as the client sees it. |
| `Storage` | `memory_storage.cpp` with `room_fetcher.cpp` and `game_values.cpp`: expiry against the rooms' lives, read-modify-write of the game values. |
| `WsConnection` | `ws_connection.cpp` as `server.cpp` uses it: one connection, its receiving thread, other threads that send and close. |
| `ServerLifecycle` | `listen`, `accept_loop`, `run_forever`, `shutdown()` and `~Server`, with the detached connection threads. |
| `AdminInfo` | `GET /rooms/<id>`: a question to a room and its answer on a channel that all requests share. |
| `KeepAlive` | The client's pings and the server's idle check, in seconds. |
| `RoomFailures` | One room id whose hooks may throw. |
| `Packets` | `sio_protocol.cpp` and `msgpack_codec.cpp` as operators on values of every kind. |
| `Handshake` | `http.cpp`, the upgrade and the first frames as two byte streams; the frames are those of `Packets`. |
| `MCRoomServer`, `MCScheduler`, ..., one for each module that is run | The instances for TLC. |
| `ListenersProofs`, `RoomServerProofs`, `SchedulerProofs`, `StorageProofs`, `WsConnectionProofs`, `ClientLibProofs`, `HandshakeProofs` | Theorems and proofs about the module (`HandshakeProofs`: and `Packets`). |
| `ServerProofs` | Theorems and proofs about the four small models of the server, `ServerLifecycle`, `AdminInfo`, `RoomFailures` and `KeepAlive`. |

### RoomServer

A handler that holds the game lock throughout is one action. `JoinRoom` for
instance is all of handle_client_message, publish, `add_client`,
`client_has_joined`, the join listeners and the `on_join` hook. The exceptions
are the two places that let others in. After `allow_reconnection` the thread is
`"waiting"` and `Resume` is the rest of `remove_client`. A PLAYER_LEFT publish is
a sequence of `PublishNext`, one for each entry of the copy `todo[s]`, while `lock`
says which thread holds the game lock between them.

`members[r][s]` counts the entries of a session in `clients_`, because a double
join makes two. `obj[r]` tells a live room from a freed one that someone still points
to: `"dangling"` if `dispose()` destroyed it, `"replaced"` if the room that took its id did.
Using one sets `uaf` and ends the behaviour, since nothing can be
said of it. Rooms that nobody points to return to `"none"`, so the
finite set `Rooms` bounds the objects in existence at a time and not those ever made. A wait
is a record of what the closures of `allow_reconnection` share: promise,
timer, thread. The worker takes a task (`WorkerTakes...`) and runs its callback
(`WorkerRuns...`) in two steps with everything else between them.

A room whose `on_create` calls `dispose()` is *undying*: `disposing_` is set, so neither its timer
nor anything else disposes it, and it hears messages and holds clients. After three hours its
snapshot leaves the storage (`SnapshotExpires`, which `TimerIsOver` keeps from rooms whose timer is
still to come; `Storage` has the clocks behind this). Its id is then free, and
`Register` overwrites its entry in `managing_rooms_`: the object is destroyed while it is
subscribed, for a subscription that is destroyed does not unsubscribe. The next PLAYER_LEFT calls its
handler (`PublishNext`), and so does any message under its id (`MessageReachesFreed`). It comes before its
successor in the listener list, which is why `Hears` lets nothing through to that one.
The clients of the replaced room are not told, and the history variable `stranded` has their names.

Application hooks may do what `Hooks` lists: dispose in `on_create`, kick in `on_join`
and `on_message`, close the room in `on_message`, wait once in `on_leave`.
Values are abstract: a client is its session and its id; options, metadata,
payloads and messages without effect on membership are left out, a rejected join
among them (it changes nothing here; `RoomFailures` and `ClientLib` have it).
`told`, `twice`, `visited` and `stranded` are history variables: they record and guard
nothing.

### RoomService

What clients can rely on, in five variables: `open` ids, `lasting` rooms that nothing closes,
`occupants`, the `leaver` whose thread goes through its rooms, and who is `suspended` in which
room. Every closing has a cause of its own: `Close` and `Shutdown`, for hooks, timer and
shutdown, at no time while a session is leaving; `Leave`, which closes a room only if the
leaver was its last occupant; and `GoOn`, by which a session that was suspended closes the room
it waited in if that is empty, and touches no other. `Expire` frees the id of a lasting
room with everybody inside, and `Open` of that id begins with nobody. `RoomServer` maps the
variables as `Service` says: occupants are the sessions with entries in the room *managed* under the id, the
leaver is the holder of the game lock, the suspended ones are the threads of the waits in live rooms.

### Scheduler

The mutex is modelled by what it protects: `set_timeout` is a push and a later
notify, the worker's test and its sleep are one step (the condition variable
releases the mutex as it starts to wait), the destructor sets `stopping`, notifies
and joins. `NeverOversleeps` is the wake-up condition, and `Armed` the mapping to
`TimerService`. The application does not call `set_timeout` once the destructor
runs. Time is a counter up to `MaxTime`, as the order of due times is
all that matters.

### ClientLib

One action for each section of `mutex_` and for each frame. `call[o]` is the
application thread inside `join_room` or `create_room` for object `o` (check
`joined`, send, push), `joining` the manager's own call of the same function,
`todo` the rest of its walk over a copy of `rooms_`. A section that writes to the socket is two
actions (`CallLocks`, `CallSends`), with `mutex_` held in between: a peer that does not read keeps it,
and whoever needs it, `disconnect()` included, waits (`MutexFree`). `inbound` and `outbound` are
the connection's two directions; `ConnectionDies` and `disconnect()` lose what is
under way. The server answers in order, rejects joins (no such room, or a `can_client_join` that
throws) and removes clients. Rooms of other clients begin and end at any time, so an id that this client
is not in may or may not have a room, and which rooms exist is no part of the state. `asked` and
`missed` are history variables for the two races the
code has: an application thread that asks for a room that the manager (or an
earlier call) is asking for too, and a room that the walk over `rooms_`
came too early for. The safety properties hold apart from these, and TLC shows each exception to be
needed: without it the property fails. They do not catch these two races, then, but what would go wrong besides.
`DisconnectReturns` has the silent peer as its exception (`PeerIsSilent`), in the handshake or in a write.
Not modelled: application messages and pings,
the attempt counter (the backoff ignores it; `on_reconnect` also follows failed first
attempts), callbacks that call the client from the manager thread.

### Storage

An entry is a value and the time it expires, which reading does not renew. A
room's clock is its own `auto_dispose_timer_`: the room is `"live"` until then, or
`"undying"` if its `on_create` called `dispose()`, which makes the timer do nothing.
`Tick` lets the timer be late by `Lateness`, and `TimesAssumption` says that the sum stays
within the time to live: 2.5 h and 3 h leave the worker half an hour.
`GameValues::set` is two steps, `SetReads` and `SetWrites`; hooks and the admin
interface call it under the game lock, the application's threads need not. `latest`
and `overlap` are history variables: `NoUpdateIsLost` promises what the code can keep,
that updates last unless a call outside the lock overlapped another.
What `Room` does besides is `RoomServer`'s; its `stored` is `FetchKeys` here without time, and its
`TimerIsOver` what `SnapshotOutlivesRoom` says.

### WsConnection

`game` and `io` are the holders of the game lock and of `io_mutex_`. A sender is
`SenderFinds` (game lock and `connections_`), `Enter` (`io_mutex_`) and
`Write`, which waits for room in the send buffer. `pc` is the receiving thread: it reads a
chunk, parses it under `io_mutex_`, dispatches without it, and ends; its handlers take the
game lock, may send, and may give it up in between (`HandlerWaits`, the
`allow_reconnection` of `RoomServer`). Its own uses without the game lock are the
greeting and `on_idle`'s close. Messages are numbers in the order of the peer, 0 is a close frame,
after which wslay parses nothing (`CloseAt`, `Parsed`);
wslay's framing and masking are left out, as is TLS.
`ws_connection.cpp:96` is never true on the receiving thread, which alone sets `closed_`.

### ServerLifecycle

`sd` is the next step of `shutdown()`, called once, by another thread or by the
destructor; `main` and `acceptor` are where the other two threads stand. With
`Tls` the handshake runs on the accept thread, which `shutdown()` then waits for, as long as the peer likes.
`CloseListening` shuts the socket, which is what wakes the accept thread. `conn[c]`
follows a peer from the backlog to the end of its thread, and `entries` are the
keys of `connections_`. A destructor that finds another thread inside `shutdown()` returns at once and
destroys what that thread uses: `main` is `"wrecked"`, and nothing is said of what follows.
`late` and `missed` are history variables for the two gaps the code has: a
connection whose thread has started and not registered when `shutdown()` walks
`connections_`, and a notification between the main thread's test and its wait, which
`run_forever_mutex_` would exclude if `shutdown()` took it. Without these two exceptions the
properties fail. (That a thread's registration comes after the walk is possible only
because nobody joins it.) A connection whose entry a Disconnect packet has erased is not reached either.

### AdminInfo

A request is the five sections of the code: subscribe and ask, wait, take the lock
and unsubscribe, answer. A publish calls its handlers before it returns, so the
room's answer, heard by every listening request, is part of `Ask`. Clients and the admin interface
publish under any name they are given, so the channel has other publishers:
`PublishMessage` is a `sendMessage` or an `external-message` with the channel's name, and a
request for a room of that name is itself heard as an answer (`IsHeard`). An answer is the id of the room that gave
it, or `Channel` if no room did. `crossed` are the requests that
listened while another room was asked for, `disturbed` those that listened while a message
came; `AnswerIsRight` allows a wrong answer to these alone, and to the latter the message only. (Other
names that are no room's have no listeners, but for PLAYER_LEFT's: messages under it are left out.)

### KeepAlive

Time is in seconds, as ages since what the code remembers. A read that times out
(`SO_RCVTIMEO`, one second) runs `on_idle`; a read that does not resets the
second. So a client that hears something every second never runs its `on_idle`
and never pings: `starved` records that its `on_idle` came later than `Timeout`
less twice the `Delay`, and `LiveClientIsKept` holds up to exactly that bound (with one second
more TLC finds a live client closed). A message's time is stored before the read that follows it.

The server's receiving thread is in full: what has arrived (`inbox`) is read at once
(`ServerReads`); bytes that complete no message are dropped into wslay's buffer without a new
`last_activity` (`DropFragment`), a message's time is stored once the game lock is free
(`TakeMessage`), and its handler may take any time (`HandlerReturns`). `undisturbed` is
the time the thread has only read and timed out: while fragments or handlers keep it
short, the idle check does not come. The client's
loop is simpler: its handlers and the locks it takes count as data that it hears.

### RoomFailures

One room id and the objects that follow one another under it. Each step is a handler under the
game lock; `Room::dispose` and `remove_client` are sets of outcomes, one for
every hook that may throw on the way. Where nobody catches (a timer, a message, the end of a
connection) the process ends. A member may ask again: it is rejected and stays, or gets a second
entry (`doubled`). `aborted` and `undying` are history variables that name the rooms nothing
disposes any more: a `dispose()` that an
`on_leave` or `before_dispose` hook left cannot be repeated, since `disposing_` stays set, and one
that `on_create` called keeps every later one from running. Such a room outlives its snapshot
(`SnapshotExpires`) and is destroyed by the next room under its id (`DestroyLeftover`); `dangling` says that
subscriptions of it are left, and `replaced` that this happened to such a room, which
`FailuresLeaveNoHalfRoom` says is the only kind. `errorInside` are the members who were told of an error and are inside, for
they were when they asked, or an `on_join` threw after they had been entered.
Waiting hooks are `RoomServer`'s.

### Packets and Handshake

`Packets` has the values (JSON values two levels deep), the builders and the parser, as
recursive functions. `Handshake` puts the frames behind the HTTP heads into two streams of
units, cut anywhere by the reads. `HeadReads` is the one byte that both sides read
at a time. A head is told apart by what follows it (`kind`: an upgrade, a refusal, a
body, or no end at all, which the limit of 64 KiB must stop). The frames handled are compared with
`ServerMeans` and `ClientMeans`, written down independently of the parser; `Canonical` says
which numbers are the same to nlohmann's `==`. Only peers that keep to the protocol send; BIN and EXT
objects and malformed packets are left out.

## Runs

| Run | Question | Instance | States |
|---|---|---|---|
| `room_members` | Do registry and storage agree with the rooms' lives; who is in a room, and what was each client told? | two sessions of one client, two entries each, two rooms, two ids, one wait, all four hooks | 1,612,010 |
| `room_reconnect` | Does every wait get one answer, does every empty room end or have a thread waiting, which freed rooms are still called and which can be used, does the server implement `RoomService`? | three sessions of two clients, two waits, hooks `dispose`, `wait` | 861,785 |
| `room_liveness` | Do suspended threads, closed connections and rooms end? | two sessions of two clients, one wait | 26,032 |
| `scheduler` | Does the worker oversleep, does it implement `TimerService`, does the destructor return? | three timers, delays that tie and overtake | 257,166 |
| `client` | What does the client believe after reconnects, kicks, rejections and calls in between, and does `disconnect()` return? | two room objects, two ids, two connections | 846,404 |
| `storage` | Does the snapshot outlive the room, is an id given twice, is an update lost? | two rooms, two keys, two calls under the game lock and one outside, four ticks | 1,112,070 |
| `ws_connection` | Does anybody use a connection that is gone; are all messages handled, in order; are the two locks waited for in a circle; is a closed connection cleaned up? | two senders, two messages, one frame of buffer | 15,790 |
| `server_lifecycle` | Does `shutdown()` reach every connection; do it and `run_forever()` return? | three connections, TLS | 108,594 |
| `admin_info` | Whose answer does a request get; does its listener end with it? | three requests, two room ids, the channel's own name | 1,862,564 |
| `keep_alive` | Is a live client ever closed as idle; how long does a silent one stay? | 25 s, 5 s, polls of 1 s, a delay of 1 s | 1,506,186 |
| `room_failures` | What does a throwing hook leave? | three clients, two entries each | 12,456 |
| `handshake` | Are frames lost or changed; does a handshake end? | heads of three units, bodies of three, frames of two, values of every kind | 105,293 |

The type invariants hold in all of these instances; they are parts of
the inductive invariants of the modules with proofs, and not properties of these runs.

Every property has a mutant in `PROJECT.json`: a plausible bug in a mapped
definition that makes TLC find the property violated. The variants stand in the
modules under "Plausible bugs".

**Bounds.** The counts are of states up to symmetry: room objects, waits, ids and the two
sessions of one client are interchangeable in the runs without liveness, and the client makes its room
objects in a fixed order. Two rooms let a PLAYER_LEFT copy outlive one of its rooms and let an
id be used again. Two sessions of one client are the least for a rejoin while
the old session waits, a third session keeps a room open meanwhile. Two waits
make one listener erase itself in front of another. Two rooms and two ids are also enough for an undying room to be replaced by
another, and its object to be used. `MaxEntries` 2 allows a double
join; elsewhere it is 1, so that joining twice is left to `room_members`. For the
scheduler three timers let one be running, one be due and one be pushed. For the
client two connections are one loss with a complete recovery; a third object
changes nothing (checked once with one id and without liveness). Four ticks are a
room's whole life, an expiry and a second life under the same id. A buffer of one frame blocks
every second write. Three connections let one be in the handshake, one started and one
registered when `shutdown()` walks. Three requests let two cross a third. The keep-alive's times
are the program's; ages are cut off where nothing depends on them any more. Three clients let an
`on_leave` hook throw with one client removed before and one left. Two units are the least for a frame
that a read cuts. Deadlock is not checked: all
connections may have ended, and a used freed room ends the behaviour.

**Fairness.** `RoomServer`: the thread that holds the game lock goes on (WF). The worker
pops a due task in the end since it takes the earliest one (SF), and a thread
that wants the game mutex gets it in the end (SF): `std::mutex` does not
promise that, so it is an assumption. An `on_leave` hook waits at most once in a call.
`Scheduler`: its worker and the thread in the destructor run (WF), time passes,
a pushing thread gets to its notify. `WsConnection`: threads inside a mutex run on (WF), those that wait for one get it in
the end (SF, the same assumption), a hook's wait ends, and the peer reads what it is sent: without this
nothing holds, since a write blocks under both locks. `Handshake`: both sides' threads run (WF).

In `ClientLib` and `ServerLifecycle` the peers owe nothing, and what blocks on them need never end: no
socket of the code has a time limit but the one that polls. `ClientLib`: the manager, the thread in
`disconnect()` and a call that writes to a dead connection run on (WF). `ServerLifecycle`: the main thread, the
thread in `shutdown()` and the accept thread run on (WF) where they wait for nobody outside, and `on_dispose_`
returns. The properties name what this leaves open. `DisconnectReturns` excepts a manager for ever in the
handshake and a write for ever under `mutex_` (`PeerIsSilent`). `ShutdownReturns` excepts a TLS handshake that
never ends, a walk that never ends (`WaitsForPeer`), and a Server destroyed under it (`Wrecked`); `RunForeverReturns`
the notification that comes too early (`missed`). Otherwise clients, peers and applications owe nothing.

## Proofs

- `ListenersProofs`: facts about erase-remove for vectors of every length: what is
  left, that order and distinctness survive, how it commutes with append.
- `RoomServerProofs`, first part: `TypeCorrect`, `RegistryAgrees`, `SubscribersCorrect` and
  `LifetimeBounded` from one inductive invariant, `RegistryInv`. The registry alone is
  not inductive: `Dispose` frees what `managing_rooms_` holds under a room's id, so the
  freed object is the disposing one only if ids, subscriptions and timers agree
  too. `LifetimeIsBounded` is a part for a reason of its own: without it a snapshot could expire, and the
  id be given to another room, while the first can still be disposed. `WakeupNotLost` adds that the worker's callback and the timers' states agree
  (`"popped"` exactly while the worker holds it). `PromiseNeverReset` is an action property of each
  wait, proved step by step (`WaitStep`).
- `RoomServerProofs`, second part: `NoGhosts`, `EmptyRoomsAwaited` and `ClientViewRight` from
  `MembersInv`. A handler is a chain of partial results, so its core, `HandlerInv`, is an
  invariant of such a result rather than of the state, and each part of a handler (`DisposeEffect`, kicks, joins,
  removals) is shown to keep it. `ThreadsInv` says that one thread at a time publishes and that the game
  lock is its. `ClosingReachesRooms` is why no ghost stays: a session that leaves is ahead of every
  room it is in, in the rest of its copy of the subscribers. `NewHasNoEntry` is why a disposed room
  takes no entry with it. `UseAfterFreeExposed` needs `ExposureInv` besides: whatever may step on a freed
  room is one of the pointers that keep it `"dangling"`, or a subscription of a `"replaced"` one.
  `ServerImplementsRooms` is the refinement of
  `RoomService`: a handler maps to one abstract step or to none. That a resumed thread closes nothing but the
  empty room it waited in needs the suspended threads' rooms to be those of `managing_rooms_`, and that a room which is not
  disposing has its snapshot.
- `SchedulerProofs`: `SchedulerInvariant` (types, at most one queued task for a call,
  the wake-up condition), `WorkerNeverOversleeps`, and `SchedulerImplementsService`: initial
  states and steps map to those of `TimerService` under `Armed`.
- `StorageProofs`: `SnapshotsOutliveRooms` and `LiveRoomsAreNotReplaced` from `SnapshotInv`,
  which ties a live room's due time to its snapshot's expiry and to the clock; `UpdatesAreNotLost` from
  `ValueInv`: without an overlap at most one call is inside, and what it has read is what is
  stored.
- `WsConnectionProofs`: `GoneConnectionIsUnused` from `UseInv`: a sender at the connection has the
  game lock and an entry that stands, so the close handler cannot have passed. `MessagesInOrder`
  from `PipeInv`, which sees the handler, the batch, the chunk and the socket as the stages of one pipeline: the
  numbers run on through all four (`OrderInv`), only some stages hold anything at each `pc`
  (`StageInv`), and the close frame is the last frame of all, so what wslay drops behind it is nothing.
- `ClientLibProofs`: `EntersARoomOnce`, `RejoinsRooms` and `ViewAlwaysRight` from `ClientInv`; steps that only take `mutex_` are `Quiet`, and no part sees them. Its
  parts are named for what they exclude: an entry, a `joinRoom` under way and whoever has still to ask for the
  room exclude each other (`OnceInv`); `joined` is true only by word of this connection (`TruthInv`);
  the last news of a room under way is right, and if there is none `joined` is (`ViewInv`); a room
  once asked for is entered or about to be (`RejoinInv`). They need the manager's phases (`PhaseInv`), that
  objects with handlers and ids agree (`ObjectInv`), and that a creation is answered once (`CreateInv`).
- `ServerProofs`, on four models that share nothing (so three of them have names of their own for
  their types, initial states and steps: `InfoSpec`, `FailuresSpec`, `KeepAliveSpec`):
  - `ShutdownReaches` from `LifeInv`. `PhasesInv`: once the accept thread is joined, it has ended, so that
    nobody is accepted after the walk. `ReachedInv`: after the walk a thread that has started and not
    registered is late already, and a served connection that has its entry was shut or is late.
  - `AnswersAreRight` and `ListenersEndInTime` from `InfoInv`. A request is among the listeners exactly from its
    question to its unsubscribing (`ListeningInv`); it has heard an answer if its room was there when it
    asked, one of another room only if it was crossed, and a message only if one came (`HeardAnswersInv`);
    what it sends is what it heard (`SentInv`).
  - `NoHalfRoomIsLeft` and `ErrorsAreTrue` from `FailuresInv`. `Disposed` sums up what any of the
    throwing hooks makes of `dispose()` in four cases. The invariant adds only that an object which is not
    kept is none at all: otherwise the history of its failed `dispose()` would be forgotten while its id is taken.
    That only undisposable rooms are destroyed while they are heard follows: of any other the id is free when it hears nothing.
  - `LiveClientStays` and `SilentClientGoes` from `AliveInv`, for all intervals, timeouts, polls and
    delays within `TimesAssumption`. A poll leaves the last ping less than an interval back (`PingInv`), and the
    server's silence is at most a delay ahead of it, or ahead by the age of the ping under way (`HeardInv`),
    unless a message is read whose time is not yet stored (`Pending`);
    together they stay a second below the server's limit. `LimitInv` says what each poll leaves behind: a
    connection within the limit, or a read that data has begun since.
- `HandshakeProofs`, first part: `RoundTrip`, for values of every kind over any texts, numbers and keys.
  The recursion of `pack_json`, `unpack_object` and `Canonical` has a solution since values are two levels
  deep: three rounds of it reach a fixed point (`PackUnfolds`, `UnpackUnfolds`, `CanonicalUnfolds`). Then
  every frame of either side parses to what it means (`ServerFrameMeans`, `ClientFrameMeans`).
- `HandshakeProofs`, second part: `NothingLost` and `MeaningKept` from `HandshakeInv`, for heads,
  bodies and frames of any length. On an upgraded connection both directions are the same known sequence, `Stream`:
  a head that is accepted, then the frames. `Slice(m, n)` is a piece of it, and the lemmas on slices
  (`SliceConcat`, `SliceSplit`, `ParsedSlice`) are about every sequence the two sides hold. `UpgradeInv`
  says where each side stands: in the head at the unit it has counted, or with whole frames handled, a
  piece waiting and the rest under way (`Carried`). It needs that a refusal never reads as an
  acceptance (`RefusalInv`), and `PhasesInv`: while the client of an upgrade is there, the server is too.
  `MeaningInv` holds because the last frame's data is chosen as it is sent, when none of it can
  have been handled.

Each inductive invariant is one that TLC has also checked on the run's instance, types over infinite sets apart where it cannot. The proofs also sharpened
two properties: `FailuresLeaveNoHalfRoom` holds in the last state of a process that an exception ends too, and
`SilentClientIsClosed` strictly.

The assumptions are those in the modules: sessions have client ids, the null
values are not among the values, no room has the REQUEST_INFO channel's name for its id (ids are generated; an application
that chooses them must not choose this one), bounds are numbers, a room's life with its
timer's lateness is within the time to live, a frame's delay is less than the ping interval and
a poll with two delays less than the timeout, a head fits the limit with its blank line, bodies and
frames are not empty, and "id" is a text. Every safety property of every run is proved. Model-checked only: all
liveness, that is `SuspendedThreadResumes`, `ClosedConnectionEnds`, `EveryRoomEnds`, `EveryTimerFires`,
`DestructorReturns`, `DisconnectReturns`, `EveryUseEnds`, `ClosedConnectionReturns`, `ShutdownReturns`,
`RunForeverReturns` and `HandshakeEnds`: leads-to under fairness needs ENABLED, out of the prover's reach. Of
`ImplementsRoomService` and `ImplementsTimerService` the safety part is all there is. `RoundTrip` for values of every
depth would need induction over data, which is out of reach too.

## Not modelled

System calls, cryptography and random ids: the modules that use a socket say what read, write,
accept and shutdown may do. OpenSSL's object, which one thread reads and another
writes without a common lock. Of HTTP the text of heads, the limit on bodies and the query; the
digest of the upgrade. Packets of peers that do not keep to the protocol. Of
the admin interface authentication and the listing of rooms. The application's `register_room` and
`create_room` and the server's queries. `Callback` on its own: its re-entrant use, where it bites, is
`RoomServer`'s `Called` and `Overruns`; that nothing protects the client's lists from
two threads is a data race and not a state. `shutdown()` called from a signal handler. The examples are
users of the library.

## Plan

1. Done: `RoomServer` with `RoomService`, `Scheduler` with `TimerService`, `ClientLib`, `Storage`,
   `WsConnection`, `ServerLifecycle`, `AdminInfo`, `KeepAlive`, `RoomFailures`, `Packets` with `Handshake`.
2. Done: proofs of every safety property that the runs check, with both refinements.
3. Open: liveness is checked on the instances only. Modelling that could follow: the data
   races on the client's lists, OpenSSL's object under two threads, packets that break the protocol.
