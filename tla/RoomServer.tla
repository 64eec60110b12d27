------------------------------ MODULE RoomServer ------------------------------
(***************************************************************************)
(* The room server of blueboat-cpp: Server (server.cpp), Room (room.cpp),  *)
(* MemoryPubSub, RoomFetcher and the one worker of the Scheduler, as the   *)
(* threads that share the game lock (game_lock.hpp) see them.              *)
(*                                                                         *)
(* One thread runs each connection (Server::handle_connection), one runs   *)
(* the timers (Scheduler::Impl::run), and the application's own threads    *)
(* call create_room and shutdown.  A handler holds the game lock from its  *)
(* first to its last line, so it is one action here, with two exceptions   *)
(* that give the server all of its interleavings:                          *)
(*   - Room::allow_reconnection, called by an on_leave hook, unlocks the   *)
(*     game lock, blocks on a future and locks it again;                   *)
(*   - MemoryPubSub::publish calls the handlers of a COPY of its listener  *)
(*     list, and each PLAYER_LEFT handler may reach allow_reconnection.    *)
(*     todo[s] is what is left of that copy, and lock says who holds the   *)
(*     game lock between two handlers of it.                               *)
(*                                                                         *)
(* Rooms are heap objects: managing_rooms_ owns them, and everything else  *)
(* (pub/sub handlers, timer callbacks, suspended on_leave calls) holds a   *)
(* raw pointer.  Touching a freed one is undefined behaviour: it puts the  *)
(* room in uaf, after which the model says nothing and takes no step.      *)
(*                                                                         *)
(* A room whose on_create called dispose() is undying: nothing disposes it *)
(* again, and it hears and holds clients until its snapshot expires and a  *)
(* new room takes its id, which destroys it while it is subscribed.        *)
(***************************************************************************)
EXTENDS Naturals, Sequences, FiniteSets, Listeners

CONSTANTS
  Sessions,      \* session ids, one connection thread each
  ClientIds,     \* persistent client ids
  IdOf,          \* the client id that each session connected with
  RoomIds,       \* room ids, the keys of the storage and of managing_rooms_
  Rooms,         \* bound: Room objects in existence or pointed at
  Waits,         \* bound: calls of allow_reconnection that are not forgotten
  MaxEntries,    \* bound: entries of one session in one room's clients_
  Hooks,         \* what an application's hook may do besides return: on_create
                 \* may "dispose", on_join and on_message may "kick"
                 \* a client, on_message may "close" its room, on_leave may "wait"
  NoRoom, NoThread

ASSUME SessionsAssumption == IdOf \in [Sessions -> ClientIds] /\ NoThread \notin Sessions
ASSUME RoomsAssumption == NoRoom \notin Rooms
ASSUME BoundsAssumption == MaxEntries \in Nat
ASSUME HooksAssumption == Hooks \subseteq {"dispose", "kick", "close", "wait"}

VARIABLES
  obj,           \* Room objects: "none", "live", "dangling": destroyed while a raw
                 \* pointer to it is left, or "replaced": destroyed by the room
                 \* that took its id, while it is subscribed
  rid,           \* Room::room_id of each live object, and of replaced ones
  disposing,     \* Room::disposing_ of the same
  members,       \* Room::clients_, as the number of entries of each session
  autoTimers,    \* rooms whose auto_dispose_timer_ is armed
  joinListeners, \* Room::on_join_listeners: the waits listening, in order
  stored,        \* room ids that the storage lists: their snapshot has not expired
  managed,       \* Server::managing_rooms_
  msgSubs,       \* rooms subscribed to their own room id
  leftSubs,      \* rooms subscribed to PLAYER_LEFT, in subscription order
  connections,   \* Server::connections_
  pc,            \* what each connection thread is doing
  todo,          \* listeners_copy entries that a publish has still to call
  then,          \* where a thread goes when its handler returns
  lock,          \* the thread that holds the game lock between two actions
  wait,          \* the shared state of each allow_reconnection call
  worker,        \* the callback the Scheduler's worker has popped
  uaf,           \* the freed room that has been used, if one has
  told,          \* history: room ids each connected session was last told it is in
  twice,         \* history: <<s, r>>, r live, where s entered r's clients_ again
  visited,       \* history: live rooms that have had a client
  stranded       \* history: <<s, i>> where s was in a room of id i that was replaced

roomVars    == <<obj, rid, disposing, members, autoTimers, joinListeners>>
serverVars  == <<stored, managed, msgSubs, leftSubs>>
threadVars  == <<pc, todo, then, lock>>
historyVars == <<told, twice, visited, stranded>>
vars == <<roomVars, serverVars, connections, threadVars, wait, worker, uaf, historyVars>>

-------------------------------------------------------------------------------

Idle == [kind |-> "idle"]
Workers == [kind : {"idle"}] \cup [kind : {"auto"}, room : Rooms]
                             \cup [kind : {"reconnect"}, wait : Waits]

(* A wait: the thread blocked in future.get(), the room it is in, the      *)
(* client id awaited, the value of the promise, and its timer.             *)
NoWait == [thread |-> NoThread, room |-> NoRoom, id |-> NoThread,
           result |-> "none", timer |-> "unset"]
WaitRecords ==
  [thread : Sessions \cup {NoThread}, room : Rooms \cup {NoRoom},
   id : ClientIds \cup {NoThread}, result : {"none", "true", "false"},
   timer : {"unset", "armed", "cleared", "popped", "done"}]

RoomTypeOK ==
  /\ obj \in [Rooms -> {"none", "live", "dangling", "replaced"}]
  /\ rid \in [Rooms -> RoomIds \cup {NoRoom}]
  /\ disposing \in [Rooms -> BOOLEAN]
  /\ members \in [Rooms -> [Sessions -> Nat]]
  /\ autoTimers \subseteq Rooms
  /\ joinListeners \in [Rooms -> Seq(Waits)]

ServerTypeOK ==
  /\ stored \subseteq RoomIds
  /\ managed \in [RoomIds -> Rooms \cup {NoRoom}]
  /\ msgSubs \subseteq Rooms
  /\ leftSubs \in Seq(Rooms)

ThreadTypeOK ==
  /\ connections \subseteq Sessions
  /\ pc \in [Sessions -> {"new", "recv", "publish", "waiting", "done"}]
  /\ todo \in [Sessions -> Seq(Rooms)]
  /\ then \in [Sessions -> {"recv", "done"}]
  /\ lock \in Sessions \cup {NoThread}
  /\ wait \in [Waits -> WaitRecords]
  /\ worker \in Workers
  /\ uaf \subseteq Rooms

HistoryTypeOK ==
  /\ told \in [Sessions -> SUBSET RoomIds]
  /\ twice \subseteq Sessions \X Rooms
  /\ visited \subseteq Rooms
  /\ stranded \subseteq Sessions \X RoomIds

(* The types of the variables.  (clients_ never loses an entry that it     *)
(* does not have.)                                                         *)
TypeOK == RoomTypeOK /\ ServerTypeOK /\ ThreadTypeOK /\ HistoryTypeOK

Init ==
  /\ obj = [r \in Rooms |-> "none"]
  /\ rid = [r \in Rooms |-> NoRoom]
  /\ disposing = [r \in Rooms |-> FALSE]
  /\ members = [r \in Rooms |-> [s \in Sessions |-> 0]]
  /\ autoTimers = {}
  /\ joinListeners = [r \in Rooms |-> <<>>]
  /\ stored = {}
  /\ managed = [i \in RoomIds |-> NoRoom]
  /\ msgSubs = {}
  /\ leftSubs = <<>>
  /\ connections = {}
  /\ pc = [s \in Sessions |-> "new"]
  /\ todo = [s \in Sessions |-> <<>>]
  /\ then = [s \in Sessions |-> "recv"]
  /\ lock = NoThread
  /\ wait = [w \in Waits |-> NoWait]
  /\ worker = Idle
  /\ uaf = {}
  /\ told = [s \in Sessions |-> {}]
  /\ twice = {}
  /\ visited = {}
  /\ stranded = {}

-------------------------------------------------------------------------------
(***************************************************************************)
(* Helpers                                                                 *)
(***************************************************************************)

(* No thread is between two handlers of a publish: the game lock is free.  *)
LockFree == lock = NoThread

Present(m, r) == {s \in Sessions : m[r][s] > 0}

(***************************************************************************)
(* Plausible bugs: each is a variant of a definition below, none of them   *)
(* is used by the specification, and each breaks a property.               *)
(***************************************************************************)
AnyId(id) == TRUE
ExpiresAnyTime(r) == TRUE
NeverArmed(r) == UNCHANGED autoTimers
UnsubscribeMessagesOnly(D) == msgSubs' = msgSubs \ D /\ UNCHANGED leftSubs
FirstListenerOnly == IF leftSubs = <<>> THEN <<>> ELSE <<Head(leftSubs)>>
EraseAllOfClient(m, r, c) ==
  [m EXCEPT ![r] = [s \in Sessions |-> IF IdOf[s] = IdOf[c] THEN 0 ELSE @[s]]]
TellNothing(t, s, r) == t
ResolveIfBack(result, back) == IF result = "none" /\ back THEN "true" ELSE result
ResolveAgain(result, back) == IF back THEN "true" ELSE "false"

(* Raw pointers to room r outside the maps and the listener lists, which   *)
(* dispose() leaves.                                                       *)
Referenced(r) ==
  \/ \E w \in Waits : /\ wait[w].room = r
                      /\ \/ wait[w].timer \in {"armed", "popped"}
                         \/ wait[w].thread # NoThread
  \/ worker = [kind |-> "auto", room |-> r]
  \/ \E s \in Sessions : r \in Elements(todo[s])

(* Calling a handler, or returning from a wait, uses the room object.      *)
Use(r) == uaf' = {q \in Rooms : q = r /\ obj[q] # "live"}

(* What the body of a handler has computed so far, handed from the call    *)
(* that changed it to the calls that follow.                               *)
Current == [members |-> members, wait |-> wait, listeners |-> joinListeners,
            told |-> told, twice |-> twice, visited |-> visited]

(* send_frame_to_client: a frame reaches a session only while it is in     *)
(* connections_.  t is told before the frame.                              *)
TellJoined(t, s, r) == IF s \in connections THEN [t EXCEPT ![s] = @ \cup {rid[r]}] ELSE t
TellRemoved(t, s, r) == IF s \in connections THEN [t EXCEPT ![s] = @ \ {rid[r]}] ELSE t

(* The two subscriptions of a room.                                        *)
Subscribe(r) == msgSubs' = msgSubs \cup {r} /\ leftSubs' = Append(leftSubs, r)
Unsubscribe(D) == msgSubs' = msgSubs \ D /\ leftSubs' = Without(leftSubs, D)

(***************************************************************************)
(* Room::dispose of every room of D whose disposing_ is not yet set, and   *)
(* Server::on_room_disposed, which destroys the object managed under that  *)
(* id.  on_leave hooks that run inside it cannot wait: allow_reconnection  *)
(* returns false once disposing_ is set.                                   *)
(***************************************************************************)
Dispose(D, h) ==
  LET now   == {r \in D : obj[r] = "live" /\ ~disposing[r]}
      ids   == {rid[r] : r \in now}
      freed == {managed[i] : i \in ids} \ {NoRoom}
  IN /\ wait' = h.wait
     /\ disposing' = [r \in Rooms |-> (disposing[r] \/ r \in now) /\ r \notin freed]
     /\ members' = [r \in Rooms |-> IF r \in now THEN [s \in Sessions |-> 0] ELSE h.members[r]]
     /\ told' = [s \in Sessions |->
                   IF s \in connections
                   THEN h.told[s] \ {rid[r] : r \in {q \in now : h.members[q][s] > 0}}
                   ELSE h.told[s]]
     /\ autoTimers' = autoTimers \ now
     /\ stored' = stored \ ids
     /\ Unsubscribe(now)
     /\ managed' = [i \in RoomIds |-> IF i \in ids THEN NoRoom ELSE managed[i]]
     /\ obj' = [r \in Rooms |-> IF r \in freed
                                THEN IF Referenced(r)' THEN "dangling" ELSE "none"
                                ELSE obj[r]]
     /\ rid' = [r \in Rooms |-> IF r \in freed THEN NoRoom ELSE rid[r]]
     /\ joinListeners' = [r \in Rooms |-> IF r \in freed THEN <<>> ELSE h.listeners[r]]
     /\ twice' = {p \in h.twice : p[2] \notin freed}
     /\ visited' = h.visited \ freed
     /\ UNCHANGED stranded

(* (A variant with a bug: emptiness is read before the entry is erased.)   *)
DisposeIfWasEmpty(r, h) == Dispose(IF Present(members, r) = {} THEN {r} ELSE {}, h)

(* The end of Room::remove_client: an empty room is disposed.              *)
DisposeIfEmpty(r, h) == Dispose(IF Present(h.members, r) = {} THEN {r} ELSE {}, h)

(***************************************************************************)
(* Room::allow_reconnection for client c of room r, called on thread s: a  *)
(* listener and a timer are registered, the game lock is released and the  *)
(* thread blocks on the future.                                            *)
(***************************************************************************)
AllowReconnection(s, r, c, h) ==
  /\ ~disposing[r]
  /\ \E w \in Waits :
       /\ h.wait[w] = NoWait
       /\ wait' = [h.wait EXCEPT ![w] = [thread |-> s, room |-> r, id |-> IdOf[c],
                                         result |-> "none", timer |-> "armed"]]
       /\ joinListeners' = [h.listeners EXCEPT ![r] = Append(@, w)]
  /\ pc' = [pc EXCEPT ![s] = "waiting"]
  /\ lock' = NoThread
  /\ members' = h.members
  /\ told' = h.told
  /\ twice' = h.twice
  /\ visited' = h.visited
  /\ UNCHANGED <<obj, rid, disposing, autoTimers, serverVars, stranded>>

(***************************************************************************)
(* Room::remove_client(c) on thread s, c being a member: ONE entry of c is *)
(* erased and c is told; then the on_leave hook returns, and an empty room *)
(* is disposed, or it calls allow_reconnection.                            *)
(***************************************************************************)
EraseEntry(m, r, c) == [m EXCEPT ![r][c] = @ - 1]

RemoveClient(s, r, c, h0) ==
  LET h == [h0 EXCEPT !.members = EraseEntry(@, r, c), !.told = TellRemoved(@, c, r)]
  IN \/ /\ UNCHANGED <<pc, lock>>
        /\ DisposeIfEmpty(r, h)
     \/ /\ "wait" \in Hooks
        /\ AllowReconnection(s, r, c, h)

(***************************************************************************)
(* on_join_listeners.call for a client with id c: Callback::call walks its *)
(* entry vector by iterator while a matching listener of                   *)
(* allow_reconnection erases itself from it.  Every later entry moves down *)
(* one slot, so the entry after a match is stepped over.                   *)
(***************************************************************************)
Called(L, c) ==
  LET hit[k \in 1 .. Len(L)] == /\ wait[L[k]].id = c
                                /\ k > 1 => ~hit[k - 1]
  IN {L[k] : k \in {j \in 1 .. Len(L) : hit[j]}}

(* The walk then runs up to the old end: unless it was the last entry that *)
(* matched, it calls a moved-from std::function, which throws, and on_join *)
(* is not called.                                                          *)
Overruns(L, H) == \E w \in H : w # L[Len(L)]

(* What the called listeners do: set the promise unless it is set, and     *)
(* cancel the timer, which the worker may already have popped.             *)
Resolve(H) ==
  [w \in Waits |->
     IF w \in H
     THEN [wait[w] EXCEPT !.result = IF @ = "none" THEN "true" ELSE @,
                          !.timer = IF @ = "armed" THEN "cleared" ELSE @]
     ELSE wait[w]]

-------------------------------------------------------------------------------
(***************************************************************************)
(* Connections and rooms                                                   *)
(***************************************************************************)

(* Server::handle_connection up to the receive loop.                       *)
Connect(s) ==
  /\ LockFree
  /\ pc[s] = "new"
  /\ pc' = [pc EXCEPT ![s] = "recv"]
  /\ connections' = connections \cup {s}
  /\ UNCHANGED <<roomVars, serverVars, todo, then, lock, wait, worker, uaf, historyVars>>

(* The candidate id is compared with the ids that the storage lists.       *)
UnusedId(id) == id \notin stored

(* A snapshot outlives its room's timer (3 h against 2.5 h: Storage), so   *)
(* only that of a room which the timer did not end expires.                *)
TimerIsOver(r) == r \notin autoTimers /\ worker # [kind |-> "auto", room |-> r]

SnapshotExpires(id) ==
  /\ id \in stored
  /\ TimerIsOver(managed[id])
  /\ stored' = stored \ {id}
  /\ UNCHANGED <<roomVars, managed, msgSubs, leftSubs, connections, threadVars, wait, worker,
                 uaf, historyVars>>

(* Server::create_new_room, from a createNewRoom message or the            *)
(* application's create_room: id is one that no stored room has.  r is the *)
(* object that the factory returns.                                        *)
Constructs(r, id) ==
  /\ LockFree
  /\ obj[r] = "none"
  /\ UnusedId(id)
  /\ UNCHANGED <<connections, threadVars, wait, worker, uaf, told, twice>>

ArmAutoDispose(r) == autoTimers' = autoTimers \cup {r}

(* Room::initialize after on_create, then add_room and the assignment to   *)
(* managing_rooms_[id], which destroys the room that is still managed      *)
(* under the id.  Nothing ends that one's subscriptions, and its clients   *)
(* are not told.                                                           *)
Register(r, id) ==
  LET old == managed[id]
  IN /\ obj' = [q \in Rooms |-> IF q = r THEN "live" ELSE IF q = old THEN "replaced" ELSE obj[q]]
     /\ rid' = [rid EXCEPT ![r] = id]
     /\ members' = [q \in Rooms |-> IF q = old THEN [s \in Sessions |-> 0] ELSE members[q]]
     /\ joinListeners' = [q \in Rooms |-> IF q = old THEN <<>> ELSE joinListeners[q]]
     /\ visited' = visited \ {old}
     /\ stranded' = stranded \cup {<<s, id>> : s \in {t \in Sessions : old # NoRoom /\ members[old][t] > 0}}
     /\ ArmAutoDispose(r)
     /\ Subscribe(r)
     /\ stored' = stored \cup {id}
     /\ managed' = [managed EXCEPT ![id] = r]

CreateNewRoom(r, id) ==
  /\ Constructs(r, id)
  /\ Register(r, id)
  /\ UNCHANGED disposing

(* on_create calls dispose(): the room is registered all the same, and     *)
(* nothing will dispose it again.                                          *)
CreateNewRoomDisposed(r, id) ==
  /\ "dispose" \in Hooks
  /\ Constructs(r, id)
  /\ Register(r, id)
  /\ disposing' = [disposing EXCEPT ![r] = TRUE]

(* (An on_create that throws leaves no trace: dispose() runs before        *)
(* anything is armed, subscribed or registered, and the object goes with   *)
(* the exception.)                                                         *)

(***************************************************************************)
(* What is published under a room's id reaches the room, unless one that   *)
(* it has replaced comes before it in the listener list ...                *)
(***************************************************************************)
Hears(r) ==
  /\ obj[r] = "live" /\ r \in msgSubs
  /\ \A q \in msgSubs : rid[q] = rid[r] => obj[q] = "live"

(* ... whose handler is called with the object gone: any message will do.  *)
MessageReachesFreed(r) ==
  /\ LockFree
  /\ r \in msgSubs
  /\ obj[r] # "live"
  /\ Use(r)
  /\ UNCHANGED <<roomVars, serverVars, connections, threadVars, wait, worker, historyVars>>

(***************************************************************************)
(* A joinRoom message of session s: find_room_by_id finds the room, and    *)
(* the subscriber of its id adds an entry for s, whether or not it has     *)
(* one, tells s, calls the join listeners and then on_join, which may kick *)
(* the client (client.disconnect()).  (A can_client_join that throws       *)
(* changes nothing here: RoomFailures and ClientLib have it.)              *)
(***************************************************************************)
JoinRoom(s, r) ==
  LET L == joinListeners[r]
      H == Called(L, IdOf[s])
      h == [members   |-> [members EXCEPT ![r][s] = @ + 1],
            told      |-> TellJoined(told, s, r),
            wait      |-> Resolve(H),
            listeners |-> [joinListeners EXCEPT ![r] = Without(@, H)],
            twice     |-> IF members[r][s] > 0 THEN twice \cup {<<s, r>>} ELSE twice,
            visited   |-> visited \cup {r}]
  IN /\ LockFree
     /\ pc[s] = "recv"
     /\ Hears(r)
     /\ rid[r] \in stored
     /\ members[r][s] < MaxEntries
     /\ UNCHANGED <<connections, todo, then, worker, uaf>>
     /\ \/ /\ members' = h.members
           /\ told' = h.told
           /\ wait' = h.wait
           /\ joinListeners' = h.listeners
           /\ twice' = h.twice
           /\ visited' = h.visited
           /\ UNCHANGED <<obj, rid, disposing, autoTimers, serverVars, pc, lock, stranded>>
        \/ /\ "kick" \in Hooks
           /\ ~Overruns(L, H)
           /\ RemoveClient(s, r, s, h)

(* A sendMessage of member s whose on_message hook kicks client c.         *)
MessageKicks(s, r, c) ==
  /\ "kick" \in Hooks
  /\ LockFree
  /\ pc[s] = "recv"
  /\ Hears(r)
  /\ members[r][s] > 0
  /\ members[r][c] > 0
  /\ UNCHANGED <<connections, todo, then, worker, uaf>>
  /\ RemoveClient(s, r, c, Current)

(* A message, from a member or through the admin API, whose hook           *)
(* (on_message, on_external_message) calls dispose().                      *)
MessageDisposes(r) ==
  /\ "close" \in Hooks
  /\ LockFree
  /\ Hears(r)
  /\ ~disposing[r]
  /\ UNCHANGED <<connections, threadVars, worker, uaf>>
  /\ Dispose({r}, Current)

-------------------------------------------------------------------------------
(***************************************************************************)
(* Leaving                                                                 *)
(***************************************************************************)

(* The copy that publish makes of the PLAYER_LEFT listeners.               *)
ListenersCopy == leftSubs

(* handle_client_disconnect: the session leaves connections_, and          *)
(* PLAYER_LEFT is published to a copy of its listeners.                    *)
HandleClientDisconnect(s, next) ==
  /\ LockFree
  /\ pc[s] = "recv"
  /\ connections' = connections \ {s}
  /\ lock' = s
  /\ pc' = [pc EXCEPT ![s] = "publish"]
  /\ todo' = [todo EXCEPT ![s] = ListenersCopy]
  /\ then' = [then EXCEPT ![s] = next]
  /\ told' = [told EXCEPT ![s] = {}]
  /\ UNCHANGED <<roomVars, serverVars, wait, worker, uaf, twice, visited, stranded>>

(* A Socket.IO disconnect packet: the receive loop goes on afterwards.     *)
Disconnect(s) == HandleClientDisconnect(s, "recv")

(* The receive loop ends (close, error, idle timeout, shutdown) and        *)
(* run_recv_loop calls the close handler: the thread ends afterwards.      *)
CloseConnection(s) == HandleClientDisconnect(s, "done")

(* find_if finds an entry of the session in clients_.                      *)
IsMember(s, r) == members[r][s] > 0

(* The PLAYER_LEFT handler of the next room of the copy.                   *)
PublishNext(s) ==
  /\ lock = s
  /\ todo[s] # <<>>
  /\ todo' = [todo EXCEPT ![s] = Tail(@)]
  /\ UNCHANGED <<connections, then, worker>>
  /\ LET r == Head(todo[s])
     IN /\ Use(r)
        /\ \/ /\ ~IsMember(s, r)
              /\ UNCHANGED <<roomVars, serverVars, pc, lock, wait, historyVars>>
           \/ /\ IsMember(s, r)
              /\ RemoveClient(s, r, s, Current)

(* The handler returns and its GameLockGuard releases the game lock.       *)
PublishEnd(s) ==
  /\ lock = s
  /\ todo[s] = <<>>
  /\ lock' = NoThread
  /\ pc' = [pc EXCEPT ![s] = then[s]]
  /\ UNCHANGED <<roomVars, serverVars, connections, todo, then, wait, worker, uaf, historyVars>>

(* The shared state of a call goes when neither its thread nor its timer   *)
(* needs it any more.                                                      *)
Forget(W) == [w \in Waits |-> IF W[w].thread = NoThread /\ W[w].timer # "popped"
                              THEN NoWait ELSE W[w]]

(* future.get() returns and the game lock is taken again: the on_leave     *)
(* hook ends, then remove_client.                                          *)
Resume(s) ==
  \E w \in Waits :
    /\ LockFree
    /\ wait[w].thread = s
    /\ wait[w].result # "none"
    /\ LET r == wait[w].room
       IN /\ Use(r)
          /\ lock' = s
          /\ pc' = [pc EXCEPT ![s] = "publish"]
          /\ UNCHANGED <<connections, todo, then, worker>>
          /\ DisposeIfEmpty(r, [Current EXCEPT !.wait = Forget([@ EXCEPT ![w].thread = NoThread])])

-------------------------------------------------------------------------------
(***************************************************************************)
(* The Scheduler's worker: it pops a due task whose handle is not cleared, *)
(* releases its own mutex and runs the callback, which takes the game      *)
(* lock.  A handle cleared in between no longer stops it.                  *)
(***************************************************************************)

WorkerTakesAuto(r) ==
  /\ worker = Idle
  /\ r \in autoTimers
  /\ worker' = [kind |-> "auto", room |-> r]
  /\ autoTimers' = autoTimers \ {r}
  /\ UNCHANGED <<obj, rid, disposing, members, joinListeners, serverVars, connections,
                 threadVars, wait, uaf, historyVars>>

WorkerTakesWait(w) ==
  /\ worker = Idle
  /\ wait[w].timer = "armed"
  /\ worker' = [kind |-> "reconnect", wait |-> w]
  /\ wait' = [wait EXCEPT ![w].timer = "popped"]
  /\ UNCHANGED <<roomVars, serverVars, connections, threadVars, uaf, historyVars>>

(* The auto_dispose_timer_ callback: dispose().                            *)
WorkerRunsAuto ==
  /\ LockFree
  /\ worker.kind = "auto"
  /\ worker' = Idle
  /\ Use(worker.room)
  /\ UNCHANGED <<connections, threadVars>>
  /\ Dispose({worker.room}, Current)

(* What the timeout makes of the promise's value.                          *)
TimeoutResult(result, back) ==
  IF result # "none" THEN result ELSE IF back THEN "true" ELSE "false"

(* The timeout callback of allow_reconnection: it sets the promise, unless *)
(* it is set, to whether the awaited client is back, and unsubscribes the  *)
(* join listener.                                                          *)
WorkerRunsWait ==
  /\ LockFree
  /\ worker.kind = "reconnect"
  /\ worker' = Idle
  /\ LET w == worker.wait
         r == wait[w].room
         back == \E s \in Present(members, r) : IdOf[s] = wait[w].id
     IN /\ Use(r)
        /\ wait' = Forget([wait EXCEPT ![w].timer = "done",
                                       ![w].result = TimeoutResult(@, back)])
        /\ joinListeners' = [joinListeners EXCEPT ![r] = Without(@, {w})]
  /\ UNCHANGED <<obj, rid, disposing, members, autoTimers, serverVars, connections,
                 threadVars, historyVars>>

(* The room loop of Server::shutdown.  (It also closes every connection:   *)
(* CloseConnection may follow at any time.)                                *)
Shutdown ==
  /\ LockFree
  /\ UNCHANGED <<connections, threadVars, worker, uaf>>
  /\ Dispose({managed[i] : i \in RoomIds} \ {NoRoom}, Current)

-------------------------------------------------------------------------------

ClientStep(s) ==
  \/ Connect(s)
  \/ \E r \in Rooms : JoinRoom(s, r)
  \/ \E r \in Rooms, c \in Sessions : MessageKicks(s, r, c)
  \/ Disconnect(s)
  \/ CloseConnection(s)

ServerStep(s) == PublishNext(s) \/ PublishEnd(s) \/ Resume(s)

ApplicationStep ==
  \/ \E r \in Rooms, id \in RoomIds : \/ CreateNewRoom(r, id)
                                      \/ CreateNewRoomDisposed(r, id)
  \/ \E id \in RoomIds : SnapshotExpires(id)
  \/ \E r \in Rooms : MessageDisposes(r) \/ MessageReachesFreed(r)
  \/ Shutdown

WorkerStep ==
  \/ \E r \in Rooms : WorkerTakesAuto(r)
  \/ \E w \in Waits : WorkerTakesWait(w)
  \/ WorkerRunsAuto
  \/ WorkerRunsWait

(* No step follows a use of a freed object.                                *)
Next ==
  /\ uaf = {}
  /\ \/ \E s \in Sessions : ClientStep(s) \/ ServerStep(s)
     \/ ApplicationStep
     \/ WorkerStep

Spec == Init /\ [][Next]_vars
-------------------------------------------------------------------------------
(***************************************************************************)
(* Fairness.  The thread that holds the game lock runs on; a due task is   *)
(* popped in the end, because the worker takes the earliest one; and a     *)
(* thread that waits for the game mutex gets it in the end (std::mutex     *)
(* promises less than that: it is assumed).  Clients, hooks and the        *)
(* application owe nothing.                                                *)
(***************************************************************************)
Fairness ==
  /\ \A s \in Sessions : /\ WF_vars(uaf = {} /\ (PublishNext(s) \/ PublishEnd(s)))
                         /\ SF_vars(uaf = {} /\ Resume(s))
  /\ \A r \in Rooms : SF_vars(uaf = {} /\ WorkerTakesAuto(r))
  /\ \A w \in Waits : SF_vars(uaf = {} /\ WorkerTakesWait(w))
  /\ SF_vars(uaf = {} /\ (WorkerRunsAuto \/ WorkerRunsWait))

FairSpec == Spec /\ Fairness

-------------------------------------------------------------------------------
(***************************************************************************)
(* Safety                                                                  *)
(***************************************************************************)

Live == {r \in Rooms : obj[r] = "live"}

(* The storage, managing_rooms_ and the heap agree: a stored id is that of *)
(* a live room managed under it, a managed room is missing from the        *)
(* storage only if nothing can dispose it, and no live room is outside the *)
(* registry (create_new_room, on_room_disposed, MemoryStorage::get).       *)
RegistryConsistent ==
  /\ \A i \in stored : managed[i] # NoRoom
  /\ \A i \in RoomIds : managed[i] # NoRoom =>
       /\ managed[i] \in Live /\ rid[managed[i]] = i
       /\ i \in stored \/ disposing[managed[i]]
  /\ \A r \in Live : rid[r] \in RoomIds /\ managed[rid[r]] = r

(* The pub/sub calls each live room once, and never calls a handler of a   *)
(* room that dispose() destroyed (pub_sub_listener, dispose).  The one     *)
(* kind of freed room that it still calls is one that could not be         *)
(* disposed, and was replaced by a new room with its id.                   *)
SubscribersAreLive ==
  /\ Live \subseteq msgSubs
  /\ \A r \in msgSubs \ Live : obj[r] = "replaced" /\ disposing[r]
  /\ Elements(leftSubs) = msgSubs
  /\ Distinct(leftSubs)

(* A freed room is used only through a pointer that was left when it was   *)
(* freed: the room that was used is one that dispose() freed while there   *)
(* was a suspended allow_reconnection call in it, its timer, a popped      *)
(* auto-dispose callback or a listeners_copy, or one that was replaced     *)
(* while it was subscribed.  A room freed without any of them is never     *)
(* used again.                                                             *)
UseAfterFreeNeedsExposure == \A r \in uaf : obj[r] \in {"dangling", "replaced"}

(* A session whose thread has ended is in no room: PLAYER_LEFT has reached *)
(* every room, however often its delivery was suspended, joined into or    *)
(* overtaken by other sessions.  The exception is a session that joined    *)
(* the room again while it was in it: remove_client erases one entry.      *)
NoGhostMember ==
  \A s \in Sessions, r \in Rooms :
    pc[s] = "done" /\ members[r][s] > 0 => <<s, r>> \in twice

(* A room that its last client has left stands only while some on_leave    *)
(* hook still waits in it (remove_client, allow_reconnection).             *)
EmptyRoomIsAwaited ==
  \A r \in Live : r \in visited /\ ~disposing[r] /\ Present(members, r) = {}
                    => \E w \in Waits : wait[w].room = r /\ wait[w].thread # NoThread

(* What the server told a connected client (joinedRoom, removedFromRoom)   *)
(* is what the rooms hold, double joins aside.  Only who was in a room     *)
(* that was replaced is told of an id in whose room it is not.             *)
ClientViewIsRight ==
  \A s \in connections, r \in Live :
    <<s, r>> \notin twice =>
      /\ members[r][s] > 0 => rid[r] \in told[s]
      /\ rid[r] \in told[s] => members[r][s] > 0 \/ <<s, rid[r]>> \in stranded

(* Every room that is not being disposed has its 2.5 h timer ahead of it,  *)
(* or the worker at its door: no room outlives it (Room::initialize).      *)
LifetimeIsBounded ==
  \A r \in Live : ~disposing[r] =>
    r \in autoTimers \/ worker = [kind |-> "auto", room |-> r]

(* No suspended thread is forgotten: while its promise is not set, the     *)
(* timer that will set it is armed or in the worker's hands.               *)
NoLostWakeup ==
  \A w \in Waits : wait[w].thread # NoThread /\ wait[w].result = "none" =>
    \/ wait[w].timer = "armed"
    \/ wait[w].timer = "popped" /\ worker = [kind |-> "reconnect", wait |-> w]

(* promise->set_value is called once: the value that a rejoin or the       *)
(* timeout set first is never overwritten by the other.                    *)
PromiseSetOnce ==
  [][\A w \in Waits : wait[w].result # "none" => \/ wait'[w].result = wait[w].result
                                               \/ wait'[w] = NoWait]_vars

(* The server implements RoomService: an id is open while it is stored,    *)
(* and occupied by whoever has an entry in the room managed under it; a    *)
(* session is leaving while its thread holds the game lock between two     *)
(* handlers, and suspended in a room while allow_reconnection blocks.  In  *)
(* particular a session that leaves moves nobody else, a thread that goes  *)
(* on after allow_reconnection closes the room it waited in if that is     *)
(* empty, and nothing else, and a room opened under a used id is empty.    *)
Service == INSTANCE RoomService WITH
  Nobody <- NoThread,
  open <- stored,
  lasting <- {i \in RoomIds : managed[i] # NoRoom /\ disposing[managed[i]]},
  occupants <- [i \in RoomIds |-> IF managed[i] = NoRoom THEN {} ELSE Present(members, managed[i])],
  leaver <- lock,
  suspended <- {<<wait[w].thread, rid[wait[w].room]>> :
                  w \in {v \in Waits : wait[v].thread # NoThread /\ wait[v].room \in Live}}

ImplementsRoomService == Service!Spec

-------------------------------------------------------------------------------
(***************************************************************************)
(* Liveness (of FairSpec)                                                  *)
(***************************************************************************)

(* A thread that allow_reconnection suspended goes on, unless a freed room *)
(* was used.                                                               *)
SuspendedThreadResumes ==
  \A s \in Sessions : pc[s] = "waiting" ~> (pc[s] # "waiting" \/ uaf # {})

(* The thread of a closed connection ends, however many on_leave hooks     *)
(* wait on its way through the rooms.                                      *)
ClosedConnectionEnds ==
  \A s \in Sessions : (pc[s] # "recv" /\ then[s] = "done") ~> (pc[s] = "done" \/ uaf # {})

(* Every room that is not disposed from within its own on_create goes away *)
(* in the end, if only by its timer.                                       *)
EveryRoomEnds ==
  \A r \in Rooms : (obj[r] = "live" /\ ~disposing[r]) ~> (obj[r] # "live" \/ uaf # {})
===============================================================================
