------------------------------- MODULE ClientLib -------------------------------
(***************************************************************************)
(* The client library (client.cpp): the manager thread of a Client, which  *)
(* connects, handles the frames that arrive and connects again, and the    *)
(* application's threads, which call join_room, create_room and disconnect *)
(* meanwhile.                                                              *)
(*                                                                         *)
(* mutex_ protects ws_, rooms_ and event_handlers_, but only one section   *)
(* at a time: join_room_shared takes it to register the handlers, to send  *)
(* the frame and to push the room, and between two of these the manager    *)
(* may lose the connection or handle clientIdSet.  A section is one action *)
(* here, except that one which writes to the socket holds mutex_ until the *)
(* peer has taken the bytes or the connection is dead.  Room::joined has   *)
(* no lock at all (it is read and written as if it were atomic).           *)
(*                                                                         *)
(* The peer is the server of RoomServer, as one client sees it: its        *)
(* answers come back in order on one connection, and a connection may die  *)
(* at any moment with what is under way in both directions.  A peer may as *)
(* well read nothing, and never answer the handshake.  A callback of the   *)
(* application that calls back into the client from the manager thread is  *)
(* not modelled, nor are application messages and pings.                   *)
(***************************************************************************)
EXTENDS Naturals, Sequences, FiniteSets

CONSTANTS
  Objs,            \* bound: Room objects, one for each call of join_room, create_room
  Ids,             \* room ids
  MaxConnections,  \* bound: connections that the peer accepts
  NoObj, NoId

ASSUME ObjsAssumption == NoObj \notin Objs
ASSUME IdsAssumption == NoId \notin Ids
ASSUME ConnectionsAssumption == MaxConnections \in Nat

VARIABLES
  running,    \* Client::running_
  mgr,        \* where connection_manager_loop is
  ws,         \* ws_ is set
  rooms,      \* rooms_ (the order of the vector does not matter)
  handler,    \* event_handlers_: the room behind "message-<id>" and "<id>-error"
  idOf,       \* Room::id, NoId while a created room has none
  joined,     \* Room::joined
  call,       \* the application thread inside join_room or create_room
  todo,       \* rooms that handle_client_id_set has still to join again
  joining,    \* the join_room_shared call of the manager thread
  stopper,    \* the application thread inside disconnect
  link,       \* the TCP connection
  inbound,    \* frames on their way to the client
  outbound,   \* frames on their way to the server
  connections,\* connections accepted so far
  members,    \* server: the entries of this connection in the clients_ of each room
  greeted,    \* history: clientIdSet of this connection has been handled
  removed,    \* history: rooms that sent removedFromRoom on this connection
  refused,    \* history: rooms that answered a joinRoom of it with an error
  asked,      \* history: rooms that a thread asked to join on this connection
              \* although the manager, or an earlier call, was asking too
  missed      \* history: rooms that the manager's walk over rooms_ came too
              \* early for

appVars     == <<call, stopper>>
clientVars  == <<rooms, handler, idOf, joined>>
managerVars == <<mgr, ws, todo, joining>>
linkVars    == <<link, inbound, outbound, connections>>
historyVars == <<greeted, removed, refused, asked, missed>>
vars == <<running, appVars, clientVars, managerVars, members, linkVars, historyVars>>

Steps == {"check", "send", "sending", "push"}
NoJoin == [obj |-> NoObj, step |-> "check"]

FromServer == [kind : {"clientIdSet"}] \cup [kind : {"joinedRoom", "removedFromRoom", "error"}, id : Ids]
              \cup [kind : {"create"}, obj : Objs, id : Ids] \cup [kind : {"createError"}, obj : Objs]
FromClient == [kind : {"joinRoom"}, id : Ids] \cup [kind : {"createNewRoom"}, obj : Objs]

(* The types of the variables.                                             *)
TypeOK ==
  /\ {running, ws, greeted} \subseteq BOOLEAN
  /\ mgr \in {"top", "handshake", "install", "receiving", "lost", "ended"}
  /\ rooms \subseteq Objs
  /\ handler \in [Ids -> Objs \cup {NoObj}]
  /\ idOf \in [Objs -> Ids \cup {NoId}]
  /\ joined \in [Objs -> BOOLEAN]
  /\ call \in [Objs -> {"new", "creating", "create", "done"} \cup Steps]
  /\ todo \subseteq Objs
  /\ joining \in [obj : Objs \cup {NoObj}, step : Steps]
  /\ stopper \in {"idle", "stopping", "closing", "joining", "returned"}
  /\ link \in {"down", "up", "dead"}
  /\ inbound \in Seq(FromServer)
  /\ outbound \in Seq(FromClient)
  /\ connections \in 0 .. MaxConnections
  /\ members \in [Ids -> Nat]
  /\ removed \subseteq Ids
  /\ refused \subseteq Ids
  /\ asked \subseteq Ids
  /\ missed \subseteq Objs

Init ==
  /\ running = TRUE
  /\ mgr = "top"
  /\ ws = FALSE
  /\ rooms = {}
  /\ handler = [i \in Ids |-> NoObj]
  /\ idOf = [o \in Objs |-> NoId]
  /\ joined = [o \in Objs |-> FALSE]
  /\ call = [o \in Objs |-> "new"]
  /\ todo = {}
  /\ joining = NoJoin
  /\ stopper = "idle"
  /\ link = "down"
  /\ inbound = <<>>
  /\ outbound = <<>>
  /\ connections = 0
  /\ members = [i \in Ids |-> 0]
  /\ greeted = FALSE
  /\ removed = {}
  /\ refused = {}
  /\ asked = {}
  /\ missed = {}

-------------------------------------------------------------------------------
(***************************************************************************)
(* Plausible bugs: each is a variant of a definition below, none of them   *)
(* is used by the specification, and each breaks a property.               *)
(***************************************************************************)
PushAlways(o) == TRUE
KeepJoined(R) == joined
OnlyJoined == {o \in rooms : joined[o]}
LinkAsItIs == link

Using(i) == {o \in Objs : idOf[o] = i}

(* No thread is writing to the socket with mutex_ in its hands.            *)
MutexFree ==
  /\ \A o \in Objs : call[o] \notin {"sending", "creating"}
  /\ joining.step # "sending"
  /\ stopper # "closing"

(* join_room_shared: a room that is joined needs no frame.                 *)
AfterCheck(o) == IF joined[o] THEN "push" ELSE "send"

(* send_frame, once it returns: the frame goes out if there is a           *)
(* connection, and is dropped without a word if there is none.             *)
SendFrame(frame) ==
  outbound' = IF ws /\ link = "up" THEN Append(outbound, frame) ELSE outbound

(* No room of that id is in rooms_ yet.                                    *)
IsNew(o) == \A other \in rooms : idOf[other] # idOf[o]

Push(o) == rooms' = IF IsNew(o) THEN rooms \cup {o} ELSE rooms

-------------------------------------------------------------------------------
(***************************************************************************)
(* The application's threads                                               *)
(***************************************************************************)

(* A new Room.  Objects are made in a fixed order, for until one is made   *)
(* nothing tells it from another.                                          *)
IsNextRoom(o) == /\ call[o] = "new"
                 /\ o = CHOOSE p \in Objs : call[p] = "new"

(* join_room: a new Room and its handlers, which replace those of an       *)
(* earlier room of the id.                                                 *)
JoinRoom(o, i) ==
  /\ MutexFree
  /\ IsNextRoom(o)
  /\ idOf' = [idOf EXCEPT ![o] = i]
  /\ handler' = [handler EXCEPT ![i] = o]
  /\ call' = [call EXCEPT ![o] = "check"]
  /\ UNCHANGED <<running, stopper, rooms, joined, managerVars, members, linkVars, historyVars>>

CallChecks(o) ==
  /\ call[o] = "check"
  /\ call' = [call EXCEPT ![o] = AfterCheck(o)]
  /\ UNCHANGED <<running, stopper, clientVars, managerVars, members, linkVars, historyVars>>

CallLocks(o) ==
  /\ MutexFree
  /\ call[o] = "send"
  /\ call' = [call EXCEPT ![o] = "sending"]
  /\ UNCHANGED <<running, stopper, clientVars, managerVars, members, linkVars, historyVars>>

CallSends(o) ==
  /\ call[o] = "sending"
  /\ SendFrame([kind |-> "joinRoom", id |-> idOf[o]])
  /\ call' = [call EXCEPT ![o] = "push"]
  /\ asked' = IF ws /\ (~greeted \/ Using(idOf[o]) # {o}) THEN asked \cup {idOf[o]} ELSE asked
  /\ UNCHANGED <<running, stopper, clientVars, managerVars, members,
                 link, inbound, connections, greeted, removed, refused, missed>>

CallPushes(o) ==
  /\ MutexFree
  /\ call[o] = "push"
  /\ Push(o)
  /\ call' = [call EXCEPT ![o] = "done"]
  /\ UNCHANGED <<running, stopper, handler, idOf, joined, managerVars, members, linkVars, historyVars>>

(* create_room: the "-create" and "-error" handlers, then the frame.  The  *)
(* request id is fresh, so the handlers matter only once the frame is out. *)
CreateRoom(o) ==
  /\ MutexFree
  /\ IsNextRoom(o)
  /\ call' = [call EXCEPT ![o] = "creating"]
  /\ UNCHANGED <<running, stopper, clientVars, managerVars, members, linkVars, historyVars>>

CreateSends(o) ==
  /\ call[o] = "creating"
  /\ SendFrame([kind |-> "createNewRoom", obj |-> o])
  /\ call' = [call EXCEPT ![o] = "create"]
  /\ UNCHANGED <<running, stopper, clientVars, managerVars, members,
                 link, inbound, connections, historyVars>>

(* disconnect(): running_; then mutex_; then, with mutex_ held, a close    *)
(* frame and the shutdown of the socket; then the join of the manager      *)
(* thread.                                                                 *)
DisconnectBegins ==
  /\ stopper = "idle"
  /\ running' = FALSE
  /\ stopper' = "stopping"
  /\ UNCHANGED <<call, clientVars, managerVars, members, linkVars, historyVars>>

(* close() shuts the socket down: what is under way is lost.               *)
Closed == IF link = "down" THEN "down" ELSE "dead"

DisconnectLocks ==
  /\ MutexFree
  /\ stopper = "stopping"
  /\ stopper' = "closing"
  /\ UNCHANGED <<running, call, clientVars, managerVars, members, linkVars, historyVars>>

DisconnectCloses ==
  /\ stopper = "closing"
  /\ stopper' = "joining"
  /\ link' = IF ws THEN Closed ELSE link
  /\ outbound' = IF ws THEN <<>> ELSE outbound
  /\ members' = IF ws THEN [i \in Ids |-> 0] ELSE members
  /\ UNCHANGED <<running, call, clientVars, managerVars, inbound, connections, historyVars>>

DisconnectJoins ==
  /\ stopper = "joining"
  /\ mgr = "ended"
  /\ stopper' = "returned"
  /\ UNCHANGED <<running, call, clientVars, managerVars, members, linkVars, historyVars>>

-------------------------------------------------------------------------------
(***************************************************************************)
(* The manager thread                                                      *)
(***************************************************************************)

(* The head of the loop, and the TCP connection.                           *)
LoopBegins ==
  /\ mgr = "top"
  /\ mgr' = IF running THEN "handshake" ELSE "ended"
  /\ UNCHANGED <<running, appVars, clientVars, ws, todo, joining, members, linkVars, historyVars>>

(* No connection, no request sent, or no 101 in the answer: the manager    *)
(* sleeps and tries again.  (It reads the answer for as long as the peer   *)
(* sends none: read_response_headers has no timeout.)                      *)
HandshakeFails ==
  /\ mgr = "handshake"
  /\ mgr' = "top"
  /\ UNCHANGED <<running, appVars, clientVars, ws, todo, joining, members, linkVars, historyVars>>

(* The server answers 101 and sends clientIdSet first.                     *)
HandshakeSucceeds ==
  /\ mgr = "handshake"
  /\ connections < MaxConnections
  /\ connections' = connections + 1
  /\ mgr' = "install"
  /\ link' = "up"
  /\ inbound' = <<[kind |-> "clientIdSet"]>>
  /\ UNCHANGED <<running, appVars, clientVars, ws, todo, joining, members, outbound, historyVars>>

(* What installing ws_ makes of the connection: closed at once if          *)
(* disconnect() came too early to find it.                                 *)
LinkAfterInstall == IF running THEN link ELSE Closed

Install ==
  /\ MutexFree
  /\ mgr = "install"
  /\ ws' = TRUE
  /\ link' = LinkAfterInstall
  /\ mgr' = "receiving"
  /\ members' = IF link' = "up" THEN members ELSE [i \in Ids |-> 0]
  /\ UNCHANGED <<running, appVars, clientVars, todo, joining, inbound, outbound, connections, historyVars>>

ManagerIdle == mgr = "receiving" /\ joining = NoJoin /\ todo = {}

(* The rooms that handle_client_id_set walks over: a copy of rooms_.       *)
RoomsSnapshot == rooms

(* handle_ws_payload, frame by frame.                                      *)
HandleClientIdSet(frame) ==
  /\ frame.kind = "clientIdSet"
  /\ todo' = RoomsSnapshot
  /\ greeted' = TRUE
  /\ missed' = missed \cup {o \in Objs : call[o] = "push"}
  /\ UNCHANGED <<clientVars, joining, call, removed, refused, asked>>

(* The "-create" handler: the room has an id, gets its handlers and is     *)
(* joined.                                                                 *)
HandleCreate(frame) ==
  /\ frame.kind = "create"
  /\ idOf' = [idOf EXCEPT ![frame.obj] = frame.id]
  /\ handler' = [handler EXCEPT ![frame.id] = frame.obj]
  /\ joining' = [obj |-> frame.obj, step |-> "check"]
  /\ call' = [call EXCEPT ![frame.obj] = "done"]
  /\ asked' = IF Using(frame.id) = {} THEN asked ELSE asked \cup {frame.id}
  /\ UNCHANGED <<rooms, joined, todo, greeted, removed, refused, missed>>

(* "-error" of a create_room, which drops the two handlers, or of a        *)
(* join_room, which only calls on_join_error.                              *)
HandleError(frame) ==
  /\ frame.kind \in {"createError", "error"}
  /\ call' = IF frame.kind = "createError" THEN [call EXCEPT ![frame.obj] = "done"] ELSE call
  /\ UNCHANGED <<clientVars, todo, joining, historyVars>>

HandleRoomFrame(frame) ==
  /\ frame.kind \in {"joinedRoom", "removedFromRoom"}
  /\ joined' = [o \in Objs |-> IF handler[frame.id] = o THEN frame.kind = "joinedRoom" ELSE joined[o]]
  /\ UNCHANGED <<rooms, handler, idOf, call, todo, joining, historyVars>>

HandleWsPayload ==
  /\ MutexFree
  /\ ManagerIdle
  /\ inbound # <<>>
  /\ inbound' = Tail(inbound)
  /\ LET frame == Head(inbound)
     IN \/ HandleClientIdSet(frame)
        \/ HandleCreate(frame)
        \/ HandleError(frame)
        \/ HandleRoomFrame(frame)
  /\ UNCHANGED <<running, stopper, mgr, ws, members, link, outbound, connections>>

(* join_room_shared on the manager thread, for a created room or for the   *)
(* next room of the walk.                                                  *)
ManagerRejoins(o) ==
  /\ joining = NoJoin
  /\ o \in todo
  /\ todo' = todo \ {o}
  /\ joining' = [obj |-> o, step |-> "check"]
  /\ UNCHANGED <<running, appVars, clientVars, mgr, ws, members, linkVars, historyVars>>

ManagerChecks ==
  /\ joining # NoJoin
  /\ joining.step = "check"
  /\ joining' = [joining EXCEPT !.step = AfterCheck(joining.obj)]
  /\ UNCHANGED <<running, appVars, clientVars, mgr, ws, todo, members, linkVars, historyVars>>

ManagerLocks ==
  /\ MutexFree
  /\ joining.step = "send"
  /\ joining' = [joining EXCEPT !.step = "sending"]
  /\ UNCHANGED <<running, appVars, clientVars, mgr, ws, todo, members, linkVars, historyVars>>

ManagerSends ==
  /\ joining.step = "sending"
  /\ SendFrame([kind |-> "joinRoom", id |-> idOf[joining.obj]])
  /\ joining' = [joining EXCEPT !.step = "push"]
  /\ UNCHANGED <<running, appVars, clientVars, mgr, ws, todo, members,
                 link, inbound, connections, historyVars>>

ManagerPushes ==
  /\ MutexFree
  /\ joining.step = "push"
  /\ Push(joining.obj)
  /\ joining' = NoJoin
  /\ UNCHANGED <<running, appVars, handler, idOf, joined, mgr, ws, todo, members, linkVars, historyVars>>

(* run_recv_loop returns and ws_ is reset: what has not been read is lost. *)
RecvLoopEnds ==
  /\ MutexFree
  /\ ManagerIdle
  /\ link = "dead"
  /\ ws' = FALSE
  /\ link' = "down"
  /\ inbound' = <<>>
  /\ mgr' = "lost"
  /\ greeted' = FALSE
  /\ removed' = {}
  /\ refused' = {}
  /\ asked' = {}
  /\ UNCHANGED <<running, appVars, clientVars, todo, joining, members, outbound, connections, missed>>

(* Room::joined after the walk over a copy of rooms_.                      *)
JoinedAfterLoss(R) == [o \in Objs |-> joined[o] /\ o \notin R]

(* The rest of the loop: the end, or every room of a copy of rooms_ has    *)
(* left.  (Nobody reads joined of a room that is in rooms_ meanwhile.)     *)
LoopEnds ==
  /\ MutexFree
  /\ mgr = "lost"
  /\ \/ /\ ~running
        /\ mgr' = "ended"
        /\ UNCHANGED <<joined, missed>>
     \/ /\ running
        /\ mgr' = "top"
        /\ joined' = JoinedAfterLoss(rooms)
        /\ missed' = missed \cup {o \in Objs \ rooms : joined[o]}
  /\ UNCHANGED <<running, appVars, rooms, handler, idOf, ws, todo, joining, members, linkVars,
                 greeted, removed, refused, asked>>

-------------------------------------------------------------------------------
(***************************************************************************)
(* The server (external to the client)                                     *)
(***************************************************************************)

(* The answer to the next frame: joinRoom adds an entry, or there is no    *)
(* such room or its can_client_join throws; createNewRoom makes a room     *)
(* under an id that no room has, or fails.  Other clients' rooms begin and *)
(* end at any time, so an id has a room for certain only while this client *)
(* is in it.  (An on_join that throws sends the error after joinedRoom; it *)
(* changes nothing here.  A room that never ends and is replaced under its *)
(* expired id is left to RoomServer.)                                      *)
ServerAnswers ==
  /\ link = "up"
  /\ outbound # <<>>
  /\ outbound' = Tail(outbound)
  /\ LET frame == Head(outbound)
     IN \/ /\ frame.kind = "joinRoom"
           /\ members' = [members EXCEPT ![frame.id] = @ + 1]
           /\ inbound' = Append(inbound, [kind |-> "joinedRoom", id |-> frame.id])
           /\ UNCHANGED refused
        \/ /\ frame.kind = "joinRoom"
           /\ inbound' = Append(inbound, [kind |-> "error", id |-> frame.id])
           /\ refused' = refused \cup {frame.id}
           /\ UNCHANGED members
        \/ /\ frame.kind = "createNewRoom"
           /\ \E i \in Ids :
                /\ members[i] = 0
                /\ inbound' = Append(inbound, [kind |-> "create", obj |-> frame.obj, id |-> i])
           /\ UNCHANGED <<members, refused>>
        \/ /\ frame.kind = "createNewRoom"
           /\ inbound' = Append(inbound, [kind |-> "createError", obj |-> frame.obj])
           /\ UNCHANGED <<members, refused>>
  /\ UNCHANGED <<running, appVars, clientVars, managerVars, link, connections,
                 greeted, removed, asked, missed>>

(* remove_client erases one entry and says so (a kick).                    *)
ServerRemoves(i) ==
  /\ link = "up"
  /\ members[i] > 0
  /\ members' = [members EXCEPT ![i] = @ - 1]
  /\ inbound' = Append(inbound, [kind |-> "removedFromRoom", id |-> i])
  /\ removed' = removed \cup {i}
  /\ UNCHANGED <<running, appVars, clientVars, managerVars, link, outbound, connections,
                 greeted, refused, asked, missed>>

(* The connection dies: the server removes the session from every room.    *)
ConnectionDies ==
  /\ link = "up"
  /\ link' = "dead"
  /\ outbound' = <<>>
  /\ members' = [i \in Ids |-> 0]
  /\ UNCHANGED <<running, appVars, clientVars, managerVars, inbound, connections, historyVars>>

-------------------------------------------------------------------------------

CallStep(o) ==
  \/ \E i \in Ids : JoinRoom(o, i)
  \/ CreateRoom(o)
  \/ CreateSends(o)
  \/ CallChecks(o)
  \/ CallLocks(o)
  \/ CallSends(o)
  \/ CallPushes(o)

ManagerStep ==
  \/ LoopBegins
  \/ HandshakeFails
  \/ HandshakeSucceeds
  \/ Install
  \/ HandleWsPayload
  \/ \E o \in Objs : ManagerRejoins(o)
  \/ ManagerChecks
  \/ ManagerLocks
  \/ ManagerSends
  \/ ManagerPushes
  \/ RecvLoopEnds
  \/ LoopEnds

ServerStep ==
  \/ ServerAnswers
  \/ \E i \in Ids : ServerRemoves(i)
  \/ ConnectionDies

Next ==
  \/ \E o \in Objs : CallStep(o)
  \/ DisconnectBegins
  \/ DisconnectLocks
  \/ DisconnectCloses
  \/ DisconnectJoins
  \/ ManagerStep
  \/ ServerStep

Spec == Init /\ [][Next]_vars

(* A write returns for certain only if there is nobody to write to.        *)
WriteFails == ~ (ws /\ link = "up")

(* What the manager does without its peer.                                 *)
ManagerRuns ==
  \/ LoopBegins
  \/ Install
  \/ HandleWsPayload
  \/ \E o \in Objs : ManagerRejoins(o)
  \/ ManagerChecks
  \/ ManagerLocks
  \/ WriteFails /\ ManagerSends
  \/ ManagerPushes
  \/ RecvLoopEnds
  \/ LoopEnds

(* The threads run on as far as that depends on this process: the manager, *)
(* the thread inside disconnect(), and a call that writes to a connection  *)
(* that is dead or gone, which fails.  The peer owes nothing: it need not  *)
(* answer a handshake, read what is written, or close; nor does the        *)
(* application.  (Weak fairness makes a thread get a mutex_ that others    *)
(* leave alone in the end; the calls are bounded.)                         *)
Fairness ==
  /\ WF_vars(ManagerRuns)
  /\ WF_vars(DisconnectLocks \/ (WriteFails /\ DisconnectCloses) \/ DisconnectJoins)
  /\ WF_vars(WriteFails /\ \E o \in Objs : CallSends(o) \/ CreateSends(o))

FairSpec == Spec /\ Fairness

-------------------------------------------------------------------------------
(***************************************************************************)
(* Safety                                                                  *)
(***************************************************************************)

(* What the frames under way will make of joined.                          *)
WillBeJoined(o) ==
  LET news == {k \in 1 .. Len(inbound) : /\ inbound[k].kind \in {"joinedRoom", "removedFromRoom"}
                                         /\ inbound[k].id = idOf[o]}
  IN IF news = {} THEN joined[o]
     ELSE \E k \in news : /\ inbound[k].kind = "joinedRoom"
                          /\ \A l \in news : l <= k

(* joined of a room that is in rooms_ and has the handlers of its id is    *)
(* what the server says, as soon as the frames under way are handled:      *)
(* across reconnects, kicks and rooms that end (register_room_events, the  *)
(* reset at 305-308).  The exceptions: the id was asked for twice on this  *)
(* connection, or the walk over rooms_ missed the room.                    *)
ViewIsRight ==
  \A o \in rooms : link = "up" /\ handler[idOf[o]] = o /\ idOf[o] \notin asked /\ o \notin missed
    => WillBeJoined(o) = (members[idOf[o]] > 0)

JoinsUnderWay(i) == Cardinality({k \in 1 .. Len(outbound) : outbound[k] = [kind |-> "joinRoom", id |-> i]})

(* A connection enters a room once, although both join_room and the walk   *)
(* after clientIdSet ask for it (the server would keep two entries, and    *)
(* remove one of them only), unless the call came before clientIdSet or    *)
(* was the second for the id.                                              *)
EntersOnce ==
  \A i \in Ids \ asked : link = "up" => members[i] + JoinsUnderWay(i) <= 1

(* After clientIdSet every room of rooms_ is entered again, or about to    *)
(* be, unless the server has answered otherwise, with an error or with     *)
(* removedFromRoom: whether rooms end meanwhile, ids are used again or     *)
(* calls come in between.  The exception is a room that the walk over      *)
(* rooms_ came too early for (handle_client_id_set).                       *)
RejoinsEveryRoom ==
  \A o \in rooms :
    link = "up" /\ greeted /\ o \notin missed /\ o \notin todo /\ joining.obj # o
      => \/ members[idOf[o]] + JoinsUnderWay(idOf[o]) > 0
         \/ idOf[o] \in refused \cup removed

-------------------------------------------------------------------------------
(***************************************************************************)
(* Liveness (of FairSpec)                                                  *)
(***************************************************************************)

(* disconnect() returns, whatever the manager thread was doing, although   *)
(* the peer never closes: the connection is closed by disconnect() or, if  *)
(* it came too early to see it, by the manager.  Only a peer that is       *)
(* silent for ever can keep it: it does not answer the handshake that the  *)
(* manager is in, or does not read what a thread writes with mutex_ in its *)
(* hands (read_response_headers, send_frame, close: no timeout).           *)
PeerIsSilent == mgr = "handshake" \/ ~MutexFree

DisconnectReturns == (stopper # "idle") ~> (stopper = "returned" \/ []PeerIsSilent)
===============================================================================
