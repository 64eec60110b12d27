---------------------------- MODULE RoomServerProofs ----------------------------
(***************************************************************************)
(* Proofs about RoomServer, for every set of sessions, rooms, room ids and *)
(* waits, every bound MaxEntries and every behaviour of the hooks.         *)
(*                                                                         *)
(* The first part has the types, the registry and the waits.  The registry *)
(* says that a disposed room is the one that managing_rooms_ holds under   *)
(* its id, which makes Room::dispose simple enough to be reasoned about    *)
(* (DisposeEffect).  The second part, from "The invariants of membership"  *)
(* on, follows with it who is in the rooms, what clients are told, which   *)
(* rooms stand empty and which freed rooms can be used, and shows that     *)
(* RoomServer implements RoomService.                                      *)
(***************************************************************************)
EXTENDS RoomServer, ListenersProofs

-------------------------------------------------------------------------------
(***************************************************************************)
(* Types                                                                   *)
(***************************************************************************)

(* What a handler's body may have computed so far.                         *)
HandlerStates ==
  [members : [Rooms -> [Sessions -> Nat]], wait : [Waits -> WaitRecords],
   listeners : [Rooms -> Seq(Waits)], told : [Sessions -> SUBSET RoomIds],
   twice : SUBSET (Sessions \X Rooms), visited : SUBSET Rooms]

(* The variables that a handler's body may change, besides its thread's.   *)
HandlerTypeOK ==
  RoomTypeOK /\ ServerTypeOK /\ HistoryTypeOK /\ wait \in [Waits -> WaitRecords]

(* What it may do to its thread s.                                         *)
MaySuspend(s) ==
  \/ UNCHANGED <<pc, lock>>
  \/ /\ pc' = [pc EXCEPT ![s] = "waiting"]
     /\ lock' = NoThread

(* Updating fields of a wait record within their types keeps it one.       *)
LEMMA WaitRecordUpdates ==
  ASSUME NEW q \in WaitRecords
  PROVE  /\ [q EXCEPT !.thread = NoThread] \in WaitRecords
         /\ \A x \in {"none", "true", "false"} : [q EXCEPT !.result = x] \in WaitRecords
         /\ \A x \in {"unset", "armed", "cleared", "popped", "done"} :
              [q EXCEPT !.timer = x] \in WaitRecords
BY DEF WaitRecords

(* Forgetting finished calls keeps the waits typed.                        *)
LEMMA ForgetType ==
  ASSUME NEW W \in [Waits -> WaitRecords]
  PROVE  Forget(W) \in [Waits -> WaitRecords]
BY DEF Forget, WaitRecords, NoWait

(* The state that a handler starts from is a handler state.                *)
LEMMA CurrentType ==
  ASSUME TypeOK
  PROVE  Current \in HandlerStates
BY DEF Current, HandlerStates, TypeOK, RoomTypeOK, ThreadTypeOK, HistoryTypeOK

(* Room::dispose keeps the types, whatever its caller computed before.     *)
LEMMA DisposeType ==
  ASSUME TypeOK, NEW D, NEW h \in HandlerStates, Dispose(D, h)
  PROVE  HandlerTypeOK'
<1> DEFINE now   == {r \in D : obj[r] = "live" /\ ~disposing[r]}
           ids   == {rid[r] : r \in now}
           freed == {managed[i] : i \in ids} \ {NoRoom}
<1>1. /\ wait' = h.wait
      /\ disposing' = [r \in Rooms |-> (disposing[r] \/ r \in now) /\ r \notin freed]
      /\ members' = [r \in Rooms |-> IF r \in now THEN [s \in Sessions |-> 0] ELSE h.members[r]]
      /\ told' = [s \in Sessions |->
                    IF s \in connections
                    THEN h.told[s] \ {rid[r] : r \in {q \in now : h.members[q][s] > 0}}
                    ELSE h.told[s]]
      /\ autoTimers' = autoTimers \ now
      /\ stored' = stored \ ids
      /\ Unsubscribe(now)
      /\ managed' = [i \in RoomIds |-> IF i \in ids THEN NoRoom ELSE managed[i]]
      /\ obj' = [r \in Rooms |-> IF r \in freed
                                 THEN IF Referenced(r)' THEN "dangling" ELSE "none"
                                 ELSE obj[r]]
      /\ rid' = [r \in Rooms |-> IF r \in freed THEN NoRoom ELSE rid[r]]
      /\ joinListeners' = [r \in Rooms |-> IF r \in freed THEN <<>> ELSE h.listeners[r]]
      /\ twice' = {p \in h.twice : p[2] \notin freed}
      /\ visited' = h.visited \ freed
      /\ UNCHANGED stranded
  BY DEF Dispose
<1> HIDE DEF now, ids, freed
<1> USE DEF TypeOK, HandlerStates
<1>2. RoomTypeOK'
  <2>1. obj' \in [Rooms -> {"none", "live", "dangling", "replaced"}]
    BY <1>1 DEF RoomTypeOK
  <2>2. rid' \in [Rooms -> RoomIds \cup {NoRoom}] /\ disposing' \in [Rooms -> BOOLEAN]
    BY <1>1 DEF RoomTypeOK
  <2>3. members' \in [Rooms -> [Sessions -> Nat]]
    BY <1>1
  <2>4. joinListeners' \in [Rooms -> Seq(Waits)]
    BY <1>1
  <2> QED
    BY <1>1, <2>1, <2>2, <2>3, <2>4 DEF RoomTypeOK
<1>3. ServerTypeOK'
  BY <1>1, WithoutProperties DEF ServerTypeOK, Unsubscribe
<1>4. HistoryTypeOK' /\ wait' \in [Waits -> WaitRecords]
  BY <1>1 DEF HistoryTypeOK
<1> QED
  BY <1>2, <1>3, <1>4 DEF HandlerTypeOK

(* So does Room::allow_reconnection ...                                    *)
LEMMA AllowReconnectionType ==
  ASSUME TypeOK, NEW s \in Sessions, NEW r \in Rooms, NEW c \in Sessions,
         NEW h \in HandlerStates, AllowReconnection(s, r, c, h)
  PROVE  HandlerTypeOK' /\ MaySuspend(s)
<1>1. PICK w \in Waits :
        /\ wait' = [h.wait EXCEPT ![w] = [thread |-> s, room |-> r, id |-> IdOf[c],
                                          result |-> "none", timer |-> "armed"]]
        /\ joinListeners' = [h.listeners EXCEPT ![r] = Append(@, w)]
  BY DEF AllowReconnection
<1>2. wait' \in [Waits -> WaitRecords]
  BY <1>1, SessionsAssumption DEF HandlerStates, WaitRecords
<1>3. joinListeners' \in [Rooms -> Seq(Waits)]
  BY <1>1 DEF HandlerStates
<1>4. RoomTypeOK' /\ ServerTypeOK'
  BY <1>3 DEF AllowReconnection, HandlerStates, TypeOK, RoomTypeOK, ServerTypeOK, serverVars
<1>5. HistoryTypeOK'
  BY DEF AllowReconnection, HandlerStates, HistoryTypeOK, TypeOK
<1> QED
  BY <1>2, <1>4, <1>5 DEF AllowReconnection, HandlerTypeOK, MaySuspend

(* ... and so does Room::remove_client, which ends in one of the two.      *)
LEMMA RemoveClientType ==
  ASSUME TypeOK, NEW s \in Sessions, NEW r \in Rooms, NEW c \in Sessions,
         NEW h \in HandlerStates, h.members[r][c] > 0, RemoveClient(s, r, c, h)
  PROVE  /\ HandlerTypeOK'
         /\ MaySuspend(s)
<1> DEFINE g == [h EXCEPT !.members = EraseEntry(@, r, c), !.told = TellRemoved(@, c, r)]
<1>1. EraseEntry(h.members, r, c) \in [Rooms -> [Sessions -> Nat]]
  BY DEF EraseEntry, HandlerStates
<1>2. TellRemoved(h.told, c, r) \in [Sessions -> SUBSET RoomIds]
  BY DEF TellRemoved, HandlerStates
<1>3. g \in HandlerStates
  BY <1>1, <1>2 DEF HandlerStates
<1> HIDE DEF g
<1>4. \/ UNCHANGED <<pc, lock>> /\ DisposeIfEmpty(r, g)
      \/ AllowReconnection(s, r, c, g)
  BY DEF RemoveClient, g
<1> QED
  BY <1>3, <1>4, DisposeType, AllowReconnectionType DEF DisposeIfEmpty, MaySuspend

(* What a join computes before its hook runs is a handler state.           *)
LEMMA JoinedType ==
  ASSUME TypeOK, NEW s \in Sessions, NEW r \in Rooms, NEW H, rid[r] \in RoomIds
  PROVE  [members   |-> [members EXCEPT ![r][s] = @ + 1],
          told      |-> TellJoined(told, s, r),
          wait      |-> Resolve(H),
          listeners |-> [joinListeners EXCEPT ![r] = Without(@, H)],
          twice     |-> IF members[r][s] > 0 THEN twice \cup {<<s, r>>} ELSE twice,
          visited   |-> visited \cup {r}] \in HandlerStates
<1> USE DEF TypeOK
<1>1. [members EXCEPT ![r][s] = @ + 1] \in [Rooms -> [Sessions -> Nat]]
  BY DEF RoomTypeOK
<1>2. TellJoined(told, s, r) \in [Sessions -> SUBSET RoomIds]
  BY DEF TellJoined, HistoryTypeOK, ServerTypeOK
<1>3. Resolve(H) \in [Waits -> WaitRecords]
  <2>1. ASSUME NEW w \in Waits PROVE Resolve(H)[w] \in WaitRecords
    <3> DEFINE q == wait[w]
               x == IF q.result = "none" THEN "true" ELSE q.result
               t == IF q.timer = "armed" THEN "cleared" ELSE q.timer
    <3>1. q \in WaitRecords /\ x \in {"none", "true", "false"}
          /\ t \in {"unset", "armed", "cleared", "popped", "done"}
      BY DEF ThreadTypeOK, WaitRecords
    <3>2. Resolve(H)[w] = IF w \in H THEN [[q EXCEPT !.result = x] EXCEPT !.timer = t] ELSE q
      BY <3>1 DEF Resolve, WaitRecords
    <3> HIDE DEF q, x, t
    <3>3. [[q EXCEPT !.result = x] EXCEPT !.timer = t] \in WaitRecords
      <4>1. [q EXCEPT !.result = x] \in WaitRecords
        BY <3>1, WaitRecordUpdates
      <4> QED
        BY <3>1, <4>1, WaitRecordUpdates
    <3> QED
      BY <3>1, <3>2, <3>3
  <2> QED
    BY <2>1 DEF Resolve
<1>4. [joinListeners EXCEPT ![r] = Without(@, H)] \in [Rooms -> Seq(Waits)]
  <2>1. Without(joinListeners[r], H) \in Seq(Waits)
    BY WithoutProperties DEF RoomTypeOK
  <2> QED
    BY <2>1 DEF RoomTypeOK
<1> QED
  BY <1>1, <1>2, <1>3, <1>4 DEF HandlerStates, HistoryTypeOK

(* Every step keeps the types.                                             *)
LEMMA TypeInvariance ==
  ASSUME TypeOK, [Next]_vars
  PROVE  TypeOK'
<1> USE DEF TypeOK
<1>1. ASSUME NEW s \in Sessions, Connect(s) PROVE TypeOK'
  <2>1. RoomTypeOK' /\ ServerTypeOK' /\ HistoryTypeOK'
    BY <1>1 DEF Connect, RoomTypeOK, ServerTypeOK, HistoryTypeOK,
                roomVars, serverVars, historyVars
  <2>2. ThreadTypeOK'
    BY <1>1 DEF Connect, ThreadTypeOK
  <2> QED
    BY <2>1, <2>2
<1>2. ASSUME NEW r \in Rooms, NEW id \in RoomIds,
             CreateNewRoom(r, id) \/ CreateNewRoomDisposed(r, id)
      PROVE  TypeOK'
  <2>1. Constructs(r, id) /\ Register(r, id)
    BY <1>2 DEF CreateNewRoom, CreateNewRoomDisposed
  <2>2. disposing' \in [Rooms -> BOOLEAN]
    BY <1>2 DEF CreateNewRoom, CreateNewRoomDisposed, RoomTypeOK
  <2>3. RoomTypeOK'
    <3>1. members' \in [Rooms -> [Sessions -> Nat]]
      BY <2>1 DEF Register, RoomTypeOK
    <3>2. joinListeners' \in [Rooms -> Seq(Waits)]
      BY <2>1 DEF Register, RoomTypeOK
    <3>3. obj' \in [Rooms -> {"none", "live", "dangling", "replaced"}]
      BY <2>1 DEF Register, RoomTypeOK
    <3> QED
      BY <2>1, <2>2, <3>1, <3>2, <3>3 DEF Register, ArmAutoDispose, RoomTypeOK
  <2>4. ServerTypeOK'
    BY <2>1 DEF Register, Subscribe, ServerTypeOK
  <2>5. ThreadTypeOK'
    BY <2>1 DEF Constructs, ThreadTypeOK, threadVars
  <2>6. HistoryTypeOK'
    BY <2>1 DEF Constructs, Register, HistoryTypeOK
  <2> QED
    BY <2>3, <2>4, <2>5, <2>6
<1>3. ASSUME NEW s \in Sessions, NEW r \in Rooms, JoinRoom(s, r) PROVE TypeOK'
  <2> DEFINE L == joinListeners[r]
             H == Called(L, IdOf[s])
             h == [members   |-> [members EXCEPT ![r][s] = @ + 1],
                   told      |-> TellJoined(told, s, r),
                   wait      |-> Resolve(H),
                   listeners |-> [joinListeners EXCEPT ![r] = Without(@, H)],
                   twice     |-> IF members[r][s] > 0 THEN twice \cup {<<s, r>>} ELSE twice,
                   visited   |-> visited \cup {r}]
  <2>1. rid[r] \in RoomIds
    BY <1>3 DEF JoinRoom, ServerTypeOK
  <2>2. h \in HandlerStates
    <3> HIDE DEF H
    <3> QED
      BY <2>1, JoinedType
  <2>3. h.members[r][s] > 0
    BY DEF RoomTypeOK
  <2>4. UNCHANGED <<connections, todo, then, worker, uaf>>
    BY <1>3 DEF JoinRoom
  <2>5. \/ /\ members' = h.members
           /\ told' = h.told
           /\ wait' = h.wait
           /\ joinListeners' = h.listeners
           /\ twice' = h.twice
           /\ visited' = h.visited
           /\ UNCHANGED <<obj, rid, disposing, autoTimers, serverVars, pc, lock, stranded>>
        \/ RemoveClient(s, r, s, h)
    BY <1>3 DEF JoinRoom
  <2> HIDE DEF h
  <2>6. HandlerTypeOK' /\ MaySuspend(s)
    <3>1. CASE RemoveClient(s, r, s, h)
      BY <2>2, <2>3, <3>1, RemoveClientType
    <3>2. CASE ~RemoveClient(s, r, s, h)
      BY <2>2, <2>5, <3>2 DEF HandlerTypeOK, HandlerStates, RoomTypeOK, ServerTypeOK,
                              HistoryTypeOK, serverVars, MaySuspend
    <3> QED
      BY <3>1, <3>2
  <2> QED
    BY <2>4, <2>6 DEF HandlerTypeOK, ThreadTypeOK, MaySuspend
<1>4. ASSUME NEW s \in Sessions, NEW r \in Rooms, NEW c \in Sessions, MessageKicks(s, r, c)
      PROVE  TypeOK'
  <2>1. Current \in HandlerStates /\ Current.members[r][c] > 0
    BY <1>4, CurrentType DEF MessageKicks, Current
  <2>2. HandlerTypeOK' /\ MaySuspend(s)
    BY <1>4, <2>1, RemoveClientType DEF MessageKicks
  <2> QED
    BY <1>4, <2>2 DEF MessageKicks, HandlerTypeOK, ThreadTypeOK, MaySuspend
<1>5. ASSUME NEW r \in Rooms, MessageDisposes(r) PROVE TypeOK'
  <2>1. HandlerTypeOK'
    BY <1>5, CurrentType, DisposeType DEF MessageDisposes
  <2> QED
    BY <1>5, <2>1 DEF MessageDisposes, HandlerTypeOK, ThreadTypeOK, threadVars
<1>6. ASSUME NEW s \in Sessions, Disconnect(s) \/ CloseConnection(s) PROVE TypeOK'
  <2>1. PICK next \in {"recv", "done"} : HandleClientDisconnect(s, next)
    BY <1>6 DEF Disconnect, CloseConnection
  <2>2. RoomTypeOK' /\ ServerTypeOK' /\ HistoryTypeOK'
    BY <2>1 DEF HandleClientDisconnect, RoomTypeOK, ServerTypeOK, HistoryTypeOK,
                roomVars, serverVars
  <2>3. ThreadTypeOK'
    BY <2>1 DEF HandleClientDisconnect, ListenersCopy, ThreadTypeOK, ServerTypeOK
  <2> QED
    BY <2>2, <2>3
<1>7. ASSUME NEW s \in Sessions, PublishNext(s) PROVE TypeOK'
  <2> DEFINE r == Head(todo[s])
  <2>1. r \in Rooms /\ Tail(todo[s]) \in Seq(Rooms)
    BY <1>7 DEF PublishNext, ThreadTypeOK
  <2>2. /\ Use(r)
        /\ todo' = [todo EXCEPT ![s] = Tail(@)]
        /\ UNCHANGED <<connections, then, worker>>
        /\ \/ UNCHANGED <<roomVars, serverVars, pc, lock, wait, historyVars>>
           \/ members[r][s] > 0 /\ RemoveClient(s, r, s, Current)
    BY <1>7 DEF PublishNext, IsMember
  <2> HIDE DEF r
  <2>3. HandlerTypeOK' /\ MaySuspend(s)
    <3>1. CASE members[r][s] > 0 /\ RemoveClient(s, r, s, Current)
      <4>1. Current \in HandlerStates /\ Current.members[r][s] > 0
        BY <3>1, CurrentType DEF Current
      <4> QED
        BY <2>1, <3>1, <4>1, RemoveClientType
    <3>2. CASE UNCHANGED <<roomVars, serverVars, pc, lock, wait, historyVars>>
      BY <3>2 DEF HandlerTypeOK, RoomTypeOK, ServerTypeOK, ThreadTypeOK, HistoryTypeOK,
                  roomVars, serverVars, historyVars, MaySuspend
    <3> QED
      BY <2>2, <3>1, <3>2
  <2> QED
    BY <2>1, <2>2, <2>3 DEF HandlerTypeOK, ThreadTypeOK, Use, MaySuspend
<1>8. ASSUME NEW s \in Sessions, PublishEnd(s) PROVE TypeOK'
  BY <1>8 DEF PublishEnd, RoomTypeOK, ServerTypeOK, ThreadTypeOK, HistoryTypeOK,
              roomVars, serverVars, historyVars
<1>9. ASSUME NEW s \in Sessions, Resume(s) PROVE TypeOK'
  <2>1. PICK w \in Waits :
          /\ Use(wait[w].room)
          /\ lock' = s
          /\ pc' = [pc EXCEPT ![s] = "publish"]
          /\ UNCHANGED <<connections, todo, then, worker>>
          /\ DisposeIfEmpty(wait[w].room,
                            [Current EXCEPT !.wait = Forget([@ EXCEPT ![w].thread = NoThread])])
    BY <1>9 DEF Resume
  <2>2. Forget([wait EXCEPT ![w].thread = NoThread]) \in [Waits -> WaitRecords]
    BY WaitRecordUpdates, ForgetType DEF ThreadTypeOK
  <2>3. [Current EXCEPT !.wait = Forget([@ EXCEPT ![w].thread = NoThread])] \in HandlerStates
    BY <2>2, CurrentType DEF HandlerStates, Current
  <2>4. HandlerTypeOK'
    BY <2>1, <2>3, DisposeType DEF DisposeIfEmpty
  <2> QED
    BY <2>1, <2>4 DEF HandlerTypeOK, ThreadTypeOK, Use
<1>10. ASSUME NEW r \in Rooms, WorkerTakesAuto(r) PROVE TypeOK'
  BY <1>10 DEF WorkerTakesAuto, Workers, RoomTypeOK, ServerTypeOK, ThreadTypeOK, HistoryTypeOK,
               serverVars, threadVars, historyVars
<1>11. ASSUME NEW w \in Waits, WorkerTakesWait(w) PROVE TypeOK'
  <2>1. wait' \in [Waits -> WaitRecords]
    BY <1>11, WaitRecordUpdates DEF WorkerTakesWait, ThreadTypeOK
  <2> QED
    BY <1>11, <2>1 DEF WorkerTakesWait, Workers, RoomTypeOK, ServerTypeOK, ThreadTypeOK,
                       HistoryTypeOK, roomVars, serverVars, threadVars, historyVars
<1>12. CASE WorkerRunsAuto
  <2>1. HandlerTypeOK'
    BY <1>12, CurrentType, DisposeType DEF WorkerRunsAuto
  <2> QED
    BY <1>12, <2>1 DEF WorkerRunsAuto, HandlerTypeOK, ThreadTypeOK, Use, threadVars, Workers, Idle
<1>13. CASE WorkerRunsWait
  <2> DEFINE w == worker.wait
             r == wait[w].room
             back == \E s \in Present(members, r) : IdOf[s] = wait[w].id
  <2>1. /\ worker' = Idle
        /\ Use(r)
        /\ wait' = Forget([wait EXCEPT ![w].timer = "done",
                                       ![w].result = TimeoutResult(@, back)])
        /\ joinListeners' = [joinListeners EXCEPT ![r] = Without(@, {w})]
        /\ UNCHANGED <<obj, rid, disposing, members, autoTimers, serverVars, connections,
                       threadVars, historyVars>>
    BY <1>13 DEF WorkerRunsWait
  <2> HIDE DEF w, back
  <2>2. wait' \in [Waits -> WaitRecords]
    <3> DEFINE x == TimeoutResult(wait[w].result, back)
    <3>1. CASE w \in Waits
      <4>1. wait[w] \in WaitRecords /\ wait[w].result \in {"none", "true", "false"}
        BY <3>1 DEF ThreadTypeOK, WaitRecords
      <4>2. x \in {"none", "true", "false"}
        BY <4>1 DEF TimeoutResult
      <4> HIDE DEF x
      <4>3. [[wait[w] EXCEPT !.timer = "done"] EXCEPT !.result = x] \in WaitRecords
        BY <4>1, <4>2, WaitRecordUpdates
      <4>4. [wait EXCEPT ![w] = [[wait[w] EXCEPT !.timer = "done"] EXCEPT !.result = x]]
              \in [Waits -> WaitRecords]
        BY <4>3 DEF ThreadTypeOK
      <4>5. [wait EXCEPT ![w].timer = "done", ![w].result = TimeoutResult(@, back)]
              = [wait EXCEPT ![w] = [[wait[w] EXCEPT !.timer = "done"] EXCEPT !.result = x]]
        BY <3>1, <4>1 DEF ThreadTypeOK, WaitRecords, x
      <4> QED
        BY <2>1, <4>4, <4>5, ForgetType
    <3>2. CASE w \notin Waits
      BY <2>1, <3>2, ForgetType DEF ThreadTypeOK
    <3> QED
      BY <3>1, <3>2
  <2>3. joinListeners' \in [Rooms -> Seq(Waits)]
    <3>1. r \in Rooms => Without(joinListeners[r], {w}) \in Seq(Waits)
      BY WithoutProperties DEF RoomTypeOK
    <3> QED
      BY <2>1, <3>1 DEF RoomTypeOK
  <2> QED
    BY <2>1, <2>2, <2>3 DEF RoomTypeOK, ServerTypeOK, ThreadTypeOK, HistoryTypeOK, serverVars,
                            threadVars, historyVars, Use, Workers, Idle
<1>14. CASE Shutdown
  <2>1. HandlerTypeOK'
    BY <1>14, CurrentType, DisposeType DEF Shutdown
  <2> QED
    BY <1>14, <2>1 DEF Shutdown, HandlerTypeOK, ThreadTypeOK, threadVars
<1>15. CASE UNCHANGED vars
  BY <1>15 DEF vars, RoomTypeOK, ServerTypeOK, ThreadTypeOK, HistoryTypeOK, roomVars, serverVars,
               threadVars, historyVars
<1>16. ASSUME NEW id \in RoomIds, SnapshotExpires(id) PROVE TypeOK'
  BY <1>16 DEF SnapshotExpires, RoomTypeOK, ServerTypeOK, ThreadTypeOK, HistoryTypeOK, roomVars,
               threadVars, historyVars
<1>17. ASSUME NEW r \in Rooms, MessageReachesFreed(r) PROVE TypeOK'
  BY <1>17 DEF MessageReachesFreed, Use, RoomTypeOK, ServerTypeOK, ThreadTypeOK, HistoryTypeOK,
               roomVars, serverVars, threadVars, historyVars
<1> QED
  BY <1>1, <1>2, <1>3, <1>4, <1>5, <1>6, <1>7, <1>8, <1>9, <1>10, <1>11, <1>12, <1>13, <1>14,
     <1>15, <1>16, <1>17 DEF Next, ClientStep, ServerStep, ApplicationStep, WorkerStep

(* The initial state is typed.                                             *)
LEMMA InitType ==
  ASSUME Init
  PROVE  TypeOK
<1>1. RoomTypeOK /\ ServerTypeOK /\ HistoryTypeOK
  BY DEF Init, RoomTypeOK, ServerTypeOK, HistoryTypeOK
<1>2. wait \in [Waits -> WaitRecords] /\ worker \in Workers
  <2>1. NoWait \in WaitRecords /\ Idle \in Workers
    BY DEF WaitRecords, NoWait, Workers, Idle
  <2> QED
    BY <2>1 DEF Init
<1>3. ThreadTypeOK
  <2>1. pc \in [Sessions -> {"new", "recv", "publish", "waiting", "done"}]
        /\ then \in [Sessions -> {"recv", "done"}]
    BY DEF Init
  <2>2. todo \in [Sessions -> Seq(Rooms)]
    BY DEF Init
  <2>3. connections \subseteq Sessions /\ lock \in Sessions \cup {NoThread} /\ uaf = {}
    BY DEF Init
  <2> QED
    BY <1>2, <2>1, <2>2, <2>3 DEF ThreadTypeOK
<1> QED
  BY <1>1, <1>3 DEF TypeOK

(* Every variable keeps its type; in particular remove_client never erases *)
(* an entry that clients_ does not have.                                   *)
THEOREM TypeCorrect == Spec => []TypeOK
<1>1. Init => TypeOK
  BY InitType
<1>2. TypeOK /\ [Next]_vars => TypeOK'
  BY TypeInvariance
<1> QED
  BY <1>1, <1>2, PTL DEF Spec
-------------------------------------------------------------------------------
(***************************************************************************)
(* The registry.  RegistryConsistent and SubscribersAreLive support each   *)
(* other: a disposed room is found in managing_rooms_ under its own id, so *)
(* exactly the disposed rooms are destroyed, and they are exactly the ones *)
(* that leave the storage and the listener lists.  The timer of each room  *)
(* that can be disposed is ahead of it, so that only an undying room loses *)
(* its snapshot, and its id, while it is managed.                          *)
(***************************************************************************)

(* A suspended thread is suspended in a room.                              *)
SuspendedInRoom == \A w \in Waits : wait[w].thread # NoThread => wait[w].room \in Rooms

(* Without LifetimeIsBounded a snapshot could expire, and its id be used   *)
(* again, while the room can still be disposed.                            *)
RegistryInv == /\ TypeOK /\ RegistryConsistent /\ SubscribersAreLive
               /\ SuspendedInRoom /\ LifetimeIsBounded

(* Disposing a room takes its timer and its claim to one away together.    *)
LEMMA DisposeLifetime ==
  ASSUME RegistryInv, NEW D \in SUBSET Rooms, NEW h, Dispose(D, h)
  PROVE  \A r \in Live' : ~disposing'[r] =>
           /\ r \in Live /\ ~disposing[r] /\ r \notin D
           /\ r \in autoTimers => r \in autoTimers'
<1> DEFINE now   == {r \in D : obj[r] = "live" /\ ~disposing[r]}
           ids   == {rid[r] : r \in now}
           freed == {managed[i] : i \in ids} \ {NoRoom}
<1> SUFFICES ASSUME NEW r \in Live', ~disposing'[r]
             PROVE  /\ r \in Live /\ ~disposing[r] /\ r \notin D
                    /\ r \in autoTimers => r \in autoTimers'
  OBVIOUS
<1>1. /\ disposing' = [q \in Rooms |-> (disposing[q] \/ q \in now) /\ q \notin freed]
      /\ autoTimers' = autoTimers \ now
      /\ obj' = [q \in Rooms |-> IF q \in freed
                                 THEN IF Referenced(q)' THEN "dangling" ELSE "none"
                                 ELSE obj[q]]
  BY DEF Dispose
<1>2. now \subseteq freed
  BY RoomsAssumption DEF RegistryInv, RegistryConsistent, Live
<1> HIDE DEF freed
<1>3. r \in Rooms /\ r \notin freed /\ obj[r] = "live"
  BY <1>1 DEF Live
<1>4. ~disposing[r] /\ r \notin now
  BY <1>1, <1>2, <1>3
<1>5. r \notin D
  BY <1>3, <1>4
<1> QED
  BY <1>1, <1>3, <1>4, <1>5 DEF Live

(* Every step keeps the timer of every room that needs one.                *)
LEMMA LifetimeInvariance ==
  ASSUME RegistryInv, [Next]_vars
  PROVE  LifetimeIsBounded'
<1>0. LifetimeIsBounded
  BY DEF RegistryInv
<1>1. ASSUME UNCHANGED <<obj, disposing, autoTimers>>, worker' = worker \/ worker.kind # "auto"
      PROVE  LifetimeIsBounded'
  BY <1>0, <1>1 DEF LifetimeIsBounded, Live
<1>2. ASSUME NEW D \in SUBSET Rooms, NEW h, Dispose(D, h),
             worker' = worker \/ (worker.kind = "auto" /\ worker.room \in D)
      PROVE  LifetimeIsBounded'
  BY <1>0, <1>2, DisposeLifetime DEF LifetimeIsBounded
<1>3. ASSUME NEW s \in Sessions, NEW r \in Rooms, NEW c, NEW h, RemoveClient(s, r, c, h),
             worker' = worker
      PROVE  LifetimeIsBounded'
  <2> DEFINE g == [h EXCEPT !.members = EraseEntry(@, r, c), !.told = TellRemoved(@, c, r)]
  <2> HIDE DEF g
  <2>1. CASE DisposeIfEmpty(r, g)
    <3>1. PICK D \in SUBSET Rooms : Dispose(D, g)
      BY <2>1 DEF DisposeIfEmpty
    <3> QED
      BY <1>2, <1>3, <3>1
  <2>2. CASE AllowReconnection(s, r, c, g)
    BY <1>1, <1>3, <2>2 DEF AllowReconnection
  <2> QED
    BY <1>3, <2>1, <2>2 DEF RemoveClient, g
<1>4. ASSUME NEW r \in Rooms, NEW id \in RoomIds,
             CreateNewRoom(r, id) \/ CreateNewRoomDisposed(r, id)
      PROVE  LifetimeIsBounded'
  <2>1. /\ obj' = [q \in Rooms |-> IF q = r THEN "live"
                                   ELSE IF q = managed[id] THEN "replaced" ELSE obj[q]]
        /\ autoTimers' = autoTimers \cup {r}
        /\ worker' = worker
    BY <1>4 DEF CreateNewRoom, CreateNewRoomDisposed, Constructs, Register, ArmAutoDispose
  <2>2. \A q \in Rooms : q # r => disposing'[q] = disposing[q]
    BY <1>4 DEF CreateNewRoom, CreateNewRoomDisposed, RegistryInv, TypeOK, RoomTypeOK
  <2>3. \A q \in Live' : q # r => q \in Live
    BY <2>1 DEF Live, RegistryInv, TypeOK, RoomTypeOK
  <2> QED
    BY <1>0, <2>1, <2>2, <2>3 DEF LifetimeIsBounded, Live
<1>5. ASSUME NEW s \in Sessions, NEW r \in Rooms, JoinRoom(s, r)
      PROVE  LifetimeIsBounded'
  BY <1>1, <1>3, <1>5 DEF JoinRoom
<1>6. ASSUME NEW s \in Sessions, NEW r \in Rooms, NEW c \in Sessions, MessageKicks(s, r, c)
      PROVE  LifetimeIsBounded'
  BY <1>3, <1>6 DEF MessageKicks
<1>7. ASSUME NEW r \in Rooms, MessageDisposes(r)
      PROVE  LifetimeIsBounded'
  BY <1>2, <1>7 DEF MessageDisposes
<1>8. ASSUME NEW s \in Sessions, PublishNext(s)
      PROVE  LifetimeIsBounded'
  <2>1. Head(todo[s]) \in Rooms
    BY <1>8 DEF PublishNext, RegistryInv, TypeOK, ThreadTypeOK
  <2> QED
    BY <1>1, <1>3, <1>8, <2>1 DEF PublishNext, roomVars
<1>9. ASSUME NEW s \in Sessions, Resume(s)
      PROVE  LifetimeIsBounded'
  <2>1. PICK w \in Waits :
          /\ wait[w].thread = s
          /\ worker' = worker
          /\ DisposeIfEmpty(wait[w].room,
                            [Current EXCEPT !.wait = Forget([@ EXCEPT ![w].thread = NoThread])])
    BY <1>9 DEF Resume
  <2>2. wait[w].room \in Rooms
    BY <2>1, SessionsAssumption DEF RegistryInv, SuspendedInRoom
  <2>3. PICK D \in SUBSET Rooms :
          Dispose(D, [Current EXCEPT !.wait = Forget([@ EXCEPT ![w].thread = NoThread])])
    BY <2>1, <2>2 DEF DisposeIfEmpty
  <2> QED
    BY <1>2, <2>1, <2>3
<1>10. ASSUME NEW r \in Rooms, WorkerTakesAuto(r)
       PROVE  LifetimeIsBounded'
  BY <1>0, <1>10 DEF WorkerTakesAuto, LifetimeIsBounded, Live, Idle
<1>11. ASSUME NEW w \in Waits, WorkerTakesWait(w)
       PROVE  LifetimeIsBounded'
  BY <1>1, <1>11 DEF WorkerTakesWait, roomVars, Idle
<1>12. CASE WorkerRunsAuto
  <2>1. worker.room \in Rooms /\ worker.kind = "auto"
    BY <1>12 DEF WorkerRunsAuto, RegistryInv, TypeOK, ThreadTypeOK, Workers
  <2> QED
    BY <1>2, <1>12, <2>1 DEF WorkerRunsAuto
<1>13. CASE WorkerRunsWait
  BY <1>1, <1>13 DEF WorkerRunsWait
<1>14. CASE Shutdown
  <2>1. {managed[i] : i \in RoomIds} \ {NoRoom} \in SUBSET Rooms
    BY DEF RegistryInv, TypeOK, ServerTypeOK
  <2> QED
    BY <1>2, <1>14, <2>1 DEF Shutdown
<1>15. ASSUME NEW s \in Sessions, Connect(s) \/ Disconnect(s) \/ CloseConnection(s) \/ PublishEnd(s)
       PROVE  LifetimeIsBounded'
  BY <1>1, <1>15 DEF Connect, Disconnect, CloseConnection, HandleClientDisconnect, PublishEnd, roomVars
<1>16. CASE UNCHANGED vars
  BY <1>1, <1>16 DEF vars, roomVars
<1>17. ASSUME NEW s \in Sessions, ClientStep(s) \/ ServerStep(s)
       PROVE  LifetimeIsBounded'
  BY <1>5, <1>6, <1>8, <1>9, <1>15, <1>17 DEF ClientStep, ServerStep
<1>20. ASSUME (\E id \in RoomIds : SnapshotExpires(id)) \/ \E r \in Rooms : MessageReachesFreed(r)
       PROVE  LifetimeIsBounded'
  BY <1>1, <1>20 DEF SnapshotExpires, MessageReachesFreed, roomVars
<1>18. CASE ApplicationStep
  BY <1>4, <1>7, <1>14, <1>18, <1>20 DEF ApplicationStep
<1>19. CASE WorkerStep
  BY <1>10, <1>11, <1>12, <1>13, <1>19 DEF WorkerStep
<1> QED
  BY <1>16, <1>17, <1>18, <1>19 DEF Next

(* Disposing rooms keeps the registry, the heap and the pub/sub agreed.    *)
LEMMA DisposeRegistry ==
  ASSUME RegistryInv, NEW D \in SUBSET Rooms, NEW h, Dispose(D, h)
  PROVE  RegistryConsistent' /\ SubscribersAreLive' /\ wait' = h.wait
<1> DEFINE now   == {r \in D : obj[r] = "live" /\ ~disposing[r]}
           ids   == {rid[r] : r \in now}
           freed == {managed[i] : i \in ids} \ {NoRoom}
<1>1. /\ wait' = h.wait
      /\ stored' = stored \ ids
      /\ Unsubscribe(now)
      /\ managed' = [i \in RoomIds |-> IF i \in ids THEN NoRoom ELSE managed[i]]
      /\ obj' = [r \in Rooms |-> IF r \in freed
                                 THEN IF Referenced(r)' THEN "dangling" ELSE "none"
                                 ELSE obj[r]]
      /\ rid' = [r \in Rooms |-> IF r \in freed THEN NoRoom ELSE rid[r]]
      /\ disposing' = [r \in Rooms |-> (disposing[r] \/ r \in now) /\ r \notin freed]
  BY DEF Dispose
<1> USE DEF RegistryInv, TypeOK
<1>2. now \subseteq Live
  BY DEF Live
<1>3. \A r \in Live : rid[r] \in RoomIds /\ managed[rid[r]] = r /\ r \in Rooms /\ r # NoRoom
  BY RoomsAssumption DEF RegistryConsistent, Live
<1>4. freed = now
  BY <1>2, <1>3
<1>5. \A r \in Live : rid[r] \in ids <=> r \in now
  BY <1>2, <1>3
<1>6. Live' = Live \ now
  BY <1>1, <1>4 DEF Live
<1> HIDE DEF now, ids, freed
<1>7. \A r \in Live \ now : rid'[r] = rid[r]
  BY <1>1, <1>3, <1>4
<1>8. RegistryConsistent'
  <2>1. \A i \in stored' : managed'[i] # NoRoom
    BY <1>1 DEF RegistryConsistent, ServerTypeOK
  <2>2. ASSUME NEW i \in RoomIds, managed'[i] # NoRoom
        PROVE  /\ managed'[i] \in Live' /\ rid'[managed'[i]] = i
               /\ i \in stored' \/ disposing'[managed'[i]]
    <3>1. i \notin ids /\ managed'[i] = managed[i]
      BY <1>1, <2>2
    <3>2. managed[i] \in Live /\ rid[managed[i]] = i /\ (i \in stored \/ disposing[managed[i]])
      BY <2>2, <3>1 DEF RegistryConsistent
    <3>3. managed[i] \in Rooms \ now
      BY <1>3, <1>5, <3>1, <3>2
    <3> QED
      BY <1>1, <1>4, <1>6, <1>7, <3>1, <3>2, <3>3
  <2>3. \A r \in Live' : rid'[r] \in RoomIds /\ managed'[rid'[r]] = r
    BY <1>1, <1>3, <1>5, <1>6, <1>7
  <2> QED
    BY <2>1, <2>2, <2>3 DEF RegistryConsistent
<1>9. SubscribersAreLive'
  <2>1. msgSubs' = msgSubs \ now /\ leftSubs' = Without(leftSubs, now)
    BY <1>1 DEF Unsubscribe
  <2>2. leftSubs \in Seq(Rooms) /\ Distinct(leftSubs) /\ Elements(leftSubs) = msgSubs
        /\ Live \subseteq msgSubs
    BY DEF ServerTypeOK, SubscribersAreLive
  <2>3. Elements(leftSubs') = msgSubs' /\ Distinct(leftSubs')
    BY <2>1, <2>2, WithoutProperties
  <2>4. Live' \subseteq msgSubs'
    BY <1>6, <2>1, <2>2
  <2>5. ASSUME NEW r \in msgSubs' \ Live'
        PROVE  obj'[r] = "replaced" /\ disposing'[r]
    <3>1. r \in msgSubs \ Live /\ r \notin now /\ r \in Rooms
      BY <1>6, <2>1 DEF ServerTypeOK
    <3>2. obj[r] = "replaced" /\ disposing[r]
      BY <3>1 DEF SubscribersAreLive
    <3> QED
      BY <1>1, <1>4, <3>1, <3>2
  <2> QED
    BY <2>3, <2>4, <2>5 DEF SubscribersAreLive, Distinct, Elements
<1> QED
  BY <1>1, <1>8, <1>9

(* A step that touches none of them does, too.                             *)
LEMMA UnchangedRegistry ==
  ASSUME RegistryInv, UNCHANGED <<obj, rid, disposing, serverVars>>
  PROVE  RegistryConsistent' /\ SubscribersAreLive'
<1>1. Live' = Live
  BY DEF Live
<1> QED
  BY <1>1 DEF RegistryInv, RegistryConsistent, SubscribersAreLive, Distinct, Elements, serverVars

(* Removing a client disposes its room, or leaves the registry alone.      *)
LEMMA RemoveClientRegistry ==
  ASSUME RegistryInv, NEW s \in Sessions, NEW r \in Rooms, NEW c, NEW h,
         h.wait \in [Waits -> WaitRecords],
         \A w \in Waits : h.wait[w].thread # NoThread => h.wait[w].room \in Rooms,
         RemoveClient(s, r, c, h)
  PROVE  RegistryConsistent' /\ SubscribersAreLive' /\ SuspendedInRoom'
<1> DEFINE g == [h EXCEPT !.members = EraseEntry(@, r, c), !.told = TellRemoved(@, c, r)]
<1>1. g.wait = h.wait
  OBVIOUS
<1>2. CASE DisposeIfEmpty(r, g)
  <2>1. PICK D \in SUBSET Rooms : Dispose(D, g)
    BY <1>2 DEF DisposeIfEmpty
  <2> HIDE DEF g
  <2>2. RegistryConsistent' /\ SubscribersAreLive' /\ wait' = h.wait
    BY <1>1, <2>1, DisposeRegistry
  <2> QED
    BY <2>2 DEF SuspendedInRoom
<1>3. CASE AllowReconnection(s, r, c, g)
  <2> HIDE DEF g
  <2>1. RegistryConsistent' /\ SubscribersAreLive'
    BY <1>3, UnchangedRegistry DEF AllowReconnection
  <2>2. PICK w \in Waits :
          wait' = [h.wait EXCEPT ![w] = [thread |-> s, room |-> r, id |-> IdOf[c],
                                         result |-> "none", timer |-> "armed"]]
    BY <1>1, <1>3 DEF AllowReconnection
  <2> QED
    BY <2>1, <2>2 DEF SuspendedInRoom
<1> QED
  BY <1>2, <1>3 DEF RemoveClient

(* Every step keeps registry, heap and pub/sub agreed.                     *)
LEMMA RegistryInvariance ==
  ASSUME RegistryInv, [Next]_vars
  PROVE  RegistryInv'
<1> USE DEF RegistryInv
<1>0. TypeOK' /\ LifetimeIsBounded'
  BY TypeInvariance, LifetimeInvariance
<1> SUFFICES RegistryConsistent' /\ SubscribersAreLive' /\ SuspendedInRoom'
  BY <1>0
<1>1. ASSUME UNCHANGED <<obj, rid, disposing, serverVars, wait>>
      PROVE  RegistryConsistent' /\ SubscribersAreLive' /\ SuspendedInRoom'
  BY <1>1, UnchangedRegistry DEF SuspendedInRoom
<1>2. ASSUME NEW D \in SUBSET Rooms, NEW h, Dispose(D, h), h.wait = wait
      PROVE  RegistryConsistent' /\ SubscribersAreLive' /\ SuspendedInRoom'
  BY <1>2, DisposeRegistry DEF SuspendedInRoom
<1>3. Current.wait = wait
  BY DEF Current
<1>4. ASSUME NEW r \in Rooms, NEW id \in RoomIds, CreateNewRoom(r, id) \/ CreateNewRoomDisposed(r, id)
      PROVE  RegistryConsistent' /\ SubscribersAreLive' /\ SuspendedInRoom'
  <2> DEFINE old == managed[id]
  <2>0. Constructs(r, id) /\ Register(r, id) /\ \A q \in Rooms : q # r => disposing'[q] = disposing[q]
    BY <1>4 DEF CreateNewRoom, CreateNewRoomDisposed, TypeOK, RoomTypeOK
  <2>1. /\ obj[r] = "none" /\ id \notin stored
        /\ obj' = [q \in Rooms |-> IF q = r THEN "live" ELSE IF q = old THEN "replaced" ELSE obj[q]]
        /\ rid' = [rid EXCEPT ![r] = id]
        /\ stored' = stored \cup {id} /\ managed' = [managed EXCEPT ![id] = r]
        /\ msgSubs' = msgSubs \cup {r} /\ leftSubs' = Append(leftSubs, r)
    BY <2>0 DEF Constructs, UnusedId, Register, Subscribe
  <2>2. Live' = (Live \ {old}) \cup {r} /\ r \notin Live /\ r # NoRoom /\ r # old
    <3>1. r \notin Live /\ r # NoRoom
      BY <2>1, RoomsAssumption DEF Live
    <3>2. old # r
      BY <3>1 DEF RegistryConsistent
    <3> QED
      BY <2>1, <3>1, <3>2 DEF Live
  <2>3. old # NoRoom => old \in Live /\ rid[old] = id /\ disposing[old]
    BY <2>1 DEF RegistryConsistent
  <2>4. RegistryConsistent'
    <3>1. \A i \in stored' : managed'[i] # NoRoom
      BY <2>1, <2>2 DEF RegistryConsistent, TypeOK, ServerTypeOK
    <3>2. ASSUME NEW i \in RoomIds, managed'[i] # NoRoom
          PROVE  /\ managed'[i] \in Live' /\ rid'[managed'[i]] = i
                 /\ i \in stored' \/ disposing'[managed'[i]]
      <4>1. CASE i = id
        BY <2>1, <2>2, <4>1 DEF TypeOK, ServerTypeOK, RoomTypeOK
      <4>2. CASE i # id
        <5>1. managed'[i] = managed[i] /\ managed[i] \in Live /\ rid[managed[i]] = i
              /\ (i \in stored \/ disposing[managed[i]])
          BY <2>1, <3>2, <4>2 DEF RegistryConsistent, TypeOK, ServerTypeOK
        <5>2. managed[i] # old /\ managed[i] # r
          BY <2>2, <2>3, <4>2, <5>1, RoomsAssumption DEF Live
        <5> QED
          BY <2>0, <2>1, <2>2, <5>1, <5>2 DEF TypeOK, RoomTypeOK, Live
      <4> QED
        BY <4>1, <4>2
    <3>3. ASSUME NEW q \in Live'
          PROVE  rid'[q] \in RoomIds /\ managed'[rid'[q]] = q
      <4>1. CASE q = r
        BY <2>1, <4>1 DEF TypeOK, ServerTypeOK, RoomTypeOK
      <4>2. CASE q # r
        <5>1. q \in Live /\ q # old /\ rid[q] \in RoomIds /\ managed[rid[q]] = q
          BY <2>2, <4>2 DEF RegistryConsistent
        <5> QED
          BY <2>1, <4>2, <5>1 DEF TypeOK, ServerTypeOK, RoomTypeOK, Live
      <4> QED
        BY <4>1, <4>2
    <3> QED
      BY <3>1, <3>2, <3>3 DEF RegistryConsistent
  <2>5. SubscribersAreLive'
    <3>1. leftSubs \in Seq(Rooms) /\ Distinct(leftSubs) /\ Elements(leftSubs) = msgSubs /\ Live \subseteq msgSubs
          /\ msgSubs \subseteq Rooms
      BY DEF TypeOK, ServerTypeOK, SubscribersAreLive
    <3>4. r \notin msgSubs
      BY <2>1, <2>2 DEF SubscribersAreLive
    <3>2. Elements(leftSubs') = msgSubs' /\ Distinct(leftSubs')
      BY <2>1, <3>1, <3>4, AppendListener
    <3>3. ASSUME NEW q \in msgSubs' \ Live'
          PROVE  obj'[q] = "replaced" /\ disposing'[q]
      <4>1. q \in msgSubs /\ q # r /\ q \in Rooms
        BY <2>1, <2>2, <3>1
      <4>2. CASE q = old
        BY <2>0, <2>1, <2>3, <4>1, <4>2, RoomsAssumption
      <4>3. CASE q # old
        <5>1. obj[q] = "replaced" /\ disposing[q]
          BY <2>2, <4>1, <4>3 DEF SubscribersAreLive
        <5> QED
          BY <2>0, <2>1, <4>1, <4>3, <5>1
      <4> QED
        BY <4>2, <4>3
    <3> QED
      BY <2>1, <2>2, <3>1, <3>2, <3>3 DEF SubscribersAreLive, Elements, Distinct
  <2>6. SuspendedInRoom'
    BY <2>0 DEF Constructs, SuspendedInRoom
  <2> QED
    BY <2>4, <2>5, <2>6
<1>5. ASSUME NEW s \in Sessions, NEW r \in Rooms, JoinRoom(s, r)
      PROVE  RegistryConsistent' /\ SubscribersAreLive' /\ SuspendedInRoom'
  <2> DEFINE L == joinListeners[r]
             H == Called(L, IdOf[s])
             h == [members   |-> [members EXCEPT ![r][s] = @ + 1],
                   told      |-> TellJoined(told, s, r),
                   wait      |-> Resolve(H),
                   listeners |-> [joinListeners EXCEPT ![r] = Without(@, H)],
                   twice     |-> IF members[r][s] > 0 THEN twice \cup {<<s, r>>} ELSE twice,
                   visited   |-> visited \cup {r}]
  <2>1. h.wait = Resolve(H)
    OBVIOUS
  <2>2. \/ wait' = h.wait /\ UNCHANGED <<obj, rid, disposing, serverVars>>
        \/ RemoveClient(s, r, s, h)
    BY <1>5 DEF JoinRoom
  <2>3. h.wait \in [Waits -> WaitRecords]
    <3>1. rid[r] \in RoomIds
      BY <1>5 DEF JoinRoom, TypeOK, ServerTypeOK
    <3> HIDE DEF H
    <3> QED
      BY <3>1, JoinedType DEF HandlerStates
  <2>4. \A w \in Waits : h.wait[w].thread # NoThread => h.wait[w].room \in Rooms
    <3> HIDE DEF H
    <3>1. ASSUME NEW w \in Waits
          PROVE  Resolve(H)[w].thread = wait[w].thread /\ Resolve(H)[w].room = wait[w].room
      BY DEF Resolve, TypeOK, ThreadTypeOK, WaitRecords
    <3> QED
      BY <2>1, <3>1 DEF SuspendedInRoom
  <2> HIDE DEF h
  <2>5. CASE RemoveClient(s, r, s, h)
    BY <2>3, <2>4, <2>5, RemoveClientRegistry
  <2>6. CASE wait' = h.wait /\ UNCHANGED <<obj, rid, disposing, serverVars>>
    BY <2>4, <2>6, UnchangedRegistry DEF SuspendedInRoom
  <2> QED
    BY <2>2, <2>5, <2>6
<1>6. ASSUME NEW s \in Sessions, NEW r \in Rooms, NEW c, RemoveClient(s, r, c, Current)
      PROVE  RegistryConsistent' /\ SubscribersAreLive' /\ SuspendedInRoom'
  BY <1>3, <1>6, RemoveClientRegistry DEF TypeOK, ThreadTypeOK, SuspendedInRoom
<1>7. ASSUME NEW s \in Sessions, PublishNext(s)
      PROVE  RegistryConsistent' /\ SubscribersAreLive' /\ SuspendedInRoom'
  <2>1. Head(todo[s]) \in Rooms
    BY <1>7 DEF PublishNext, TypeOK, ThreadTypeOK
  <2>2. \/ UNCHANGED <<roomVars, serverVars, wait>>
        \/ RemoveClient(s, Head(todo[s]), s, Current)
    BY <1>7 DEF PublishNext
  <2> QED
    BY <1>1, <1>6, <2>1, <2>2 DEF roomVars
<1>8. ASSUME NEW s \in Sessions, Resume(s)
      PROVE  RegistryConsistent' /\ SubscribersAreLive' /\ SuspendedInRoom'
  <2> DEFINE W(w) == Forget([wait EXCEPT ![w].thread = NoThread])
  <2>1. PICK w \in Waits :
          /\ wait[w].thread = s
          /\ DisposeIfEmpty(wait[w].room,
                            [Current EXCEPT !.wait = Forget([@ EXCEPT ![w].thread = NoThread])])
    BY <1>8 DEF Resume
  <2>2. wait[w].room \in Rooms
    BY <2>1, SessionsAssumption DEF SuspendedInRoom
  <2>3. RegistryConsistent' /\ SubscribersAreLive' /\ wait' = W(w)
    <3> DEFINE h == [Current EXCEPT !.wait = Forget([@ EXCEPT ![w].thread = NoThread])]
    <3>1. h.wait = W(w)
      BY DEF Current
    <3>2. PICK D \in SUBSET Rooms : Dispose(D, h)
      BY <2>1, <2>2 DEF DisposeIfEmpty
    <3> HIDE DEF h
    <3> QED
      BY <3>1, <3>2, DisposeRegistry
  <2>4. ASSUME NEW v \in Waits, W(w)[v].thread # NoThread
        PROVE  W(w)[v].room \in Rooms
    <3>1. W(w)[v] = NoWait \/ W(w)[v] = [wait EXCEPT ![w].thread = NoThread][v]
      BY DEF Forget
    <3>2. NoWait.thread = NoThread
      BY DEF NoWait
    <3>3. [wait EXCEPT ![w].thread = NoThread][v].room = wait[v].room
      BY DEF TypeOK, ThreadTypeOK, WaitRecords
    <3>4. [wait EXCEPT ![w].thread = NoThread][v].thread # NoThread => wait[v].thread # NoThread
      BY DEF TypeOK, ThreadTypeOK, WaitRecords
    <3> QED
      BY <2>4, <3>1, <3>2, <3>3, <3>4 DEF SuspendedInRoom
  <2> QED
    BY <2>3, <2>4 DEF SuspendedInRoom
<1>9. ASSUME NEW w \in Waits, WorkerTakesWait(w)
      PROVE  RegistryConsistent' /\ SubscribersAreLive' /\ SuspendedInRoom'
  <2>1. RegistryConsistent' /\ SubscribersAreLive'
    BY <1>9, UnchangedRegistry DEF WorkerTakesWait, roomVars
  <2>2. \A v \in Waits : wait'[v].thread = wait[v].thread /\ wait'[v].room = wait[v].room
    BY <1>9 DEF WorkerTakesWait, TypeOK, ThreadTypeOK, WaitRecords
  <2> QED
    BY <2>1, <2>2 DEF SuspendedInRoom
<1>10. CASE WorkerRunsAuto
  <2>1. worker.room \in Rooms
    BY <1>10 DEF WorkerRunsAuto, TypeOK, ThreadTypeOK, Workers
  <2> QED
    BY <1>2, <1>3, <1>10, <2>1 DEF WorkerRunsAuto
<1>11. CASE WorkerRunsWait
  <2>1. RegistryConsistent' /\ SubscribersAreLive'
    BY <1>11, UnchangedRegistry DEF WorkerRunsWait
  <2>2. PICK w, x : wait' = Forget([wait EXCEPT ![w].timer = "done", ![w].result = x])
    BY <1>11 DEF WorkerRunsWait
  <2> DEFINE W == [wait EXCEPT ![w].timer = "done", ![w].result = x]
  <2>3. \A v \in Waits : W[v].thread = wait[v].thread /\ W[v].room = wait[v].room
    BY DEF TypeOK, ThreadTypeOK, WaitRecords
  <2> HIDE DEF W
  <2>4. \A v \in Waits : wait'[v] = NoWait \/ wait'[v] = W[v]
    BY <2>2 DEF Forget, W
  <2> QED
    BY <2>1, <2>3, <2>4 DEF SuspendedInRoom, NoWait
<1>12. CASE Shutdown
  <2>1. {managed[i] : i \in RoomIds} \ {NoRoom} \in SUBSET Rooms
    BY DEF TypeOK, ServerTypeOK
  <2> QED
    BY <1>2, <1>3, <1>12, <2>1 DEF Shutdown
<1>13. CASE UNCHANGED vars
  BY <1>1, <1>13 DEF vars, roomVars
<1>14. ASSUME NEW s \in Sessions, Connect(s) \/ Disconnect(s) \/ CloseConnection(s) \/ PublishEnd(s)
       PROVE  UNCHANGED <<obj, rid, disposing, serverVars, wait>>
  BY <1>14 DEF Connect, Disconnect, CloseConnection, HandleClientDisconnect, PublishEnd, roomVars
<1>15. ASSUME NEW r \in Rooms, WorkerTakesAuto(r)
       PROVE  UNCHANGED <<obj, rid, disposing, serverVars, wait>>
  BY <1>15 DEF WorkerTakesAuto
<1>16. ASSUME NEW s \in Sessions, NEW r \in Rooms, NEW c \in Sessions, MessageKicks(s, r, c)
       PROVE  RegistryConsistent' /\ SubscribersAreLive' /\ SuspendedInRoom'
  BY <1>6, <1>16 DEF MessageKicks
<1>17. ASSUME NEW r \in Rooms, MessageDisposes(r)
       PROVE  RegistryConsistent' /\ SubscribersAreLive' /\ SuspendedInRoom'
  BY <1>2, <1>3, <1>17 DEF MessageDisposes
<1>18. ASSUME NEW s \in Sessions, ClientStep(s) \/ ServerStep(s)
       PROVE  RegistryConsistent' /\ SubscribersAreLive' /\ SuspendedInRoom'
  BY <1>1, <1>5, <1>7, <1>8, <1>14, <1>16, <1>18 DEF ClientStep, ServerStep
<1>21. ASSUME NEW id \in RoomIds, SnapshotExpires(id)
       PROVE  RegistryConsistent' /\ SubscribersAreLive' /\ SuspendedInRoom'
  <2>1. /\ stored' = stored \ {id} /\ id \in stored /\ TimerIsOver(managed[id])
        /\ UNCHANGED <<obj, rid, disposing, managed, msgSubs, leftSubs, wait>>
    BY <1>21 DEF SnapshotExpires, roomVars
  <2>2. managed[id] \in Live /\ disposing[managed[id]]
    BY <2>1 DEF RegistryConsistent, LifetimeIsBounded, TimerIsOver
  <2>3. Live' = Live
    BY <2>1 DEF Live
  <2> QED
    BY <2>1, <2>2, <2>3 DEF RegistryConsistent, SubscribersAreLive, SuspendedInRoom, Distinct, Elements
<1>22. ASSUME NEW r \in Rooms, MessageReachesFreed(r)
       PROVE  UNCHANGED <<obj, rid, disposing, serverVars, wait>>
  BY <1>22 DEF MessageReachesFreed, roomVars
<1>19. CASE ApplicationStep
  BY <1>1, <1>4, <1>12, <1>17, <1>19, <1>21, <1>22 DEF ApplicationStep
<1>20. CASE WorkerStep
  BY <1>1, <1>9, <1>10, <1>11, <1>15, <1>20 DEF WorkerStep
<1> QED
  BY <1>13, <1>18, <1>19, <1>20 DEF Next

(* They agree throughout.                                                  *)
LEMMA RegistryInvInvariant == Spec => []RegistryInv
<1>1. Init => RegistryInv
  <2> SUFFICES ASSUME Init PROVE RegistryInv
    OBVIOUS
  <2>1. TypeOK
    BY InitType
  <2>2. Live = {} /\ Elements(leftSubs) = {} /\ Distinct(leftSubs)
    BY DEF Init, Live, Elements, Distinct
  <2>3. RegistryConsistent /\ SubscribersAreLive /\ LifetimeIsBounded
    BY <2>2 DEF Init, RegistryConsistent, SubscribersAreLive, LifetimeIsBounded
  <2>4. SuspendedInRoom
    BY DEF Init, SuspendedInRoom, NoWait
  <2> QED
    BY <2>1, <2>3, <2>4 DEF RegistryInv
<1>2. RegistryInv /\ [Next]_vars => RegistryInv'
  BY RegistryInvariance
<1> QED
  BY <1>1, <1>2, PTL DEF Spec

(* The storage, managing_rooms_ and the heap agree in every state: every   *)
(* stored id is that of one live room managed under it, and only an        *)
(* undying room can be managed under an id that is not stored.             *)
THEOREM RegistryAgrees == Spec => []RegistryConsistent
<1>1. RegistryInv => RegistryConsistent
  BY DEF RegistryInv
<1> QED
  BY <1>1, RegistryInvInvariant, PTL

(* The pub/sub calls every live room, undying ones included, and calls it  *)
(* once; the freed rooms that it calls are undying ones that were replaced *)
(* under their expired id, and no others.                                  *)
THEOREM SubscribersCorrect == Spec => []SubscribersAreLive
<1>1. RegistryInv => SubscribersAreLive
  BY DEF RegistryInv
<1> QED
  BY <1>1, RegistryInvInvariant, PTL
(* Every room that is not being disposed has its auto-dispose timer ahead  *)
(* of it, or popped by the worker.                                         *)
THEOREM LifetimeBounded == Spec => []LifetimeIsBounded
<1>1. RegistryInv => LifetimeIsBounded
  BY DEF RegistryInv
<1> QED
  BY <1>1, RegistryInvInvariant, PTL
-------------------------------------------------------------------------------
(***************************************************************************)
(* Suspended threads.  WaitStep lists what one step can do to one call of  *)
(* allow_reconnection; NoLostWakeup and PromiseSetOnce follow from it.     *)
(***************************************************************************)

Popped(w) == [kind |-> "reconnect", wait |-> w]

Untouched(w) == wait'[w] = wait[w] /\ (worker' = worker \/ worker # Popped(w))
Allocated(w) == wait[w] = NoWait /\ wait'[w].result = "none" /\ wait'[w].timer = "armed"
Rejoined(w)  == /\ wait'[w].result # "none"
                /\ wait'[w].result = IF wait[w].result = "none" THEN "true" ELSE wait[w].result
Taken(w)     == /\ worker' = Popped(w)
                /\ wait'[w] = [wait[w] EXCEPT !.timer = "popped"]
TimedOut(w)  == \/ wait'[w] = NoWait
                \/ /\ wait'[w].result # "none"
                   /\ wait[w].result # "none" => wait'[w].result = wait[w].result
Resumed(w)   == wait'[w] = NoWait \/ wait'[w] = [wait[w] EXCEPT !.thread = NoThread]

WaitStep(w) == \/ Untouched(w) \/ Allocated(w) \/ Rejoined(w)
               \/ Taken(w) \/ TimedOut(w) \/ Resumed(w)

(* remove_client begins one call of allow_reconnection or touches none.    *)
LEMMA RemoveClientWait ==
  ASSUME TypeOK, NEW s, NEW r, NEW c, NEW h, h.wait \in [Waits -> WaitRecords],
         RemoveClient(s, r, c, h), NEW w \in Waits
  PROVE  \/ wait'[w] = h.wait[w]
         \/ h.wait[w] = NoWait /\ wait'[w].result = "none" /\ wait'[w].timer = "armed"
<1> DEFINE g == [h EXCEPT !.members = EraseEntry(@, r, c), !.told = TellRemoved(@, c, r)]
<1>1. g.wait = h.wait
  OBVIOUS
<1> HIDE DEF g
<1>2. CASE DisposeIfEmpty(r, g)
  BY <1>1, <1>2 DEF DisposeIfEmpty, Dispose
<1>3. CASE AllowReconnection(s, r, c, g)
  <2>1. PICK v \in Waits :
          /\ h.wait[v] = NoWait
          /\ wait' = [h.wait EXCEPT ![v] = [thread |-> s, room |-> r, id |-> IdOf[c],
                                            result |-> "none", timer |-> "armed"]]
    BY <1>1, <1>3 DEF AllowReconnection
  <2> QED
    BY <2>1
<1> QED
  BY <1>2, <1>3 DEF RemoveClient, g

(* Every step does one of the things WaitStep lists to each call.          *)
LEMMA WaitSteps ==
  ASSUME TypeOK, [Next]_vars, NEW w \in Waits
  PROVE  WaitStep(w)
<1> USE DEF TypeOK, ThreadTypeOK
<1>1. ASSUME wait' = wait, worker' = worker \/ worker = Idle \/ worker.kind = "auto"
      PROVE  WaitStep(w)
  <2>1. worker' = worker \/ worker # Popped(w)
    BY <1>1 DEF Popped, Idle
  <2>2. Untouched(w)
    BY <1>1, <2>1 DEF Untouched
  <2> QED
    BY <2>2 DEF WaitStep
<1>2. ASSUME NEW D, NEW h, Dispose(D, h), h.wait = wait, worker' = worker \/ worker.kind = "auto"
      PROVE  WaitStep(w)
  BY <1>1, <1>2 DEF Dispose
<1>3. Current.wait = wait
  BY DEF Current
<1>4. ASSUME NEW s, NEW r, NEW c, RemoveClient(s, r, c, Current), worker' = worker
      PROVE  WaitStep(w)
  <2>1. Current.wait \in [Waits -> WaitRecords]
    BY <1>3
  <2>2. \/ wait'[w] = wait[w]
        \/ wait[w] = NoWait /\ wait'[w].result = "none" /\ wait'[w].timer = "armed"
    BY <1>3, <1>4, <2>1, RemoveClientWait
  <2>3. Untouched(w) \/ Allocated(w)
    BY <1>4, <2>2 DEF Untouched, Allocated
  <2> QED
    BY <2>3 DEF WaitStep
<1>5. ASSUME NEW s \in Sessions, NEW r \in Rooms, JoinRoom(s, r)
      PROVE  WaitStep(w)
  <2> DEFINE L == joinListeners[r]
             H == Called(L, IdOf[s])
             h == [members   |-> [members EXCEPT ![r][s] = @ + 1],
                   told      |-> TellJoined(told, s, r),
                   wait      |-> Resolve(H),
                   listeners |-> [joinListeners EXCEPT ![r] = Without(@, H)],
                   twice     |-> IF members[r][s] > 0 THEN twice \cup {<<s, r>>} ELSE twice,
                   visited   |-> visited \cup {r}]
  <2>1. h.wait = Resolve(H) /\ worker' = worker
    BY <1>5 DEF JoinRoom
  <2>2. wait' = h.wait \/ RemoveClient(s, r, s, h)
    BY <1>5 DEF JoinRoom
  <2>3. rid[r] \in RoomIds
    BY <1>5 DEF JoinRoom, ServerTypeOK
  <2> HIDE DEF H
  <2>4. Resolve(H) \in [Waits -> WaitRecords]
    BY <2>3, JoinedType DEF HandlerStates
  <2> HIDE DEF h
  <2>5. \/ wait'[w] = Resolve(H)[w]
        \/ Resolve(H)[w] = NoWait /\ wait'[w].result = "none" /\ wait'[w].timer = "armed"
    <3>1. CASE RemoveClient(s, r, s, h)
      BY <2>1, <2>4, <3>1, RemoveClientWait
    <3> QED
      BY <2>1, <2>2, <3>1
  <2>6. \/ Resolve(H)[w] = wait[w]
        \/ /\ Resolve(H)[w].result = IF wait[w].result = "none" THEN "true" ELSE wait[w].result
           /\ Resolve(H)[w].result # "none"
    BY DEF Resolve, WaitRecords
  <2>7. CASE wait'[w] = Resolve(H)[w]
    <3>1. Untouched(w) \/ Rejoined(w)
      BY <2>1, <2>6, <2>7 DEF Untouched, Rejoined
    <3> QED
      BY <3>1 DEF WaitStep
  <2>8. CASE /\ Resolve(H)[w] = NoWait
             /\ wait'[w].result = "none"
             /\ wait'[w].timer = "armed"
    <3>1. wait[w] = NoWait
      BY <2>6, <2>8 DEF NoWait
    <3>2. Allocated(w)
      BY <2>8, <3>1 DEF Allocated
    <3> QED
      BY <3>2 DEF WaitStep
  <2> QED
    BY <2>5, <2>7, <2>8
<1>6. ASSUME NEW s \in Sessions, Resume(s)
      PROVE  WaitStep(w)
  <2>1. PICK v \in Waits :
          DisposeIfEmpty(wait[v].room,
                         [Current EXCEPT !.wait = Forget([@ EXCEPT ![v].thread = NoThread])])
    BY <1>6 DEF Resume
  <2>2. wait' = Forget([wait EXCEPT ![v].thread = NoThread])
    BY <1>3, <2>1 DEF DisposeIfEmpty, Dispose, Current
  <2>3. \/ wait'[w] = NoWait \/ wait'[w] = wait[w]
        \/ wait'[w] = [wait[w] EXCEPT !.thread = NoThread]
    BY <2>2 DEF Forget
  <2>4. worker' = worker
    BY <1>6 DEF Resume
  <2>5. Untouched(w) \/ Resumed(w)
    BY <2>3, <2>4 DEF Untouched, Resumed
  <2> QED
    BY <2>5 DEF WaitStep
<1>7. ASSUME NEW v \in Waits, WorkerTakesWait(v)
      PROVE  WaitStep(w)
  <2>1. worker # Popped(w)
    BY <1>7 DEF WorkerTakesWait, Popped, Idle
  <2>2. CASE w = v
    <3>1. Taken(w)
      BY <1>7, <2>2 DEF WorkerTakesWait, Taken, Popped
    <3> QED
      BY <3>1 DEF WaitStep
  <2>3. CASE w # v
    <3>1. Untouched(w)
      BY <1>7, <2>1, <2>3 DEF WorkerTakesWait, Untouched
    <3> QED
      BY <3>1 DEF WaitStep
  <2> QED
    BY <2>2, <2>3
<1>8. CASE WorkerRunsWait
  <2>1. worker.kind = "reconnect" /\ worker \in Workers /\ worker' = Idle
    BY <1>8 DEF WorkerRunsWait
  <2>2. PICK v \in Waits : worker = Popped(v)
    BY <2>1 DEF Workers, Popped
  <2>3. PICK back \in BOOLEAN :
          wait' = Forget([wait EXCEPT ![v].timer = "done",
                                      ![v].result = TimeoutResult(@, back)])
    BY <1>8, <2>2 DEF WorkerRunsWait, Popped
  <2>4. CASE w = v
    <3>1. \/ wait'[w] = NoWait
          \/ wait'[w].result = TimeoutResult(wait[w].result, back)
      BY <2>3, <2>4 DEF Forget, WaitRecords
    <3>2. TimedOut(w)
      BY <3>1 DEF TimedOut, TimeoutResult
    <3> QED
      BY <3>2 DEF WaitStep
  <2>5. CASE w # v
    <3>1. wait'[w] = NoWait \/ wait'[w] = wait[w]
      BY <2>3, <2>5 DEF Forget
    <3>2. worker # Popped(w)
      BY <2>2, <2>5 DEF Popped
    <3>3. TimedOut(w) \/ Untouched(w)
      BY <3>1, <3>2 DEF TimedOut, Untouched
    <3> QED
      BY <3>3 DEF WaitStep
  <2> QED
    BY <2>4, <2>5
<1>9. ASSUME NEW s \in Sessions, ClientStep(s) \/ ServerStep(s)
      PROVE  WaitStep(w)
  <2>1. CASE wait' = wait /\ worker' = worker
    BY <1>1, <2>1
  <2>2. CASE \E r \in Rooms, c \in Sessions : MessageKicks(s, r, c)
    BY <1>4, <2>2 DEF MessageKicks
  <2>3. CASE PublishNext(s)
    BY <1>1, <1>4, <2>3 DEF PublishNext
  <2> QED
    BY <1>5, <1>6, <1>9, <2>1, <2>2, <2>3
       DEF ClientStep, ServerStep, Connect, Disconnect, CloseConnection, HandleClientDisconnect,
           PublishEnd
<1>10. CASE ApplicationStep
  BY <1>1, <1>2, <1>3, <1>10
     DEF ApplicationStep, CreateNewRoom, CreateNewRoomDisposed, Constructs, SnapshotExpires,
         MessageDisposes, MessageReachesFreed, Shutdown
<1>11. CASE WorkerStep
  BY <1>1, <1>2, <1>3, <1>7, <1>8, <1>11 DEF WorkerStep, WorkerTakesAuto, WorkerRunsAuto
<1>12. CASE UNCHANGED vars
  BY <1>1, <1>12 DEF vars
<1> QED
  BY <1>9, <1>10, <1>11, <1>12 DEF Next

(* While its promise is not set, a suspended thread's timer is armed or in *)
(* the worker's hands.                                                     *)
THEOREM WakeupNotLost == Spec => []NoLostWakeup
<1>1. Init => NoLostWakeup
  BY DEF Init, NoLostWakeup, NoWait
<1>2. ASSUME TypeOK, TypeOK', NoLostWakeup, [Next]_vars
      PROVE  NoLostWakeup'
  <2> SUFFICES ASSUME NEW w \in Waits, wait'[w].thread # NoThread, wait'[w].result = "none"
               PROVE  \/ wait'[w].timer = "armed"
                      \/ wait'[w].timer = "popped" /\ worker' = Popped(w)
    BY DEF NoLostWakeup, Popped
  <2>1. WaitStep(w)
    BY <1>2, WaitSteps
  <2>2. wait[w] \in WaitRecords
    BY <1>2 DEF TypeOK, ThreadTypeOK
  <2>3. CASE Untouched(w)
    BY <1>2, <2>3 DEF Untouched, NoLostWakeup, Popped
  <2>4. CASE Taken(w)
    BY <2>2, <2>4 DEF Taken, WaitRecords
  <2>5. CASE Resumed(w)
    BY <2>2, <2>5 DEF Resumed, NoWait, WaitRecords
  <2>6. CASE Allocated(w)
    BY <2>6 DEF Allocated
  <2>7. CASE TimedOut(w)
    BY <2>7 DEF TimedOut, NoWait
  <2>8. ~Rejoined(w)
    BY DEF Rejoined
  <2> QED
    BY <2>1, <2>3, <2>4, <2>5, <2>6, <2>7, <2>8 DEF WaitStep
<1> QED
  BY <1>1, <1>2, TypeCorrect, PTL DEF Spec

(* The value of a promise, once set, stays until the call is forgotten.    *)
THEOREM PromiseNeverReset == Spec => PromiseSetOnce
<1>1. ASSUME TypeOK, [Next]_vars
      PROVE  \A w \in Waits : wait[w].result # "none" => \/ wait'[w].result = wait[w].result
                                                       \/ wait'[w] = NoWait
  <2> SUFFICES ASSUME NEW w \in Waits, wait[w].result # "none"
               PROVE  wait'[w].result = wait[w].result \/ wait'[w] = NoWait
    OBVIOUS
  <2>1. WaitStep(w)
    BY <1>1, WaitSteps
  <2>2. wait[w] \in WaitRecords
    BY <1>1 DEF TypeOK, ThreadTypeOK
  <2> QED
    BY <2>1, <2>2 DEF WaitStep, Untouched, Allocated, Rejoined, Taken, TimedOut, Resumed, NoWait,
                      WaitRecords
<1> QED
  BY <1>1, TypeCorrect, PTL DEF Spec, PromiseSetOnce

-------------------------------------------------------------------------------
(***************************************************************************)
(* The invariants of membership.                                           *)
(***************************************************************************)

(* What holds of the entries in clients_, of the frames sent about them    *)
(* and of the history, at every point of a handler h that runs under the   *)
(* game lock: entries are in live rooms, a second entry is a double join,  *)
(* and a client was told of a room exactly if it has an entry in it, or    *)
(* was in a room of that id that was replaced.                             *)
Entered(h) ==
  \A r \in Rooms, s \in Sessions :
    /\ h.members[r][s] > 0 => obj[r] = "live"
    /\ h.members[r][s] > 1 => <<s, r>> \in h.twice

Explained(h, s, i) ==
  <<s, i>> \in stranded \/ (managed[i] # NoRoom /\ h.members[managed[i]][s] > 0)

Told(h) ==
  /\ \A s \in Sessions : \A i \in h.told[s] :
       s \in connections /\ Explained(h, s, i)
  /\ \A s \in connections, r \in Live :
       h.members[r][s] > 0 => <<s, r>> \in h.twice \/ rid[r] \in h.told[s]

HandlerInv(h) == Entered(h) /\ Told(h) /\ h.visited \subseteq Live

(* A session enters no room before it is connected.                        *)
NewHasNoEntry == \A s \in Sessions, r \in Rooms : pc[s] = "new" => members[r][s] = 0

(* Where a thread stands says whether it publishes, holds the game lock or *)
(* is suspended, and a session that closes enters no room again.           *)
ThreadsInv ==
  /\ \A s \in Sessions : lock = s => pc[s] = "publish"
  /\ \A w \in Waits : wait[w].thread # NoThread => pc[wait[w].thread] = "waiting"
  /\ \A v, w \in Waits : wait[v].thread # NoThread /\ wait[v].thread = wait[w].thread => v = w
  /\ \A s \in Sessions : then[s] = "done" => pc[s] \in {"publish", "waiting", "done"}
  /\ \A s \in Sessions : pc[s] = "done" => then[s] = "done" /\ todo[s] = <<>>

(* PLAYER_LEFT of a session that closes has still to reach every room that *)
(* the session is in.                                                      *)
ClosingReachesRooms ==
  \A s \in Sessions, r \in Rooms :
    then[s] = "done" /\ members[r][s] > 0 => r \in Elements(todo[s]) \/ <<s, r>> \in twice

RoomsInv ==
  HandlerInv(Current) /\ NewHasNoEntry /\ ClosingReachesRooms /\ EmptyRoomIsAwaited

MembersInv == RegistryInv /\ ThreadsInv /\ RoomsInv

(* No raw pointer outlives its object unnoticed: an object that is         *)
(* referenced is live, dangling or replaced, and the callbacks of the      *)
(* worker and of the suspended threads name rooms.                         *)
Pending(q) == q.timer \in {"armed", "popped"} \/ q.thread # NoThread

ExposureInv ==
  /\ \A r \in autoTimers : obj[r] # "none"
  /\ \A w \in Waits : Pending(wait[w]) => wait[w].room \in Rooms
  /\ \A w \in Waits : worker = Popped(w) => wait[w].timer = "popped"
  /\ \A r \in Rooms : Referenced(r) => obj[r] # "none"
  /\ UseAfterFreeNeedsExposure

-------------------------------------------------------------------------------
(***************************************************************************)
(* What the handlers do.                                                   *)
(***************************************************************************)

(* Disposing the rooms now after a handler has computed h: they are gone   *)
(* from everywhere, and everything else is as h has it.  With now empty it *)
(* says that the handler disposes nothing.                                 *)
Disposed(now, h) ==
  /\ now \subseteq Live /\ \A r \in now : ~disposing[r]
  /\ Live' = Live \ now
  /\ \A r \in Rooms, s \in Sessions : members'[r][s] = IF r \in now THEN 0 ELSE h.members[r][s]
  /\ \A s \in Sessions :
       told'[s] = IF s \in connections
                  THEN h.told[s] \ {rid[r] : r \in {q \in now : h.members[q][s] > 0}}
                  ELSE h.told[s]
  /\ twice' = {p \in h.twice : p[2] \notin now}
  /\ visited' = h.visited \ now
  /\ \A r \in Rooms : disposing'[r] = (disposing[r] /\ r \notin now)
  /\ autoTimers' = autoTimers \ now
  /\ stored' = stored \ {rid[r] : r \in now}
  /\ \A i \in RoomIds : managed'[i] = IF i \in {rid[r] : r \in now} THEN NoRoom ELSE managed[i]
  /\ \A r \in Rooms :
       obj'[r] = IF r \in now THEN IF Referenced(r)' THEN "dangling" ELSE "none" ELSE obj[r]
  /\ \A r \in Rooms \ now : rid'[r] = rid[r]
  /\ stranded' = stranded

(* Room::dispose destroys exactly the rooms whose disposing_ it sets: each *)
(* is found in managing_rooms_ under its own id.                           *)
LEMMA DisposeEffect ==
  ASSUME RegistryInv, NEW D \in SUBSET Rooms, NEW h, Dispose(D, h)
  PROVE  Disposed({r \in D : obj[r] = "live" /\ ~disposing[r]}, h)
<1> DEFINE now   == {r \in D : obj[r] = "live" /\ ~disposing[r]}
           ids   == {rid[r] : r \in now}
           freed == {managed[i] : i \in ids} \ {NoRoom}
<1>1. /\ disposing' = [r \in Rooms |-> (disposing[r] \/ r \in now) /\ r \notin freed]
      /\ members' = [r \in Rooms |-> IF r \in now THEN [s \in Sessions |-> 0] ELSE h.members[r]]
      /\ told' = [s \in Sessions |->
                    IF s \in connections
                    THEN h.told[s] \ {rid[r] : r \in {q \in now : h.members[q][s] > 0}}
                    ELSE h.told[s]]
      /\ autoTimers' = autoTimers \ now
      /\ stored' = stored \ ids
      /\ managed' = [i \in RoomIds |-> IF i \in ids THEN NoRoom ELSE managed[i]]
      /\ obj' = [r \in Rooms |-> IF r \in freed
                                 THEN IF Referenced(r)' THEN "dangling" ELSE "none"
                                 ELSE obj[r]]
      /\ rid' = [r \in Rooms |-> IF r \in freed THEN NoRoom ELSE rid[r]]
      /\ twice' = {p \in h.twice : p[2] \notin freed}
      /\ visited' = h.visited \ freed
      /\ stranded' = stranded
  BY DEF Dispose
<1>2. now \subseteq Live
  BY DEF Live
<1>3. \A r \in Live : rid[r] \in RoomIds /\ managed[rid[r]] = r /\ r \in Rooms /\ r # NoRoom
  BY RoomsAssumption DEF RegistryInv, RegistryConsistent, Live
<1>4. freed = now
  BY <1>2, <1>3
<1> HIDE DEF now, freed
<1>5. Live' = Live \ now
  BY <1>1, <1>4 DEF Live
<1>6. \A r \in Rooms : disposing'[r] = (disposing[r] /\ r \notin now)
  BY <1>1, <1>4 DEF RegistryInv, TypeOK, RoomTypeOK
<1> QED
  BY <1>1, <1>2, <1>4, <1>5, <1>6 DEF Disposed, now

(* A handler that disposes nothing leaves the rooms as it computed them.   *)
LEMMA NothingDisposed ==
  ASSUME NEW h, RegistryInv,
         members' = h.members, told' = h.told, twice' = h.twice, visited' = h.visited,
         UNCHANGED <<obj, rid, disposing, autoTimers, stored, managed, stranded>>
  PROVE  Disposed({}, h)
<1>1. Live' = Live
  BY DEF Live
<1>2. twice' = {p \in h.twice : p[2] \notin {}} /\ visited' = h.visited \ {}
  OBVIOUS
<1>3. autoTimers' = autoTimers \ {} /\ stored' = stored \ {rid[r] : r \in {}}
  OBVIOUS
<1>4. \A r \in Rooms : disposing'[r] = (disposing[r] /\ r \notin {})
  BY DEF RegistryInv, TypeOK, RoomTypeOK
<1>5. \A s \in Sessions :
        told'[s] = IF s \in connections
                   THEN h.told[s] \ {rid[r] : r \in {q \in {} : h.members[q][s] > 0}}
                   ELSE h.told[s]
  OBVIOUS
<1> QED
  BY <1>1, <1>2, <1>3, <1>4, <1>5 DEF Disposed

(* One entry of c in r is erased, and c is told.                           *)
Erased(h, r, c) == [h EXCEPT !.members = EraseEntry(@, r, c), !.told = TellRemoved(@, c, r)]

(* What a join of s has computed before on_join is called.                 *)
Joined(s, r) ==
  [members   |-> [members EXCEPT ![r][s] = @ + 1],
   told      |-> TellJoined(told, s, r),
   wait      |-> Resolve(Called(joinListeners[r], IdOf[s])),
   listeners |-> [joinListeners EXCEPT ![r] = Without(@, Called(joinListeners[r], IdOf[s]))],
   twice     |-> IF members[r][s] > 0 THEN twice \cup {<<s, r>>} ELSE twice,
   visited   |-> visited \cup {r}]

(* Thread s is suspended in room r until a client with the id of c joins.  *)
Suspended(s, r, c, W) ==
  /\ \E w \in Waits :
       /\ W[w] = NoWait
       /\ wait' = [W EXCEPT ![w] = [thread |-> s, room |-> r, id |-> IdOf[c],
                                    result |-> "none", timer |-> "armed"]]
  /\ pc' = [pc EXCEPT ![s] = "waiting"]
  /\ lock' = NoThread

(* remove_client: the room goes if it has become empty, or the thread is   *)
(* suspended.                                                              *)
Removed(s, r, c, h) ==
  \/ /\ UNCHANGED <<pc, lock>>
     /\ wait' = h.wait
     /\ \E now \in SUBSET {r} :
          /\ Disposed(now, Erased(h, r, c))
          /\ r \in Live /\ ~disposing[r] /\ Present(Erased(h, r, c).members, r) = {} <=> r \in now
  \/ /\ ~disposing[r]
     /\ Suspended(s, r, c, h.wait)
     /\ Disposed({}, Erased(h, r, c))

(* Room::remove_client does what Removed says.                             *)
LEMMA RemoveClientEffect ==
  ASSUME RegistryInv, NEW s \in Sessions, NEW r \in Rooms, NEW c \in Sessions,
         NEW h, RemoveClient(s, r, c, h)
  PROVE  Removed(s, r, c, h)
<1> DEFINE g == Erased(h, r, c)
<1>1. g.wait = h.wait
  BY DEF Erased
<1>2. \/ UNCHANGED <<pc, lock>> /\ DisposeIfEmpty(r, g)
      \/ AllowReconnection(s, r, c, g)
  BY DEF RemoveClient, Erased
<1> HIDE DEF g
<1>3. CASE UNCHANGED <<pc, lock>> /\ DisposeIfEmpty(r, g)
  <2> DEFINE D   == IF Present(g.members, r) = {} THEN {r} ELSE {}
             now == {q \in D : obj[q] = "live" /\ ~disposing[q]}
  <2>1. Disposed(now, g)
    BY <1>3, DisposeEffect DEF DisposeIfEmpty
  <2>2. wait' = h.wait
    BY <1>1, <1>3 DEF DisposeIfEmpty, Dispose
  <2>3. now \in SUBSET {r}
    OBVIOUS
  <2>4. r \in Live /\ ~disposing[r] /\ Present(g.members, r) = {} <=> r \in now
    BY DEF Live
  <2> HIDE DEF now
  <2> QED
    BY <1>3, <2>1, <2>2, <2>3, <2>4 DEF Removed, g
<1>4. CASE AllowReconnection(s, r, c, g)
  <2>1. Disposed({}, g)
    BY <1>4, NothingDisposed DEF AllowReconnection, serverVars
  <2>2. ~disposing[r] /\ Suspended(s, r, c, h.wait)
    BY <1>1, <1>4 DEF AllowReconnection, Suspended
  <2> QED
    BY <2>1, <2>2 DEF Removed, g
<1> QED
  BY <1>2, <1>3, <1>4

-------------------------------------------------------------------------------
(***************************************************************************)
(* HandlerInv holds at every point of a handler, and so at its end.        *)
(***************************************************************************)

(* Live rooms are told apart by their ids.                                 *)
LEMMA LiveIds ==
  ASSUME RegistryInv
  PROVE  /\ \A r \in Live : r \in Rooms /\ r # NoRoom /\ rid[r] \in RoomIds /\ managed[rid[r]] = r
         /\ \A r \in Live : rid[r] \in stored \/ disposing[r]
         /\ \A i \in RoomIds : managed[i] # NoRoom => managed[i] \in Live /\ rid[managed[i]] = i
         /\ \A i \in stored : i \in RoomIds /\ managed[i] \in Live /\ rid[managed[i]] = i
<1>1. \A r \in Live : r \in Rooms /\ r # NoRoom /\ rid[r] \in RoomIds /\ managed[rid[r]] = r
  BY RoomsAssumption DEF RegistryInv, RegistryConsistent, Live
<1>2. \A r \in Live : rid[r] \in stored \/ disposing[r]
  BY <1>1 DEF RegistryInv, RegistryConsistent
<1> QED
  BY <1>1, <1>2 DEF RegistryInv, RegistryConsistent, TypeOK, ServerTypeOK

(* Disposing rooms keeps it: their members are told, and nobody else.      *)
LEMMA DisposedKeeps ==
  ASSUME RegistryInv, NEW h \in HandlerStates, HandlerInv(h), NEW now, Disposed(now, h),
         connections' = connections
  PROVE  HandlerInv(Current)'
<1>1. Entered(h) /\ Told(h) /\ h.visited \subseteq Live
  BY DEF HandlerInv
<1>2. now \subseteq Live /\ Live' = Live \ now /\ stored' = stored \ {rid[r] : r \in now}
  BY DEF Disposed
<1>3. \A r \in Rooms, s \in Sessions : members'[r][s] = IF r \in now THEN 0 ELSE h.members[r][s]
  BY DEF Disposed
<1>4. /\ h.told \in [Sessions -> SUBSET RoomIds]
      /\ \A s \in Sessions :
           told'[s] = IF s \in connections
                      THEN h.told[s] \ {rid[r] : r \in {q \in now : h.members[q][s] > 0}}
                      ELSE h.told[s]
  BY DEF Disposed, HandlerStates
<1>5. \A r \in Rooms, s \in Sessions : <<s, r>> \in h.twice /\ r \notin now => <<s, r>> \in twice'
  BY DEF Disposed
<1>6. \A i \in RoomIds : i \notin {rid[r] : r \in now} => managed'[i] = managed[i]
  BY DEF Disposed
<1>7. \A r \in Rooms \ now : rid'[r] = rid[r]
  BY DEF Disposed
<1>12. stranded' = stranded
  BY DEF Disposed
<1>8. Entered(Current)'
  <2> SUFFICES ASSUME NEW r \in Rooms, NEW s \in Sessions
               PROVE  /\ members'[r][s] > 0 => obj'[r] = "live"
                      /\ members'[r][s] > 1 => <<s, r>> \in twice'
    BY DEF Entered, Current
  <2>1. CASE r \in now
    BY <1>3, <2>1
  <2>2. CASE r \notin now
    BY <1>1, <1>2, <1>3, <1>5, <2>2 DEF Entered, Live
  <2> QED
    BY <2>1, <2>2
<1>9. ASSUME NEW s \in Sessions, NEW i \in told'[s]
      PROVE  s \in connections' /\ Explained(Current, s, i)'
  <2>1. i \in h.told[s] /\ i \in RoomIds
    BY <1>4, <1>9
  <2>2. s \in connections /\ Explained(h, s, i)
    BY <1>1, <2>1 DEF Told
  <2>0. CASE <<s, i>> \in stranded
    BY <1>12, <2>0, <2>2 DEF Explained
  <2> SUFFICES ASSUME managed[i] # NoRoom, h.members[managed[i]][s] > 0
               PROVE  managed'[i] # NoRoom /\ members'[managed'[i]][s] > 0
    BY <2>0, <2>2 DEF Explained, Current
  <2> DEFINE r == managed[i]
  <2>3. r \in Live /\ rid[r] = i /\ r \in Rooms
    BY <2>1, LiveIds
  <2>4. r \notin now
    <3> SUFFICES ASSUME r \in now
                 PROVE  FALSE
      OBVIOUS
    <3>1. r \in {q \in now : h.members[q][s] > 0}
      BY <2>2
    <3> HIDE DEF r
    <3>2. i \in {rid[q] : q \in {p \in now : h.members[p][s] > 0}}
      BY <2>3, <3>1
    <3> QED
      BY <1>4, <1>9, <2>2, <3>2
  <2>5. i \notin {rid[q] : q \in now}
    <3> SUFFICES ASSUME NEW q \in now, i = rid[q]
                 PROVE  FALSE
      OBVIOUS
    <3>1. managed[rid[q]] = q
      BY <1>2, LiveIds
    <3> QED
      BY <2>4, <3>1
  <2>6. managed'[i] = r
    BY <1>6, <2>1, <2>5
  <2>7. members'[r][s] = h.members[r][s]
    BY <1>3, <2>3, <2>4
  <2> QED
    BY <2>6, <2>7
<1>10. ASSUME NEW s \in connections', NEW r \in Live', members'[r][s] > 0
       PROVE  <<s, r>> \in twice' \/ rid'[r] \in told'[s]
  <2>1. s \in Sessions /\ s \in connections
    BY DEF RegistryInv, TypeOK, ThreadTypeOK
  <2>2. r \in Live /\ r \notin now /\ r \in Rooms
    BY <1>2 DEF Live
  <2>3. rid'[r] = rid[r] /\ h.members[r][s] > 0
    BY <1>3, <1>7, <1>10, <2>1, <2>2
  <2>4. <<s, r>> \in h.twice \/ rid[r] \in h.told[s]
    BY <1>1, <2>1, <2>2, <2>3 DEF Told
  <2>5. rid[r] \notin {rid[q] : q \in {p \in now : h.members[p][s] > 0}}
    <3> SUFFICES ASSUME NEW q \in now, rid[r] = rid[q]
                 PROVE  FALSE
      OBVIOUS
    <3>1. managed[rid[q]] = q /\ managed[rid[r]] = r
      BY <1>2, <2>2, LiveIds
    <3> QED
      BY <2>2, <3>1
  <2> QED
    BY <1>4, <1>5, <2>1, <2>2, <2>3, <2>4, <2>5
<1>11. visited' \subseteq Live'
  BY <1>1, <1>2 DEF Disposed
<1> QED
  BY <1>8, <1>9, <1>10, <1>11 DEF HandlerInv, Told, Current

(* Erasing one entry of c keeps it: c is told, and if it had another entry *)
(* it had joined twice.                                                    *)
LEMMA ErasedKeeps ==
  ASSUME RegistryInv, NEW h \in HandlerStates, HandlerInv(h),
         NEW r \in Rooms, NEW c \in Sessions, h.members[r][c] > 0
  PROVE  Erased(h, r, c) \in HandlerStates /\ HandlerInv(Erased(h, r, c))
<1> DEFINE g == Erased(h, r, c)
<1> USE DEF HandlerInv
<1>1. /\ g.members \in [Rooms -> [Sessions -> Nat]]
      /\ \A q \in Rooms, s \in Sessions :
           g.members[q][s] = IF q = r /\ s = c THEN h.members[q][s] - 1 ELSE h.members[q][s]
  BY DEF Erased, EraseEntry, HandlerStates
<1>2. /\ g.told \in [Sessions -> SUBSET RoomIds]
      /\ \A s \in Sessions : g.told[s] = IF s = c /\ c \in connections
                                         THEN h.told[s] \ {rid[r]} ELSE h.told[s]
  BY DEF Erased, TellRemoved, HandlerStates
<1>3. g.twice = h.twice /\ g.visited = h.visited
  BY DEF Erased, HandlerStates
<1>4. g \in HandlerStates
  BY <1>1, <1>2 DEF Erased, HandlerStates
<1> HIDE DEF g
<1>5. h.members \in [Rooms -> [Sessions -> Nat]]
  BY DEF HandlerStates
<1>6. Entered(g)
  <2> SUFFICES ASSUME NEW q \in Rooms, NEW s \in Sessions
               PROVE  /\ g.members[q][s] > 0 => obj[q] = "live"
                      /\ g.members[q][s] > 1 => <<s, q>> \in g.twice
    BY DEF Entered
  <2>1. h.members[q][s] \in Nat /\ (q = r /\ s = c => h.members[q][s] > 0)
    BY <1>5
  <2>2. /\ h.members[q][s] > 0 => obj[q] = "live"
        /\ h.members[q][s] > 1 => <<s, q>> \in h.twice
    BY DEF Entered
  <2> QED
    BY <1>1, <1>3, <2>1, <2>2
<1>7. Told(g)
  <2>1. ASSUME NEW s \in Sessions, NEW i \in g.told[s]
        PROVE  s \in connections /\ Explained(g, s, i)
    <3>1. i \in h.told[s] /\ i \in RoomIds
      BY <1>2, <2>1
    <3>2. s \in connections /\ Explained(h, s, i)
      BY <3>1 DEF Told
    <3>3. CASE managed[i] # NoRoom /\ h.members[managed[i]][s] > 0
      <4>0. managed[i] \in Live /\ rid[managed[i]] = i
        BY <3>1, <3>3, LiveIds
      <4>1. s = c => managed[i] # r
        BY <1>2, <2>1, <3>2, <4>0
      <4>2. managed[i] \in Rooms
        BY <3>1, <3>3, LiveIds
      <4> QED
        BY <1>1, <3>2, <3>3, <4>1, <4>2 DEF Explained
    <3> QED
      BY <3>2, <3>3 DEF Explained
  <2>2. ASSUME NEW s \in connections, NEW q \in Live, g.members[q][s] > 0
        PROVE  <<s, q>> \in g.twice \/ rid[q] \in g.told[s]
    <3>1. s \in Sessions /\ q \in Rooms
      BY DEF RegistryInv, TypeOK, ThreadTypeOK, Live
    <3>2. h.members[q][s] > 0 /\ (q = r /\ s = c => h.members[q][s] > 1)
      BY <1>1, <1>5, <2>2, <3>1
    <3>3. q = r /\ s = c => <<s, q>> \in h.twice
      BY <3>1, <3>2 DEF Entered
    <3>4. <<s, q>> \in h.twice \/ rid[q] \in h.told[s]
      BY <3>2 DEF Told
    <3>5. q # r => rid[q] # rid[r] \/ obj[r] # "live"
      BY LiveIds DEF Live
    <3>6. s = c => obj[r] = "live"
      BY DEF Entered
    <3> QED
      BY <1>2, <1>3, <3>1, <3>3, <3>4, <3>5, <3>6
  <2> QED
    BY <2>1, <2>2 DEF Told
<1> QED
  BY <1>3, <1>4, <1>6, <1>7 DEF g

(* A join keeps it.                                                        *)
LEMMA JoinedKeeps ==
  ASSUME RegistryInv, HandlerInv(Current), NEW r \in Live, NEW s \in Sessions
  PROVE  Joined(s, r) \in HandlerStates /\ HandlerInv(Joined(s, r))
<1> DEFINE g == Joined(s, r)
<1> USE DEF HandlerInv
<1>0. r \in Rooms /\ r # NoRoom /\ rid[r] \in RoomIds
  BY LiveIds
<1>1. g \in HandlerStates
  BY <1>0, JoinedType DEF Joined, RegistryInv
<1>2. members \in [Rooms -> [Sessions -> Nat]] /\ told \in [Sessions -> SUBSET RoomIds]
  BY DEF RegistryInv, TypeOK, RoomTypeOK, HistoryTypeOK
<1>3. \A q \in Rooms, t \in Sessions :
        g.members[q][t] = IF q = r /\ t = s THEN members[q][t] + 1 ELSE members[q][t]
  BY <1>2 DEF Joined
<1>4. \A t \in Sessions : g.told[t] = IF t = s /\ s \in connections
                                      THEN told[t] \cup {rid[r]} ELSE told[t]
  BY <1>2 DEF Joined, TellJoined
<1>5. g.twice = IF members[r][s] > 0 THEN twice \cup {<<s, r>>} ELSE twice
  BY DEF Joined
<1>6. g.visited = visited \cup {r}
  BY DEF Joined
<1> HIDE DEF g
<1>7. Entered(g)
  <2> SUFFICES ASSUME NEW q \in Rooms, NEW t \in Sessions
               PROVE  /\ g.members[q][t] > 0 => obj[q] = "live"
                      /\ g.members[q][t] > 1 => <<t, q>> \in g.twice
    BY DEF Entered
  <2>1. members[q][t] \in Nat /\ obj[r] = "live"
    BY <1>2 DEF Live
  <2>2. /\ members[q][t] > 0 => obj[q] = "live"
        /\ members[q][t] > 1 => <<t, q>> \in twice
    BY DEF Entered, Current
  <2>3. CASE q = r /\ t = s
    BY <1>3, <1>5, <2>1, <2>3
  <2>4. CASE ~(q = r /\ t = s)
    BY <1>3, <1>5, <2>2, <2>4
  <2> QED
    BY <2>3, <2>4
<1>8. Told(g)
  <2>1. ASSUME NEW t \in Sessions, NEW i \in g.told[t]
        PROVE  t \in connections /\ Explained(g, t, i)
    <3>1. CASE i \in told[t]
      <4>1. t \in connections /\ Explained(Current, t, i) /\ i \in RoomIds
        BY <1>2, <3>1 DEF Told, Current
      <4>2. CASE managed[i] # NoRoom /\ members[managed[i]][t] > 0
        <5>1. managed[i] \in Rooms
          BY <4>1, <4>2, LiveIds
        <5> QED
          BY <1>2, <1>3, <4>1, <4>2, <5>1 DEF Explained
      <4> QED
        BY <4>1, <4>2 DEF Explained, Current
    <3>2. CASE i \notin told[t]
      <4>1. t = s /\ s \in connections /\ i \in told[t] \cup {rid[r]}
        BY <1>4, <2>1, <3>2
      <4>2. i = rid[r] /\ managed[i] = r
        BY <3>2, <4>1, LiveIds
      <4> QED
        BY <1>0, <1>2, <1>3, <4>1, <4>2 DEF Explained
    <3> QED
      BY <3>1, <3>2
  <2>2. ASSUME NEW t \in connections, NEW q \in Live, g.members[q][t] > 0
        PROVE  <<t, q>> \in g.twice \/ rid[q] \in g.told[t]
    <3>1. t \in Sessions /\ q \in Rooms
      BY DEF RegistryInv, TypeOK, ThreadTypeOK, Live
    <3>2. CASE q = r /\ t = s
      BY <1>4, <3>1, <3>2
    <3>3. CASE ~(q = r /\ t = s)
      <4>1. <<t, q>> \in twice \/ rid[q] \in told[t]
        BY <1>3, <2>2, <3>1, <3>3 DEF Told, Current
      <4> QED
        BY <1>4, <1>5, <3>1, <4>1
    <3> QED
      BY <3>2, <3>3
  <2> QED
    BY <2>1, <2>2 DEF Told
<1>9. g.visited \subseteq Live
  BY <1>6 DEF Current
<1> QED
  BY <1>1, <1>7, <1>8, <1>9 DEF g
-------------------------------------------------------------------------------
(***************************************************************************)
(* Threads: where each stands, and which waits they are suspended in.      *)
(***************************************************************************)

(* The waits W are those of the state, as far as suspended threads go.     *)
SameThreads(W) ==
  \A w \in Waits : /\ W[w].thread = wait[w].thread
                   /\ wait[w].thread # NoThread => W[w].room = wait[w].room

(* Join listeners, the worker and forgetting leave the threads alone.      *)
LEMMA ResolveThreads ==
  ASSUME TypeOK, NEW H
  PROVE  SameThreads(Resolve(H))
BY DEF SameThreads, Resolve, TypeOK, ThreadTypeOK, WaitRecords

LEMMA ForgetThreads ==
  ASSUME TypeOK, NEW W \in [Waits -> WaitRecords], SameThreads(W)
  PROVE  SameThreads(Forget(W))
BY DEF SameThreads, Forget, NoWait

(* A step that moves no suspended thread and no session keeps ThreadsInv.  *)
LEMMA SteadyThreads ==
  ASSUME ThreadsInv, SameThreads(wait'), UNCHANGED <<pc, then, lock>>,
         \A s \in Sessions : todo[s] = <<>> => todo'[s] = <<>>
  PROVE  ThreadsInv'
BY DEF ThreadsInv, SameThreads

(* So does suspending a thread that runs.                                  *)
LEMMA SuspendedThreads ==
  ASSUME RegistryInv, ThreadsInv, NEW s \in Sessions, NEW r \in Rooms, NEW c \in Sessions, NEW W,
         SameThreads(W), W \in [Waits -> WaitRecords], pc[s] \in {"recv", "publish"},
         Suspended(s, r, c, W), then' = then,
         \A t \in Sessions \ {s} : todo'[t] = todo[t]
  PROVE  ThreadsInv'
<1>1. PICK v \in Waits :
        /\ W[v] = NoWait
        /\ wait' = [W EXCEPT ![v] = [thread |-> s, room |-> r, id |-> IdOf[c],
                                     result |-> "none", timer |-> "armed"]]
  BY DEF Suspended
<1>2. wait'[v].thread = s /\ \A w \in Waits \ {v} : wait'[w].thread = wait[w].thread
  BY <1>1 DEF SameThreads
<1>3. pc \in [Sessions -> {"new", "recv", "publish", "waiting", "done"}]
  BY DEF RegistryInv, TypeOK, ThreadTypeOK
<1>4. pc' = [pc EXCEPT ![s] = "waiting"] /\ lock' = NoThread
  BY DEF Suspended
<1>5. pc'[s] = "waiting" /\ \A t \in Sessions \ {s} : pc'[t] = pc[t]
  BY <1>3, <1>4
<1>6. \A w \in Waits : wait[w].thread # NoThread => wait[w].thread \in Sessions
  BY DEF RegistryInv, TypeOK, ThreadTypeOK, WaitRecords
<1>7. \A w \in Waits : wait[w].thread # s
  BY SessionsAssumption DEF ThreadsInv
<1>8. \A t \in Sessions : lock' # t
  BY <1>4, SessionsAssumption
<1>9. \A w \in Waits : wait'[w].thread # NoThread => pc'[wait'[w].thread] = "waiting"
  BY <1>2, <1>5, <1>6, <1>7 DEF ThreadsInv
<1>10. \A u, w \in Waits :
         wait'[u].thread # NoThread /\ wait'[u].thread = wait'[w].thread => u = w
  BY <1>2, <1>7 DEF ThreadsInv
<1>11. \A t \in Sessions : then'[t] = "done" => pc'[t] \in {"publish", "waiting", "done"}
  BY <1>5 DEF ThreadsInv
<1>12. \A t \in Sessions : pc'[t] = "done" => then'[t] = "done" /\ todo'[t] = <<>>
  BY <1>5 DEF ThreadsInv
<1> QED
  BY <1>8, <1>9, <1>10, <1>11, <1>12 DEF ThreadsInv

(* What remove_client makes of the threads.                                *)
LEMMA RemovedThreads ==
  ASSUME RegistryInv, ThreadsInv, NEW s \in Sessions, NEW r \in Rooms, NEW c \in Sessions,
         NEW h \in HandlerStates, SameThreads(h.wait), pc[s] \in {"recv", "publish"},
         Removed(s, r, c, h), then' = then,
         \A t \in Sessions \ {s} : todo'[t] = todo[t]
  PROVE  ThreadsInv'
<1>1. h.wait \in [Waits -> WaitRecords]
  BY DEF HandlerStates
<1>2. CASE UNCHANGED <<pc, lock>> /\ wait' = h.wait
  <2>1. \A t \in Sessions : pc[t] = "done" => todo'[t] = todo[t]
    OBVIOUS
  <2> QED
    BY <1>2, <2>1 DEF ThreadsInv, SameThreads
<1>3. CASE Suspended(s, r, c, h.wait)
  BY <1>1, <1>3, SuspendedThreads
<1> QED
  BY <1>2, <1>3 DEF Removed

-------------------------------------------------------------------------------
(***************************************************************************)
(* The actions, in terms of what they do to the rooms.                     *)
(***************************************************************************)

LEMMA JoinEffect ==
  ASSUME RegistryInv, NEW s \in Sessions, NEW r \in Rooms, JoinRoom(s, r)
  PROVE  /\ pc[s] = "recv"
         /\ r \in Live
         /\ Joined(s, r) \in HandlerStates
         /\ SameThreads(Joined(s, r).wait)
         /\ \/ /\ Disposed({}, Joined(s, r))
               /\ wait' = Joined(s, r).wait
               /\ UNCHANGED <<pc, lock>>
            \/ Removed(s, r, s, Joined(s, r))
<1> DEFINE h == Joined(s, r)
<1>1. pc[s] = "recv"
  BY DEF JoinRoom
<1>2. r \in Live
  BY DEF JoinRoom, Hears, Live
<1>3. h \in HandlerStates
  BY <1>2, LiveIds, JoinedType DEF RegistryInv, Joined
<1>4. SameThreads(h.wait)
  BY ResolveThreads DEF RegistryInv, Joined
<1>5. \/ /\ members' = h.members /\ told' = h.told /\ twice' = h.twice /\ visited' = h.visited
         /\ wait' = h.wait
         /\ UNCHANGED <<obj, rid, disposing, autoTimers, serverVars, pc, lock, stranded>>
      \/ RemoveClient(s, r, s, h)
  BY DEF JoinRoom, Joined
<1> HIDE DEF h
<1>6. CASE /\ members' = h.members /\ told' = h.told /\ twice' = h.twice /\ visited' = h.visited
           /\ wait' = h.wait
           /\ UNCHANGED <<obj, rid, disposing, autoTimers, serverVars, pc, lock, stranded>>
  <2>1. Disposed({}, h)
    BY <1>6, NothingDisposed DEF serverVars
  <2> QED
    BY <1>1, <1>2, <1>3, <1>4, <1>6, <2>1 DEF h
<1>7. CASE RemoveClient(s, r, s, h)
  <2>1. Removed(s, r, s, h)
    BY <1>7, RemoveClientEffect
  <2> QED
    BY <1>1, <1>2, <1>3, <1>4, <2>1 DEF h
<1> QED
  BY <1>5, <1>6, <1>7

LEMMA MessageKicksEffect ==
  ASSUME RegistryInv, NEW s \in Sessions, NEW r \in Rooms, NEW c \in Sessions, MessageKicks(s, r, c)
  PROVE  pc[s] = "recv" /\ members[r][c] > 0 /\ Removed(s, r, c, Current)
BY RemoveClientEffect DEF MessageKicks

(* Messages that close a room, the auto-dispose timer and shutdown.        *)
LEMMA ClosingEffect ==
  ASSUME RegistryInv,
         (\E r \in Rooms : MessageDisposes(r)) \/ WorkerRunsAuto \/ Shutdown
  PROVE  /\ \E now \in SUBSET Rooms : Disposed(now, Current)
         /\ UNCHANGED <<connections, threadVars, wait>>
         /\ worker' \in {worker, Idle}
<1>1. ASSUME NEW D \in SUBSET Rooms, Dispose(D, Current)
      PROVE  wait' = wait /\ \E now \in SUBSET Rooms : Disposed(now, Current)
  <2>1. Disposed({r \in D : obj[r] = "live" /\ ~disposing[r]}, Current)
    BY <1>1, DisposeEffect
  <2>2. wait' = wait
    BY <1>1 DEF Dispose, Current
  <2> QED
    BY <2>1, <2>2
<1>2. ASSUME NEW r \in Rooms, MessageDisposes(r)
      PROVE  Dispose({r}, Current) /\ UNCHANGED <<connections, threadVars, worker>>
  BY <1>2 DEF MessageDisposes
<1>3. CASE WorkerRunsAuto
  <2>1. worker.room \in Rooms
    BY <1>3 DEF WorkerRunsAuto, RegistryInv, TypeOK, ThreadTypeOK, Workers
  <2>2. Dispose({worker.room}, Current)
    BY <1>3 DEF WorkerRunsAuto
  <2> QED
    BY <1>1, <1>3, <2>1, <2>2 DEF WorkerRunsAuto
<1>4. CASE Shutdown
  <2>1. {managed[i] : i \in RoomIds} \ {NoRoom} \in SUBSET Rooms
    BY DEF RegistryInv, TypeOK, ServerTypeOK
  <2>2. Dispose({managed[i] : i \in RoomIds} \ {NoRoom}, Current)
    BY <1>4 DEF Shutdown
  <2> QED
    BY <1>1, <1>4, <2>1, <2>2 DEF Shutdown
<1> QED
  BY <1>1, <1>2, <1>3, <1>4

(* A session leaves connections_ and starts a publish, to every live room. *)
LEMMA DisconnectEffect ==
  ASSUME RegistryInv, NEW s \in Sessions, Disconnect(s) \/ CloseConnection(s)
  PROVE  /\ LockFree /\ pc[s] = "recv"
         /\ connections' = connections \ {s}
         /\ lock' = s
         /\ pc' = [pc EXCEPT ![s] = "publish"]
         /\ Live \subseteq Elements(todo'[s]) /\ \A r \in Elements(todo'[s]) : obj[r] # "none"
         /\ \A t \in Sessions \ {s} : todo'[t] = todo[t]
         /\ then'[s] \in {"recv", "done"} /\ \A t \in Sessions \ {s} : then'[t] = then[t]
         /\ told' = [told EXCEPT ![s] = {}]
         /\ UNCHANGED <<roomVars, serverVars, wait, worker, uaf, twice, visited, stranded>>
<1>1. PICK next \in {"recv", "done"} : HandleClientDisconnect(s, next)
  BY DEF Disconnect, CloseConnection
<1>2. todo' = [todo EXCEPT ![s] = leftSubs] /\ then' = [then EXCEPT ![s] = next]
  BY <1>1 DEF HandleClientDisconnect, ListenersCopy
<1>3. todo'[s] = leftSubs /\ then'[s] = next
  BY <1>2 DEF RegistryInv, TypeOK, ThreadTypeOK
<1>4. \A t \in Sessions \ {s} : todo'[t] = todo[t] /\ then'[t] = then[t]
  BY <1>2 DEF RegistryInv, TypeOK, ThreadTypeOK
<1>5. Live \subseteq Elements(leftSubs) /\ \A r \in Elements(leftSubs) : obj[r] # "none"
  BY DEF RegistryInv, SubscribersAreLive, Live
<1> QED
  BY <1>1, <1>3, <1>4, <1>5 DEF HandleClientDisconnect

(* The PLAYER_LEFT handler of one room, the head of what is left.          *)
LEMMA PublishNextEffect ==
  ASSUME RegistryInv, ThreadsInv, NEW s \in Sessions, PublishNext(s)
  PROVE  \E r \in Rooms :
           /\ r \in Elements(todo[s])
           /\ Elements(todo[s]) = Elements(todo'[s]) \cup {r}
           /\ pc[s] = "publish"
           /\ \A t \in Sessions \ {s} : todo'[t] = todo[t]
           /\ UNCHANGED <<connections, then, worker>>
           /\ \/ /\ members[r][s] = 0
                 /\ UNCHANGED <<roomVars, serverVars, pc, lock, wait, historyVars>>
              \/ members[r][s] > 0 /\ Removed(s, r, s, Current)
<1>1. todo[s] \in Seq(Rooms) /\ todo[s] # <<>> /\ todo' = [todo EXCEPT ![s] = Tail(@)]
  BY DEF PublishNext, RegistryInv, TypeOK, ThreadTypeOK
<1> DEFINE r == Head(todo[s])
<1>2. r \in Rooms /\ r \in Elements(todo[s]) /\ Elements(todo[s]) = Elements(Tail(todo[s])) \cup {r}
  BY <1>1, HeadElements
<1>3. todo'[s] = Tail(todo[s]) /\ \A t \in Sessions \ {s} : todo'[t] = todo[t]
  BY <1>1 DEF RegistryInv, TypeOK, ThreadTypeOK
<1>4. pc[s] = "publish"
  BY DEF PublishNext, ThreadsInv
<1>5. members[r][s] \in Nat
  BY <1>2 DEF RegistryInv, TypeOK, RoomTypeOK
<1>6. \/ members[r][s] = 0 /\ UNCHANGED <<roomVars, serverVars, pc, lock, wait, historyVars>>
      \/ members[r][s] > 0 /\ Removed(s, r, s, Current)
  BY <1>2, <1>5, RemoveClientEffect DEF PublishNext, IsMember
<1>7. UNCHANGED <<connections, then, worker>>
  BY DEF PublishNext
<1> QED
  BY <1>2, <1>3, <1>4, <1>6, <1>7

(* A suspended thread goes on: its room goes if it is empty.               *)
LEMMA ResumeEffect ==
  ASSUME RegistryInv, ThreadsInv, NEW s \in Sessions, Resume(s)
  PROVE  \E w \in Waits : \E now \in SUBSET {wait[w].room} :
           /\ wait[w].thread = s /\ wait[w].room \in Rooms
           /\ LockFree /\ lock' = s
           /\ pc[s] = "waiting" /\ pc' = [pc EXCEPT ![s] = "publish"]
           /\ UNCHANGED <<connections, todo, then, worker>>
           /\ wait' = Forget([wait EXCEPT ![w].thread = NoThread])
           /\ Disposed(now, Current)
           /\ wait[w].room \in Live /\ ~disposing[wait[w].room]
              /\ Present(members, wait[w].room) = {} <=> wait[w].room \in now
<1>1. PICK w \in Waits :
        /\ LockFree
        /\ wait[w].thread = s
        /\ lock' = s /\ pc' = [pc EXCEPT ![s] = "publish"]
        /\ UNCHANGED <<connections, todo, then, worker>>
        /\ DisposeIfEmpty(wait[w].room,
                          [Current EXCEPT !.wait = Forget([@ EXCEPT ![w].thread = NoThread])])
  BY DEF Resume
<1> DEFINE r   == wait[w].room
           h   == [Current EXCEPT !.wait = Forget([@ EXCEPT ![w].thread = NoThread])]
           D   == IF Present(members, r) = {} THEN {r} ELSE {}
           now == {q \in D : obj[q] = "live" /\ ~disposing[q]}
<1>2. r \in Rooms /\ pc[s] = "waiting"
  BY <1>1, SessionsAssumption DEF RegistryInv, SuspendedInRoom, ThreadsInv
<1>3. /\ h.members = members /\ h.told = told /\ h.twice = twice /\ h.visited = visited
      /\ h.wait = Forget([wait EXCEPT ![w].thread = NoThread])
  BY DEF Current
<1> HIDE DEF h
<1>4. Dispose(D, h)
  BY <1>1, <1>3 DEF DisposeIfEmpty, h
<1>5. Disposed(now, h)
  BY <1>2, <1>4, DisposeEffect
<1>6. wait' = Forget([wait EXCEPT ![w].thread = NoThread])
  BY <1>3, <1>4 DEF Dispose
<1>7. /\ now \in SUBSET {r}
      /\ r \in Live /\ ~disposing[r] /\ Present(members, r) = {} <=> r \in now
  <2>1. CASE Present(members, r) = {}
    BY <1>2, <2>1 DEF Live
  <2>2. CASE Present(members, r) # {}
    BY <2>2
  <2> QED
    BY <2>1, <2>2
<1> HIDE DEF now
<1>8. Disposed(now, Current)
  BY <1>3, <1>5 DEF Disposed, Current
<1> QED
  BY <1>1, <1>2, <1>6, <1>7, <1>8

(* The timeout callback ends the timer of its call, and moves no thread.   *)
LEMMA TimeoutEffect ==
  ASSUME TypeOK, WorkerRunsWait
  PROVE  \E W \in [Waits -> WaitRecords], w \in Waits :
           /\ worker = Popped(w) /\ worker' = Idle
           /\ wait' = Forget(W)
           /\ \A v \in Waits : /\ W[v].thread = wait[v].thread
                               /\ W[v].room = wait[v].room
                               /\ W[v].timer = IF v = w THEN "done" ELSE wait[v].timer
<1>1. wait \in [Waits -> WaitRecords]
  BY DEF TypeOK, ThreadTypeOK
<1> DEFINE w == worker.wait
           back == \E s \in Present(members, wait[w].room) : IdOf[s] = wait[w].id
           x == TimeoutResult(wait[w].result, back)
           q == [[wait[w] EXCEPT !.timer = "done"] EXCEPT !.result = x]
           W == [wait EXCEPT ![w] = q]
<1>2. w \in Waits /\ worker = Popped(w) /\ worker' = Idle
  BY DEF WorkerRunsWait, TypeOK, ThreadTypeOK, Workers, Popped
<1>3. wait' = Forget([wait EXCEPT ![w].timer = "done", ![w].result = TimeoutResult(@, back)])
  BY DEF WorkerRunsWait
<1> HIDE DEF w, back
<1>4. wait[w] \in WaitRecords /\ wait[w].result \in {"none", "true", "false"}
  BY <1>1, <1>2 DEF WaitRecords
<1>5. x \in {"none", "true", "false"}
  BY <1>4 DEF TimeoutResult
<1>6. wait' = Forget(W)
  <2>1. [wait EXCEPT ![w].timer = "done", ![w].result = TimeoutResult(@, back)] = W
    BY <1>1, <1>2, <1>4 DEF WaitRecords
  <2> QED
    BY <1>3, <2>1
<1> HIDE DEF x
<1>7. /\ q \in WaitRecords
      /\ q.thread = wait[w].thread /\ q.room = wait[w].room /\ q.timer = "done"
  <2>1. q \in WaitRecords
    BY <1>4, <1>5, WaitRecordUpdates
  <2> QED
    BY <1>4, <2>1 DEF WaitRecords
<1> HIDE DEF q
<1>8. W \in [Waits -> WaitRecords]
  BY <1>1, <1>2, <1>7
<1>9. \A v \in Waits : /\ W[v].thread = wait[v].thread
                       /\ W[v].room = wait[v].room
                       /\ W[v].timer = IF v = w THEN "done" ELSE wait[v].timer
  BY <1>1, <1>2, <1>7
<1> HIDE DEF W
<1> QED
  BY <1>2, <1>6, <1>8, <1>9

(* The worker moves no suspended thread: it resolves promises.             *)
LEMMA WorkerThreads ==
  ASSUME TypeOK, \/ \E r \in Rooms : WorkerTakesAuto(r)
                 \/ \E w \in Waits : WorkerTakesWait(w)
                 \/ WorkerRunsWait
  PROVE  /\ SameThreads(wait')
         /\ UNCHANGED <<obj, rid, disposing, members, serverVars, connections, threadVars,
                        historyVars>>
<1>1. wait \in [Waits -> WaitRecords]
  BY DEF TypeOK, ThreadTypeOK
<1>2. ASSUME NEW r \in Rooms, WorkerTakesAuto(r)
      PROVE  SameThreads(wait')
  BY <1>2 DEF WorkerTakesAuto, SameThreads
<1>3. ASSUME NEW w \in Waits, WorkerTakesWait(w)
      PROVE  SameThreads(wait')
  BY <1>1, <1>3 DEF WorkerTakesWait, SameThreads, WaitRecords
<1>4. ASSUME WorkerRunsWait
      PROVE  SameThreads(wait')
  <2>1. PICK W \in [Waits -> WaitRecords] :
          /\ wait' = Forget(W)
          /\ \A v \in Waits : W[v].thread = wait[v].thread /\ W[v].room = wait[v].room
    BY <1>4, TimeoutEffect
  <2>2. SameThreads(W)
    BY <2>1 DEF SameThreads
  <2> QED
    BY <2>1, <2>2, ForgetThreads
<1> QED
  BY <1>2, <1>3, <1>4
     DEF WorkerTakesAuto, WorkerTakesWait, WorkerRunsWait, roomVars

(* Threads keep to their places in every step.                             *)
LEMMA ThreadsInvariance ==
  ASSUME RegistryInv, ThreadsInv, [Next]_vars
  PROVE  ThreadsInv'
<1>1. TypeOK /\ pc \in [Sessions -> {"new", "recv", "publish", "waiting", "done"}]
  BY DEF RegistryInv, TypeOK, ThreadTypeOK
<1>2. Current \in HandlerStates /\ SameThreads(Current.wait) /\ SameThreads(wait)
  BY <1>1, CurrentType DEF SameThreads, Current
<1>3. ASSUME NEW s \in Sessions, Connect(s)
      PROVE  ThreadsInv'
  BY <1>1, <1>3 DEF Connect, ThreadsInv, LockFree
<1>4. ASSUME NEW s \in Sessions, NEW r \in Rooms, JoinRoom(s, r)
      PROVE  ThreadsInv'
  <2>1. UNCHANGED <<todo, then>>
    BY <1>4 DEF JoinRoom
  <2>2. CASE Removed(s, r, s, Joined(s, r))
    BY <1>4, <2>1, <2>2, JoinEffect, RemovedThreads
  <2>3. CASE wait' = Joined(s, r).wait /\ UNCHANGED <<pc, lock>>
    BY <1>4, <2>1, <2>3, JoinEffect, SteadyThreads
  <2> QED
    BY <1>4, <2>2, <2>3, JoinEffect
<1>5. ASSUME NEW s \in Sessions, NEW r \in Rooms, NEW c \in Sessions, MessageKicks(s, r, c)
      PROVE  ThreadsInv'
  <2>1. UNCHANGED <<todo, then>>
    BY <1>5 DEF MessageKicks
  <2> QED
    BY <1>2, <1>5, <2>1, MessageKicksEffect, RemovedThreads
<1>6. ASSUME NEW s \in Sessions, Disconnect(s) \/ CloseConnection(s)
      PROVE  ThreadsInv'
  <2>1. /\ LockFree /\ pc[s] = "recv" /\ lock' = s /\ wait' = wait
        /\ pc' = [pc EXCEPT ![s] = "publish"]
        /\ \A t \in Sessions \ {s} : todo'[t] = todo[t] /\ then'[t] = then[t]
    BY <1>6, DisconnectEffect
  <2>2. pc'[s] = "publish" /\ \A t \in Sessions \ {s} : pc'[t] = pc[t]
    BY <1>1, <2>1
  <2>3. \A w \in Waits : wait[w].thread # NoThread => wait[w].thread \in Sessions
    BY DEF RegistryInv, TypeOK, ThreadTypeOK, WaitRecords
  <2>4. \A w \in Waits : wait[w].thread # s
    BY <2>1, SessionsAssumption DEF ThreadsInv
  <2> QED
    BY <2>1, <2>2, <2>3, <2>4 DEF ThreadsInv
<1>7. ASSUME NEW s \in Sessions, PublishNext(s)
      PROVE  ThreadsInv'
  <2>1. PICK r \in Rooms :
           /\ pc[s] = "publish"
           /\ \A t \in Sessions \ {s} : todo'[t] = todo[t]
           /\ then' = then
           /\ UNCHANGED <<pc, lock, wait>> \/ Removed(s, r, s, Current)
    BY <1>7, PublishNextEffect
  <2>2. CASE UNCHANGED <<pc, lock, wait>>
    BY <2>1, <2>2 DEF ThreadsInv
  <2>3. CASE Removed(s, r, s, Current)
    BY <1>2, <2>1, <2>3, RemovedThreads
  <2> QED
    BY <2>1, <2>2, <2>3
<1>8. ASSUME NEW s \in Sessions, PublishEnd(s)
      PROVE  ThreadsInv'
  <2>1. /\ lock = s /\ todo[s] = <<>> /\ lock' = NoThread /\ pc' = [pc EXCEPT ![s] = then[s]]
        /\ UNCHANGED <<todo, then, wait>>
    BY <1>8 DEF PublishEnd
  <2>2. pc[s] = "publish" /\ then[s] \in {"recv", "done"}
    BY <2>1 DEF ThreadsInv, RegistryInv, TypeOK, ThreadTypeOK
  <2>3. pc'[s] = then[s] /\ \A t \in Sessions \ {s} : pc'[t] = pc[t]
    BY <1>1, <2>1
  <2>4. \A w \in Waits : wait[w].thread # NoThread => wait[w].thread \in Sessions
    BY DEF RegistryInv, TypeOK, ThreadTypeOK, WaitRecords
  <2>5. \A w \in Waits : wait[w].thread # s
    BY <2>2, SessionsAssumption DEF ThreadsInv
  <2> QED
    BY <2>1, <2>2, <2>3, <2>4, <2>5, SessionsAssumption DEF ThreadsInv
<1>9. ASSUME NEW s \in Sessions, Resume(s)
      PROVE  ThreadsInv'
  <2>1. PICK w \in Waits :
          /\ wait[w].thread = s /\ LockFree /\ lock' = s /\ pc[s] = "waiting"
          /\ pc' = [pc EXCEPT ![s] = "publish"] /\ UNCHANGED <<todo, then>>
          /\ wait' = Forget([wait EXCEPT ![w].thread = NoThread])
    BY <1>9, ResumeEffect
  <2>2. pc'[s] = "publish" /\ \A t \in Sessions \ {s} : pc'[t] = pc[t]
    BY <1>1, <2>1
  <2>3. /\ wait'[w].thread = NoThread
        /\ \A v \in Waits \ {w} : wait'[v].thread = wait[v].thread
    BY <1>1, <2>1 DEF Forget, NoWait, ThreadTypeOK, TypeOK, WaitRecords
  <2>4. \A v \in Waits : wait[v].thread # NoThread => wait[v].thread \in Sessions
    BY DEF RegistryInv, TypeOK, ThreadTypeOK, WaitRecords
  <2>5. \A v \in Waits \ {w} : wait[v].thread # s
    BY <2>1, SessionsAssumption DEF ThreadsInv
  <2>6. \A v \in Waits : wait'[v].thread # NoThread => pc'[wait'[v].thread] = "waiting"
    BY <2>2, <2>3, <2>4, <2>5 DEF ThreadsInv
  <2>7. \A u, v \in Waits :
          wait'[u].thread # NoThread /\ wait'[u].thread = wait'[v].thread => u = v
    BY <2>3 DEF ThreadsInv
  <2>8. \A t \in Sessions : lock' = t => pc'[t] = "publish"
    BY <2>1, <2>2
  <2>9. \A t \in Sessions : /\ then'[t] = "done" => pc'[t] \in {"publish", "waiting", "done"}
                            /\ pc'[t] = "done" => then'[t] = "done" /\ todo'[t] = <<>>
    BY <2>1, <2>2 DEF ThreadsInv
  <2> QED
    BY <2>6, <2>7, <2>8, <2>9 DEF ThreadsInv
<1>10. CASE UNCHANGED <<threadVars, wait>>
  BY <1>2, <1>10, SteadyThreads DEF threadVars
<1>11. CASE \/ \E r \in Rooms : WorkerTakesAuto(r)
            \/ \E w \in Waits : WorkerTakesWait(w)
            \/ WorkerRunsWait
  BY <1>1, <1>11, WorkerThreads, SteadyThreads DEF threadVars
<1>12. CASE \E s \in Sessions : ClientStep(s) \/ ServerStep(s)
  BY <1>3, <1>4, <1>5, <1>6, <1>7, <1>8, <1>9, <1>12 DEF ClientStep, ServerStep
<1>13. CASE ApplicationStep
  <2>1. UNCHANGED <<threadVars, wait>>
    BY <1>13, ClosingEffect
       DEF ApplicationStep, CreateNewRoom, CreateNewRoomDisposed, Constructs, SnapshotExpires,
           MessageReachesFreed
  <2> QED
    BY <1>10, <2>1
<1>14. CASE WorkerStep
  BY <1>10, <1>11, <1>14, ClosingEffect DEF WorkerStep
<1> QED
  BY <1>10, <1>12, <1>13, <1>14 DEF Next, vars

-------------------------------------------------------------------------------
(***************************************************************************)
(* The members of the rooms.                                               *)
(***************************************************************************)

(* At a point of a handler that has computed h: no entry belongs to a      *)
(* session that is new, and with the listeners td still to be called, none *)
(* is overlooked by a publish of a session that closes.                    *)
Expected(h, td) ==
  \A s \in Sessions, r \in Rooms :
    h.members[r][s] > 0 =>
      /\ pc[s] # "new"
      /\ then[s] = "done" => r \in Elements(td[s]) \/ <<s, r>> \in h.twice

(* The rooms that EmptyRoomIsAwaited is about.                             *)
LeftEmpty(h) == {r \in Live : r \in h.visited /\ ~disposing[r] /\ Present(h.members, r) = {}}

Awaited(r) == \E w \in Waits : wait[w].room = r /\ wait[w].thread # NoThread

(* In a state these are the invariants.                                    *)
LEMMA CurrentExpected ==
  ASSUME RegistryInv, NewHasNoEntry, ClosingReachesRooms, EmptyRoomIsAwaited
  PROVE  /\ Expected(Current, todo)
         /\ \A r \in LeftEmpty(Current) : Awaited(r)
<1>1. members \in [Rooms -> [Sessions -> Nat]]
  BY DEF RegistryInv, TypeOK, RoomTypeOK
<1> QED
  BY <1>1 DEF NewHasNoEntry, ClosingReachesRooms, EmptyRoomIsAwaited, Expected, LeftEmpty, Awaited,
              Current

(* What Disposed leaves of them.                                           *)
LEMMA DisposedMembers ==
  ASSUME RegistryInv, NEW h \in HandlerStates, HandlerInv(h), NEW now, Disposed(now, h),
         Expected(h, todo'), connections' = connections, then' = then,
         \A s \in Sessions : pc'[s] = "new" => pc[s] = "new"
  PROVE  /\ HandlerInv(Current)' /\ NewHasNoEntry' /\ ClosingReachesRooms'
         /\ LeftEmpty(Current)' \subseteq LeftEmpty(h) \ now
<1>1. h.members \in [Rooms -> [Sessions -> Nat]]
  BY DEF HandlerStates
<1>2. \A r \in Rooms, s \in Sessions : members'[r][s] = IF r \in now THEN 0 ELSE h.members[r][s]
  BY DEF Disposed
<1>3. \A r \in Rooms, s \in Sessions : <<s, r>> \in h.twice /\ r \notin now => <<s, r>> \in twice'
  BY DEF Disposed
<1>4. \A r \in Rooms, s \in Sessions :
        members'[r][s] > 0 => r \notin now /\ h.members[r][s] > 0
  BY <1>2
<1>5. NewHasNoEntry'
  <2> SUFFICES ASSUME NEW s \in Sessions, NEW r \in Rooms, pc'[s] = "new"
               PROVE  members'[r][s] = 0
    BY DEF NewHasNoEntry
  <2>1. h.members[r][s] \in Nat /\ ~ (h.members[r][s] > 0)
    BY <1>1 DEF Expected
  <2> QED
    BY <1>2, <2>1
<1>6. ClosingReachesRooms'
  BY <1>3, <1>4 DEF ClosingReachesRooms, Expected
<1>7. LeftEmpty(Current)' \subseteq LeftEmpty(h) \ now
  <2> SUFFICES ASSUME NEW r \in Live', r \in visited', ~disposing'[r], Present(members', r) = {}
               PROVE  r \in LeftEmpty(h) \ now
    BY DEF LeftEmpty, Current, Present
  <2>1. r \in Live \ now /\ r \in Rooms
    BY DEF Disposed, Live
  <2>2. r \in h.visited /\ ~disposing[r]
    BY <2>1 DEF Disposed
  <2>3. Present(h.members, r) = {}
    BY <1>2, <2>1 DEF Present
  <2> QED
    BY <2>1, <2>2, <2>3 DEF LeftEmpty
<1> QED
  BY <1>5, <1>6, <1>7, DisposedKeeps

(* What remove_client leaves of them: the room that it may empty goes, or  *)
(* is awaited by the thread it suspends.                                   *)
LEMMA RemovedMembers ==
  ASSUME RegistryInv, NEW s \in Sessions, NEW r \in Rooms, NEW c \in Sessions,
         NEW h \in HandlerStates, HandlerInv(h), h.members[r][c] > 0, SameThreads(h.wait),
         Removed(s, r, c, h), Expected(Erased(h, r, c), todo'),
         \A q \in LeftEmpty(h) : Awaited(q),
         connections' = connections, then' = then
  PROVE  HandlerInv(Current)' /\ NewHasNoEntry' /\ ClosingReachesRooms' /\ EmptyRoomIsAwaited'
<1> DEFINE g == Erased(h, r, c)
<1>1. g \in HandlerStates /\ HandlerInv(g)
  BY ErasedKeeps
<1>2. g.visited = h.visited /\ \A q \in Rooms \ {r} : Present(g.members, q) = Present(h.members, q)
  BY DEF Erased, EraseEntry, HandlerStates, Present
<1>3. LeftEmpty(g) \subseteq LeftEmpty(h) \cup {r}
  BY <1>2 DEF LeftEmpty, Live
<1>4. Expected(g, todo')
  OBVIOUS
<1> HIDE DEF g
<1>5. pc \in [Sessions -> {"new", "recv", "publish", "waiting", "done"}]
  BY DEF RegistryInv, TypeOK, ThreadTypeOK
<1>6. \A q \in LeftEmpty(h) : \E w \in Waits : h.wait[w].room = q /\ h.wait[w].thread # NoThread
  BY DEF Awaited, SameThreads
<1>7. CASE /\ UNCHANGED <<pc, lock>>
           /\ wait' = h.wait
           /\ \E now \in SUBSET {r} :
                /\ Disposed(now, g)
                /\ r \in Live /\ ~disposing[r] /\ Present(g.members, r) = {} <=> r \in now
  <2>1. PICK now \in SUBSET {r} :
                /\ Disposed(now, g)
                /\ r \in Live /\ ~disposing[r] /\ Present(g.members, r) = {} <=> r \in now
    BY <1>7
  <2>2. \A t \in Sessions : pc'[t] = "new" => pc[t] = "new"
    BY <1>7
  <2>3. /\ HandlerInv(Current)' /\ NewHasNoEntry' /\ ClosingReachesRooms'
        /\ LeftEmpty(Current)' \subseteq LeftEmpty(g) \ now
    BY <1>1, <1>4, <2>1, <2>2, DisposedMembers
  <2>4. r \notin LeftEmpty(g) \ now
    BY <2>1 DEF LeftEmpty
  <2>5. \A q \in LeftEmpty(Current)' : \E w \in Waits : wait'[w].room = q /\ wait'[w].thread # NoThread
    BY <1>3, <1>6, <1>7, <2>3, <2>4
  <2> QED
    BY <2>3, <2>5 DEF EmptyRoomIsAwaited, LeftEmpty, Current
<1>8. CASE Suspended(s, r, c, h.wait) /\ Disposed({}, g)
  <2>1. PICK v \in Waits :
          /\ h.wait[v] = NoWait
          /\ wait' = [h.wait EXCEPT ![v] = [thread |-> s, room |-> r, id |-> IdOf[c],
                                            result |-> "none", timer |-> "armed"]]
    BY <1>8 DEF Suspended
  <2>2. \A t \in Sessions : pc'[t] = "new" => pc[t] = "new"
    BY <1>5, <1>8 DEF Suspended
  <2>3. /\ HandlerInv(Current)' /\ NewHasNoEntry' /\ ClosingReachesRooms'
        /\ LeftEmpty(Current)' \subseteq LeftEmpty(g)
    BY <1>1, <1>4, <1>8, <2>2, DisposedMembers
  <2>4. wait'[v].room = r /\ wait'[v].thread # NoThread
    BY <2>1, SessionsAssumption DEF HandlerStates
  <2>5. \A w \in Waits : h.wait[w].thread # NoThread => wait'[w] = h.wait[w]
    BY <2>1 DEF HandlerStates, NoWait
  <2>6. \A q \in LeftEmpty(Current)' : \E w \in Waits : wait'[w].room = q /\ wait'[w].thread # NoThread
    BY <1>3, <1>6, <2>3, <2>4, <2>5
  <2> QED
    BY <2>3, <2>6 DEF EmptyRoomIsAwaited, LeftEmpty, Current
<1> QED
  BY <1>7, <1>8 DEF Removed, g

(* Steps that leave the rooms and connections_ alone.                      *)
LEMMA SameRooms ==
  ASSUME RegistryInv, RoomsInv,
         UNCHANGED <<obj, rid, disposing, members, managed, connections, then, historyVars>>,
         SameThreads(wait'),
         \A s \in Sessions : pc'[s] = "new" => pc[s] = "new",
         Expected(Current, todo')
  PROVE  RoomsInv'
<1>1. HandlerInv(Current)'
  BY DEF RoomsInv, HandlerInv, Entered, Told, Explained, Current, Live, historyVars
<1>2. NewHasNoEntry' /\ ClosingReachesRooms'
  BY DEF RoomsInv, NewHasNoEntry, ClosingReachesRooms, Expected, Current, historyVars
<1>3. EmptyRoomIsAwaited'
  BY DEF RoomsInv, EmptyRoomIsAwaited, Live, Present, SameThreads, historyVars
<1> QED
  BY <1>1, <1>2, <1>3 DEF RoomsInv

(* A session connects: it has no entry and has been told nothing.          *)
LEMMA ConnectMembers ==
  ASSUME RegistryInv, RoomsInv, NEW s \in Sessions, Connect(s)
  PROVE  RoomsInv'
<1>1. /\ pc[s] = "new" /\ pc' = [pc EXCEPT ![s] = "recv"]
      /\ connections' = connections \cup {s}
      /\ UNCHANGED <<obj, rid, disposing, members, stored, managed, then, todo, wait, told, twice, visited,
                     stranded>>
  BY DEF Connect, roomVars, serverVars, historyVars
<1>2. \A t \in Sessions : pc'[t] = "new" => pc[t] = "new"
  BY <1>1 DEF RegistryInv, TypeOK, ThreadTypeOK
<1>3. \A r \in Rooms : members[r][s] = 0
  BY <1>1 DEF RoomsInv, NewHasNoEntry
<1>4. Told(Current)'
  <2>1. ASSUME NEW t \in connections', NEW r \in Live', members'[r][t] > 0
        PROVE  <<t, r>> \in twice' \/ rid'[r] \in told'[t]
    <3>1. t \in connections /\ r \in Live
      BY <1>1, <1>3, <2>1 DEF Live
    <3> QED
      BY <1>1, <2>1, <3>1 DEF RoomsInv, HandlerInv, Told, Current
  <2>2. ASSUME NEW t \in Sessions, NEW i \in told'[t]
        PROVE  t \in connections' /\ Explained(Current, t, i)'
    BY <1>1, <2>2 DEF RoomsInv, HandlerInv, Told, Explained, Current
  <2> QED
    BY <2>1, <2>2 DEF Told, Current
<1>5. Entered(Current)' /\ visited' \subseteq Live'
  BY <1>1 DEF RoomsInv, HandlerInv, Entered, Current, Live
<1>6. NewHasNoEntry' /\ ClosingReachesRooms'
  BY <1>1, <1>2 DEF RoomsInv, NewHasNoEntry, ClosingReachesRooms
<1>7. EmptyRoomIsAwaited'
  BY <1>1 DEF RoomsInv, EmptyRoomIsAwaited, Live, Present
<1> QED
  BY <1>4, <1>5, <1>6, <1>7 DEF RoomsInv, HandlerInv, Current

(* A session leaves connections_, and is told nothing any more: every room *)
(* that it is in is among the listeners that its publish will call.        *)
LEMMA DisconnectMembers ==
  ASSUME RegistryInv, RoomsInv, NEW s \in Sessions, Disconnect(s) \/ CloseConnection(s)
  PROVE  RoomsInv'
<1>1. /\ pc[s] = "recv" /\ pc' = [pc EXCEPT ![s] = "publish"]
      /\ connections' = connections \ {s}
      /\ Live \subseteq Elements(todo'[s]) /\ \A t \in Sessions \ {s} : todo'[t] = todo[t]
      /\ \A t \in Sessions \ {s} : then'[t] = then[t]
      /\ told' = [told EXCEPT ![s] = {}]
      /\ UNCHANGED <<obj, rid, disposing, members, stored, managed, wait, twice, visited, stranded>>
  BY DisconnectEffect DEF roomVars, serverVars
<1>2. pc'[s] = "publish" /\ \A t \in Sessions \ {s} : pc'[t] = pc[t]
  BY <1>1 DEF RegistryInv, TypeOK, ThreadTypeOK
<1>3. told'[s] = {} /\ \A t \in Sessions \ {s} : told'[t] = told[t]
  BY <1>1 DEF RegistryInv, TypeOK, HistoryTypeOK
<1>4. Told(Current)'
  <2>1. ASSUME NEW t \in Sessions, NEW i \in told'[t]
        PROVE  t \in connections' /\ Explained(Current, t, i)'
    <3>1. t # s /\ i \in told[t]
      BY <1>3, <2>1
    <3> QED
      BY <1>1, <3>1 DEF RoomsInv, HandlerInv, Told, Explained, Current
  <2>2. ASSUME NEW t \in connections', NEW r \in Live', members'[r][t] > 0
        PROVE  <<t, r>> \in twice' \/ rid'[r] \in told'[t]
    <3>1. t \in Sessions \ {s} /\ t \in connections /\ r \in Live
      BY <1>1 DEF RegistryInv, TypeOK, ThreadTypeOK, Live
    <3>2. <<t, r>> \in twice \/ rid[r] \in told[t]
      BY <1>1, <2>2, <3>1 DEF RoomsInv, HandlerInv, Told, Current
    <3> QED
      BY <1>1, <1>3, <3>1, <3>2
  <2> QED
    BY <2>1, <2>2 DEF Told, Current
<1>5. Entered(Current)' /\ visited' \subseteq Live'
  BY <1>1 DEF RoomsInv, HandlerInv, Entered, Current, Live
<1>6. NewHasNoEntry'
  BY <1>1, <1>2 DEF RoomsInv, NewHasNoEntry
<1>7. ClosingReachesRooms'
  <2> SUFFICES ASSUME NEW t \in Sessions, NEW r \in Rooms, then'[t] = "done", members'[r][t] > 0
               PROVE  r \in Elements(todo'[t]) \/ <<t, r>> \in twice'
    BY DEF ClosingReachesRooms
  <2>1. CASE t = s
    BY <1>1, <2>1 DEF RoomsInv, HandlerInv, Entered, Current, Live
  <2>2. CASE t # s
    BY <1>1, <2>2 DEF RoomsInv, ClosingReachesRooms
  <2> QED
    BY <2>1, <2>2
<1>8. EmptyRoomIsAwaited'
  BY <1>1 DEF RoomsInv, EmptyRoomIsAwaited, Live, Present
<1> QED
  BY <1>4, <1>5, <1>6, <1>7, <1>8 DEF RoomsInv, HandlerInv, Current

(* A new room is empty, and has had no client.  The clients of the room    *)
(* that it replaces are stranded.                                          *)
LEMMA CreateMembers ==
  ASSUME RegistryInv, RoomsInv, NEW r \in Rooms, NEW id \in RoomIds,
         CreateNewRoom(r, id) \/ CreateNewRoomDisposed(r, id)
  PROVE  RoomsInv'
<1> DEFINE old == managed[id]
<1>1. /\ obj[r] = "none"
      /\ obj' = [q \in Rooms |-> IF q = r THEN "live" ELSE IF q = old THEN "replaced" ELSE obj[q]]
      /\ rid' = [rid EXCEPT ![r] = id]
      /\ members' = [q \in Rooms |-> IF q = old THEN [s \in Sessions |-> 0] ELSE members[q]]
      /\ visited' = visited \ {old}
      /\ stranded' = stranded \cup
           {<<s, id>> : s \in {t \in Sessions : old # NoRoom /\ members[old][t] > 0}}
      /\ managed' = [managed EXCEPT ![id] = r]
      /\ disposing' \in {disposing, [disposing EXCEPT ![r] = TRUE]}
      /\ UNCHANGED <<connections, pc, todo, then, wait, told, twice>>
  BY DEF CreateNewRoom, CreateNewRoomDisposed, Constructs, Register, threadVars
<1>2. /\ \A q \in Rooms \ {r} : rid'[q] = rid[q] /\ disposing'[q] = disposing[q]
      /\ \A i \in RoomIds \ {id} : managed'[i] = managed[i]
      /\ managed'[id] = r
  BY <1>1 DEF RegistryInv, TypeOK, RoomTypeOK, ServerTypeOK
<1>3. old = NoRoom \/ (old \in Live /\ old \in Rooms /\ rid[old] = id)
  BY LiveIds
<1>4. r \notin Live /\ r # old /\ r # NoRoom
  BY <1>1, <1>3, RoomsAssumption DEF Live
<1>5. Live' = (Live \ {old}) \cup {r}
  BY <1>1, <1>4 DEF Live
<1>6. /\ \A s \in Sessions : ~ (members[r][s] > 0)
      /\ \A q \in Rooms, s \in Sessions : members'[q][s] > 0 => q # r /\ q # old /\ members[q][s] > 0
  <2>1. \A s \in Sessions : ~ (members[r][s] > 0)
    BY <1>1 DEF RoomsInv, HandlerInv, Entered, Current
  <2>2. \A q \in Rooms, s \in Sessions : members'[q][s] > 0 => q # old /\ members[q][s] > 0
    BY <1>1
  <2> QED
    BY <2>1, <2>2
<1>7. Told(Current)'
  <2>1. ASSUME NEW t \in Sessions, NEW i \in told'[t]
        PROVE  t \in connections' /\ Explained(Current, t, i)'
    <3>1. t \in connections /\ Explained(Current, t, i) /\ i \in RoomIds
      BY <1>1, <2>1 DEF RoomsInv, HandlerInv, Told, Current, RegistryInv, TypeOK, HistoryTypeOK
    <3>2. CASE <<t, i>> \in stranded
      BY <1>1, <3>1, <3>2 DEF Explained
    <3>3. CASE i = id /\ old # NoRoom /\ members[old][t] > 0
      <4>1. <<t, id>> \in stranded'
        BY <1>1, <3>3
      <4> QED
        BY <1>1, <3>1, <3>3, <4>1 DEF Explained
    <3>4. CASE i # id /\ managed[i] # NoRoom /\ members[managed[i]][t] > 0
      <4>1. managed'[i] = managed[i] /\ managed[i] \in Rooms /\ rid[managed[i]] = i
        BY <1>2, <3>1, <3>4, LiveIds
      <4>2. managed[i] # old
        BY <1>3, <3>4, <4>1
      <4> QED
        BY <1>1, <3>1, <3>4, <4>1, <4>2 DEF Explained, Current
    <3> QED
      BY <3>1, <3>2, <3>3, <3>4 DEF Explained, Current
  <2>2. ASSUME NEW t \in connections', NEW q \in Live', members'[q][t] > 0
        PROVE  <<t, q>> \in twice' \/ rid'[q] \in told'[t]
    <3>1. t \in Sessions /\ t \in connections
      BY <1>1 DEF RegistryInv, TypeOK, ThreadTypeOK
    <3>2. q \in Live /\ q \in Rooms \ {r} /\ members[q][t] > 0
      BY <1>5, <1>6, <2>2, <3>1 DEF Live
    <3>3. <<t, q>> \in twice \/ rid[q] \in told[t]
      BY <3>1, <3>2 DEF RoomsInv, HandlerInv, Told, Current
    <3> QED
      BY <1>1, <1>2, <3>1, <3>2, <3>3
  <2> QED
    BY <2>1, <2>2 DEF Told, Current
<1>8. Entered(Current)'
  <2> SUFFICES ASSUME NEW q \in Rooms, NEW s \in Sessions
               PROVE  /\ members'[q][s] > 0 => obj'[q] = "live"
                      /\ members'[q][s] > 1 => <<s, q>> \in twice'
    BY DEF Entered, Current
  <2>1. CASE q = old
    BY <1>1, <2>1
  <2>2. CASE q # old
    <3>1. /\ members'[q][s] = members[q][s]
          /\ members[q][s] > 0 => obj[q] = "live"
          /\ members[q][s] > 1 => <<s, q>> \in twice
      BY <1>1, <2>2 DEF RoomsInv, HandlerInv, Entered, Current
    <3> QED
      BY <1>1, <2>2, <3>1
  <2> QED
    BY <2>1, <2>2
<1>9. visited' \subseteq Live'
  BY <1>1, <1>5 DEF RoomsInv, HandlerInv, Current
<1>10. NewHasNoEntry'
  <2> SUFFICES ASSUME NEW s \in Sessions, NEW q \in Rooms, pc'[s] = "new"
               PROVE  members'[q][s] = 0
    BY DEF NewHasNoEntry
  <2>1. members[q][s] = 0
    BY <1>1 DEF RoomsInv, NewHasNoEntry
  <2> QED
    BY <1>1, <2>1
<1>11. ClosingReachesRooms'
  BY <1>1, <1>6 DEF RoomsInv, ClosingReachesRooms
<1>12. EmptyRoomIsAwaited'
  <2> SUFFICES ASSUME NEW q \in Live', q \in visited', ~disposing'[q], Present(members', q) = {}
               PROVE  \E w \in Waits : wait'[w].room = q /\ wait'[w].thread # NoThread
    BY DEF EmptyRoomIsAwaited, Present
  <2>1. q \in visited /\ q # old
    BY <1>1
  <2>2. q \in Live /\ q \in Rooms \ {r}
    BY <1>4, <2>1 DEF RoomsInv, HandlerInv, Current, Live
  <2>3. Present(members, q) = {} /\ ~disposing[q]
    BY <1>1, <1>2, <2>1, <2>2 DEF Present
  <2> QED
    BY <1>1, <2>1, <2>2, <2>3 DEF RoomsInv, EmptyRoomIsAwaited, Present
<1> QED
  BY <1>7, <1>8, <1>9, <1>10, <1>11, <1>12 DEF RoomsInv, HandlerInv, Current

(* The session of a join is in its room then, unless its hook kicks it.    *)
LEMMA JoinMembers ==
  ASSUME MembersInv, NEW s \in Sessions, NEW r \in Rooms, JoinRoom(s, r)
  PROVE  RoomsInv'
<1> DEFINE h == Joined(s, r)
<1>1. RegistryInv /\ ThreadsInv /\ RoomsInv /\ HandlerInv(Current)
  BY DEF MembersInv, RoomsInv
<1>2. UNCHANGED <<connections, todo, then>>
  BY DEF JoinRoom
<1>3. /\ pc[s] = "recv" /\ r \in Live /\ h \in HandlerStates /\ SameThreads(h.wait)
      /\ HandlerInv(h)
      /\ \/ Disposed({}, h) /\ wait' = h.wait /\ UNCHANGED <<pc, lock>>
         \/ Removed(s, r, s, h)
  BY <1>1, JoinEffect, JoinedKeeps
<1>4. members \in [Rooms -> [Sessions -> Nat]]
  BY <1>1 DEF RegistryInv, TypeOK, RoomTypeOK
<1>5. /\ \A q \in Rooms, t \in Sessions :
           h.members[q][t] = IF q = r /\ t = s THEN members[q][t] + 1 ELSE members[q][t]
      /\ twice \subseteq h.twice
      /\ h.visited = visited \cup {r}
  BY <1>4 DEF Joined
<1>6. Expected(Current, todo) /\ \A q \in LeftEmpty(Current) : Awaited(q)
  BY <1>1, CurrentExpected DEF RoomsInv
<1> HIDE DEF h
<1>7. then[s] # "done"
  BY <1>1, <1>3 DEF ThreadsInv
<1>8. h.members[r][s] > 0
  BY <1>4, <1>5
<1>9. Expected(h, todo)
  <2> SUFFICES ASSUME NEW t \in Sessions, NEW q \in Rooms, h.members[q][t] > 0
               PROVE  /\ pc[t] # "new"
                      /\ then[t] = "done" => q \in Elements(todo[t]) \/ <<t, q>> \in h.twice
    BY DEF Expected
  <2>1. CASE t = s
    BY <1>3, <1>7, <2>1
  <2>2. CASE t # s
    BY <1>5, <1>6, <2>2 DEF Expected, Current
  <2> QED
    BY <2>1, <2>2
<1>10. LeftEmpty(h) \subseteq LeftEmpty(Current)
  <2> SUFFICES ASSUME NEW q \in LeftEmpty(h)
               PROVE  q \in LeftEmpty(Current)
    OBVIOUS
  <2>1. q \in Live /\ q \in Rooms /\ q \in h.visited /\ ~disposing[q] /\ Present(h.members, q) = {}
    BY DEF LeftEmpty, Live
  <2>2. q # r
    BY <1>8, <2>1 DEF Present
  <2>3. Present(members, q) = {}
    BY <1>5, <2>1, <2>2 DEF Present
  <2> QED
    BY <1>5, <2>1, <2>2, <2>3 DEF LeftEmpty, Current
<1>11. CASE Disposed({}, h) /\ wait' = h.wait /\ UNCHANGED <<pc, lock>>
  <2>1. /\ HandlerInv(Current)' /\ NewHasNoEntry' /\ ClosingReachesRooms'
        /\ LeftEmpty(Current)' \subseteq LeftEmpty(h)
    BY <1>1, <1>2, <1>3, <1>9, <1>11, DisposedMembers
  <2>2. \A q \in LeftEmpty(Current)' : \E w \in Waits : wait'[w].room = q /\ wait'[w].thread # NoThread
    BY <1>3, <1>6, <1>10, <1>11, <2>1 DEF Awaited, SameThreads
  <2> QED
    BY <2>1, <2>2 DEF RoomsInv, EmptyRoomIsAwaited, LeftEmpty, Current
<1>12. CASE Removed(s, r, s, h)
  <2>1. Expected(Erased(h, r, s), todo')
    <3>1. \A q \in Rooms, t \in Sessions : Erased(h, r, s).members[q][t] > 0 => h.members[q][t] > 0
      BY <1>3 DEF Erased, EraseEntry, HandlerStates
    <3>2. Erased(h, r, s).twice = h.twice
      BY <1>3 DEF Erased, HandlerStates
    <3> QED
      BY <1>2, <1>9, <3>1, <3>2 DEF Expected
  <2> QED
    BY <1>1, <1>2, <1>3, <1>6, <1>8, <1>10, <1>12, <2>1, RemovedMembers DEF RoomsInv
<1> QED
  BY <1>3, <1>11, <1>12

(* Kicks ...                                                               *)
LEMMA KickMembers ==
  ASSUME MembersInv, NEW s \in Sessions, NEW r \in Rooms, NEW c \in Sessions, MessageKicks(s, r, c)
  PROVE  RoomsInv'
<1>1. RegistryInv /\ RoomsInv /\ HandlerInv(Current) /\ Current \in HandlerStates
      /\ SameThreads(Current.wait) /\ Current.members = members
  BY CurrentType DEF MembersInv, RoomsInv, RegistryInv, SameThreads, Current
<1>2. UNCHANGED <<connections, todo, then>> /\ members[r][c] > 0 /\ Removed(s, r, c, Current)
  BY <1>1, MessageKicksEffect DEF MessageKicks
<1>3. Expected(Current, todo) /\ \A q \in LeftEmpty(Current) : Awaited(q)
  BY <1>1, CurrentExpected DEF RoomsInv
<1>4. Expected(Erased(Current, r, c), todo')
  <2>1. \A q \in Rooms, t \in Sessions : Erased(Current, r, c).members[q][t] > 0 => members[q][t] > 0
    BY <1>1 DEF Erased, EraseEntry, HandlerStates, Current
  <2>2. Erased(Current, r, c).twice = Current.twice
    BY DEF Erased, Current
  <2> QED
    BY <1>1, <1>2, <1>3, <2>1, <2>2 DEF Expected
<1> QED
  BY <1>1, <1>2, <1>3, <1>4, RemovedMembers DEF RoomsInv

(* ... disposed rooms ...                                                  *)
LEMMA ClosingMembers ==
  ASSUME MembersInv,
         (\E r \in Rooms : MessageDisposes(r)) \/ WorkerRunsAuto \/ Shutdown
  PROVE  RoomsInv'
<1>1. RegistryInv /\ RoomsInv /\ HandlerInv(Current) /\ Current \in HandlerStates
  BY CurrentType DEF MembersInv, RoomsInv, RegistryInv
<1>2. Expected(Current, todo) /\ \A q \in LeftEmpty(Current) : Awaited(q)
  BY <1>1, CurrentExpected DEF RoomsInv
<1>3. PICK now \in SUBSET Rooms :
        Disposed(now, Current) /\ UNCHANGED <<connections, pc, todo, then, wait>>
  BY <1>1, ClosingEffect DEF threadVars
<1>4. /\ HandlerInv(Current)' /\ NewHasNoEntry' /\ ClosingReachesRooms'
      /\ LeftEmpty(Current)' \subseteq LeftEmpty(Current)
  BY <1>1, <1>2, <1>3, DisposedMembers
<1>5. \A q \in LeftEmpty(Current)' : \E w \in Waits : wait'[w].room = q /\ wait'[w].thread # NoThread
  BY <1>2, <1>3, <1>4 DEF Awaited
<1> QED
  BY <1>4, <1>5 DEF RoomsInv, EmptyRoomIsAwaited, LeftEmpty, Current

(* ... PLAYER_LEFT handlers: the listener that is called is not expected   *)
(* to find an entry any more, unless the session had joined twice ...      *)
LEMMA PublishMembers ==
  ASSUME MembersInv, NEW s \in Sessions, PublishNext(s)
  PROVE  RoomsInv'
<1>1. /\ RegistryInv /\ ThreadsInv /\ RoomsInv /\ HandlerInv(Current) /\ Current \in HandlerStates
      /\ SameThreads(Current.wait) /\ Current.members = members /\ Current.twice = twice
  BY CurrentType DEF MembersInv, RoomsInv, RegistryInv, SameThreads, Current
<1>2. PICK r \in Rooms :
         /\ r \in Elements(todo[s])
         /\ Elements(todo[s]) = Elements(todo'[s]) \cup {r}
         /\ \A t \in Sessions \ {s} : todo'[t] = todo[t]
         /\ UNCHANGED <<connections, then>>
         /\ \/ /\ members[r][s] = 0
               /\ UNCHANGED <<roomVars, serverVars, pc, lock, wait, historyVars>>
            \/ members[r][s] > 0 /\ Removed(s, r, s, Current)
  BY <1>1, PublishNextEffect
<1>3. Expected(Current, todo) /\ \A q \in LeftEmpty(Current) : Awaited(q)
  BY <1>1, CurrentExpected DEF RoomsInv
<1>4. members \in [Rooms -> [Sessions -> Nat]]
  BY <1>1 DEF RegistryInv, TypeOK, RoomTypeOK
<1>5. CASE members[r][s] = 0 /\ UNCHANGED <<roomVars, serverVars, pc, lock, wait, historyVars>>
  <2>1. Expected(Current, todo')
    <3> SUFFICES ASSUME NEW t \in Sessions, NEW q \in Rooms, members[q][t] > 0
                 PROVE  /\ pc[t] # "new"
                        /\ then[t] = "done" => q \in Elements(todo'[t]) \/ <<t, q>> \in twice
      BY <1>1 DEF Expected
    <3>1. t = s => q # r
      BY <1>5
    <3> QED
      BY <1>1, <1>2, <1>3, <3>1 DEF Expected
  <2>2. SameThreads(wait')
    BY <1>5 DEF SameThreads
  <2> QED
    BY <1>1, <1>2, <1>5, <2>1, <2>2, SameRooms DEF roomVars, serverVars
<1>6. CASE members[r][s] > 0 /\ Removed(s, r, s, Current)
  <2>1. Expected(Erased(Current, r, s), todo')
    <3> DEFINE g == Erased(Current, r, s)
    <3>1. /\ \A q \in Rooms, t \in Sessions :
               g.members[q][t] = IF q = r /\ t = s THEN members[q][t] - 1 ELSE members[q][t]
          /\ g.twice = twice
      BY <1>4 DEF Erased, EraseEntry, Current
    <3> HIDE DEF g
    <3> SUFFICES ASSUME NEW t \in Sessions, NEW q \in Rooms, g.members[q][t] > 0
                 PROVE  /\ pc[t] # "new"
                        /\ then[t] = "done" => q \in Elements(todo'[t]) \/ <<t, q>> \in twice
      BY <3>1 DEF Expected, g
    <3>2. members[q][t] \in Nat
      BY <1>4
    <3>3. members[q][t] > 0 /\ (q = r /\ t = s => members[q][t] > 1)
      BY <3>1, <3>2
    <3>4. /\ pc[t] # "new"
          /\ then[t] = "done" => q \in Elements(todo[t]) \/ <<t, q>> \in twice
      BY <1>1, <1>3, <3>3 DEF Expected
    <3>5. q = r /\ t = s => <<t, q>> \in twice
      BY <1>1, <3>3 DEF HandlerInv, Entered
    <3> QED
      BY <1>2, <3>4, <3>5
  <2> QED
    BY <1>1, <1>2, <1>3, <1>6, <2>1, RemovedMembers DEF RoomsInv
<1> QED
  BY <1>2, <1>5, <1>6

(* ... and threads that go on: the room that they leave empty goes.        *)
LEMMA ResumeMembers ==
  ASSUME MembersInv, NEW s \in Sessions, Resume(s)
  PROVE  RoomsInv'
<1>1. RegistryInv /\ ThreadsInv /\ RoomsInv /\ HandlerInv(Current) /\ Current \in HandlerStates
      /\ Current.members = members
  BY CurrentType DEF MembersInv, RoomsInv, RegistryInv, Current
<1>2. PICK w \in Waits : \E now \in SUBSET {wait[w].room} :
         /\ wait[w].thread = s
         /\ pc' = [pc EXCEPT ![s] = "publish"]
         /\ UNCHANGED <<connections, todo, then>>
         /\ wait' = Forget([wait EXCEPT ![w].thread = NoThread])
         /\ Disposed(now, Current)
         /\ wait[w].room \in Live /\ ~disposing[wait[w].room]
            /\ Present(members, wait[w].room) = {} => wait[w].room \in now
  BY <1>1, ResumeEffect
<1>3. PICK now \in SUBSET {wait[w].room} :
         /\ Disposed(now, Current)
         /\ wait[w].room \in Live /\ ~disposing[wait[w].room]
            /\ Present(members, wait[w].room) = {} => wait[w].room \in now
  BY <1>2
<1>4. Expected(Current, todo) /\ \A q \in LeftEmpty(Current) : Awaited(q)
  BY <1>1, CurrentExpected DEF RoomsInv
<1>5. \A t \in Sessions : pc'[t] = "new" => pc[t] = "new"
  BY <1>1, <1>2 DEF RegistryInv, TypeOK, ThreadTypeOK
<1>6. /\ HandlerInv(Current)' /\ NewHasNoEntry' /\ ClosingReachesRooms'
      /\ LeftEmpty(Current)' \subseteq LeftEmpty(Current) \ now
  BY <1>1, <1>2, <1>3, <1>4, <1>5, DisposedMembers
<1>7. wait[w].room \notin LeftEmpty(Current)'
  BY <1>1, <1>3, <1>6 DEF LeftEmpty
<1>8. \A v \in Waits \ {w} : wait[v].thread # NoThread => wait'[v] = wait[v]
  BY <1>1, <1>2 DEF Forget, RegistryInv, TypeOK, ThreadTypeOK
<1>9. \A q \in LeftEmpty(Current)' : \E v \in Waits : wait'[v].room = q /\ wait'[v].thread # NoThread
  BY <1>4, <1>6, <1>7, <1>8 DEF Awaited
<1> QED
  BY <1>6, <1>9 DEF RoomsInv, EmptyRoomIsAwaited, LeftEmpty, Current

(* The invariant is inductive.                                             *)
LEMMA MembersInvariance ==
  ASSUME MembersInv, [Next]_vars
  PROVE  MembersInv'
<1>1. RegistryInv /\ ThreadsInv /\ RoomsInv /\ TypeOK
  BY DEF MembersInv, RegistryInv
<1>2. RegistryInv' /\ ThreadsInv'
  BY <1>1, RegistryInvariance, ThreadsInvariance
<1> SUFFICES RoomsInv'
  BY <1>2 DEF MembersInv
<1>3. Expected(Current, todo) /\ SameThreads(wait)
  BY <1>1, CurrentExpected DEF RoomsInv, SameThreads
<1>4. ASSUME UNCHANGED <<obj, rid, disposing, members, managed, connections, historyVars>>,
             UNCHANGED threadVars, SameThreads(wait')
      PROVE  RoomsInv'
  BY <1>1, <1>3, <1>4, SameRooms DEF threadVars
<1>5. ASSUME NEW s \in Sessions, PublishEnd(s)
      PROVE  RoomsInv'
  <2>1. /\ pc' = [pc EXCEPT ![s] = then[s]]
        /\ UNCHANGED <<roomVars, serverVars, connections, todo, then, wait, historyVars>>
    BY <1>5 DEF PublishEnd
  <2>2. \A t \in Sessions : pc'[t] = "new" => pc[t] = "new"
    BY <1>1, <2>1 DEF TypeOK, ThreadTypeOK
  <2> QED
    BY <1>1, <1>3, <2>1, <2>2, SameRooms DEF roomVars, serverVars
<1>6. CASE \E s \in Sessions : ClientStep(s) \/ ServerStep(s)
  BY <1>1, <1>5, <1>6, ConnectMembers, JoinMembers, KickMembers, DisconnectMembers, PublishMembers,
     ResumeMembers DEF ClientStep, ServerStep
<1>10. ASSUME (\E id \in RoomIds : SnapshotExpires(id)) \/ \E r \in Rooms : MessageReachesFreed(r)
       PROVE  RoomsInv'
  BY <1>3, <1>4, <1>10 DEF SnapshotExpires, MessageReachesFreed, roomVars, serverVars
<1>7. CASE ApplicationStep
  BY <1>1, <1>7, <1>10, CreateMembers, ClosingMembers DEF ApplicationStep
<1>8. CASE WorkerStep
  BY <1>1, <1>4, <1>8, ClosingMembers, WorkerThreads DEF WorkerStep, serverVars
<1>9. CASE UNCHANGED vars
  BY <1>3, <1>4, <1>9 DEF vars, roomVars, serverVars
<1> QED
  BY <1>6, <1>7, <1>8, <1>9 DEF Next

LEMMA MembersInvInvariant == Spec => []MembersInv
<1>1. Init => ThreadsInv /\ RoomsInv
  BY SessionsAssumption
     DEF Init, ThreadsInv, RoomsInv, HandlerInv, Entered, Told, Current, NewHasNoEntry,
         ClosingReachesRooms, EmptyRoomIsAwaited, Live, NoWait
<1>2. RegistryInv /\ ThreadsInv /\ RoomsInv /\ [Next]_vars => (ThreadsInv /\ RoomsInv)'
  BY MembersInvariance DEF MembersInv
<1>3. RegistryInv /\ ThreadsInv /\ RoomsInv => MembersInv
  BY DEF MembersInv
<1> QED
  BY <1>1, <1>2, <1>3, RegistryInvInvariant, PTL DEF Spec

(* A session whose thread has ended is in no room: PLAYER_LEFT has reached *)
(* every room (handle_client_disconnect, MemoryPubSub::publish), a session *)
(* that joined a room twice aside (remove_client erases one entry).        *)
THEOREM NoGhosts == Spec => []NoGhostMember
<1>1. MembersInv => NoGhostMember
  BY DEF MembersInv, ThreadsInv, RoomsInv, ClosingReachesRooms, NoGhostMember, Elements
<1> QED
  BY <1>1, MembersInvInvariant, PTL

(* A room that its last client has left stands only while an on_leave hook *)
(* waits in it (remove_client, allow_reconnection).                        *)
THEOREM EmptyRoomsAwaited == Spec => []EmptyRoomIsAwaited
<1>1. MembersInv => EmptyRoomIsAwaited
  BY DEF MembersInv, RoomsInv
<1> QED
  BY <1>1, MembersInvInvariant, PTL

(* What a connected client was told is what the rooms hold, a session that *)
(* joined twice aside, and one that was in a room when it was replaced.    *)
THEOREM ClientViewRight == Spec => []ClientViewIsRight
<1>1. ASSUME MembersInv
      PROVE  ClientViewIsRight
  <2> SUFFICES ASSUME NEW s \in connections, NEW r \in Live, <<s, r>> \notin twice
               PROVE  /\ members[r][s] > 0 => rid[r] \in told[s]
                      /\ rid[r] \in told[s] => members[r][s] > 0 \/ <<s, rid[r]>> \in stranded
    BY DEF ClientViewIsRight
  <2>1. s \in Sessions /\ managed[rid[r]] = r /\ Told(Current)
    BY <1>1, LiveIds DEF MembersInv, RegistryInv, TypeOK, ThreadTypeOK, RoomsInv, HandlerInv
  <2> QED
    BY <2>1 DEF Told, Explained, Current
<1> QED
  BY <1>1, MembersInvInvariant, PTL

-------------------------------------------------------------------------------
(***************************************************************************)
(* Freed rooms.                                                            *)
(***************************************************************************)

(* The waits W hold no pointer that the waits of the state do not hold,    *)
(* and a callback that the worker has popped is not forgotten.             *)
NoNewWait(W) ==
  \A w \in Waits : /\ Pending(W[w]) => Pending(wait[w]) /\ W[w].room = wait[w].room
                   /\ wait[w].timer = "popped" => W[w].timer = "popped"

LEMMA ResolveWaits ==
  ASSUME TypeOK, NEW H
  PROVE  NoNewWait(Resolve(H))
BY DEF NoNewWait, Pending, Resolve, TypeOK, ThreadTypeOK, WaitRecords

LEMMA ForgetWaits ==
  ASSUME TypeOK, NEW W \in [Waits -> WaitRecords], NoNewWait(W)
  PROVE  NoNewWait(Forget(W))
BY DEF NoNewWait, Pending, Forget, NoWait

(* What a step may do to the pointers that waits hold ...                  *)
WaitsStep ==
  \A w \in Waits :
    /\ Pending(wait'[w]) =>
         wait'[w].room \in Live \/ (Pending(wait[w]) /\ wait'[w].room = wait[w].room)
    /\ wait[w].timer = "popped" /\ worker' = worker => wait'[w].timer = "popped"

(* ... to the others, and to the objects.                                  *)
PointersStep ==
  \A r \in Rooms :
    /\ worker' = [kind |-> "auto", room |-> r] => worker' = worker \/ obj[r] # "none"
    /\ \A s \in Sessions : r \in Elements(todo'[s]) => r \in Elements(todo[s]) \/ obj[r] # "none"

ObjectsStep ==
  /\ \A r \in Rooms : \/ obj'[r] = obj[r]
                      \/ obj[r] = "none" /\ obj'[r] = "live"
                      \/ obj[r] = "live" /\ (Referenced(r)' => obj'[r] # "none")
  /\ \A r \in autoTimers' : obj'[r] # "none"

LEMMA RemovedWaits ==
  ASSUME NEW s \in Sessions, NEW r \in Live, NEW c \in Sessions, NEW h \in HandlerStates,
         NoNewWait(h.wait), Removed(s, r, c, h)
  PROVE  WaitsStep
<1>1. CASE wait' = h.wait
  BY <1>1 DEF NoNewWait, WaitsStep
<1>2. CASE Suspended(s, r, c, h.wait)
  <2>1. PICK v \in Waits :
          /\ h.wait[v] = NoWait
          /\ wait' = [h.wait EXCEPT ![v] = [thread |-> s, room |-> r, id |-> IdOf[c],
                                            result |-> "none", timer |-> "armed"]]
    BY <1>2 DEF Suspended
  <2>2. wait'[v].room = r /\ wait[v].timer # "popped"
    BY <2>1 DEF HandlerStates, NoNewWait, NoWait
  <2>3. \A w \in Waits \ {v} : wait'[w] = h.wait[w]
    BY <2>1 DEF HandlerStates
  <2> QED
    BY <2>2, <2>3 DEF NoNewWait, WaitsStep
<1> QED
  BY <1>1, <1>2 DEF Removed

LEMMA DisposedObjects ==
  ASSUME RegistryInv, ExposureInv, NEW now, NEW h, Disposed(now, h)
  PROVE  ObjectsStep
<1>1. /\ now \subseteq Live /\ Live' = Live \ now /\ autoTimers' = autoTimers \ now
      /\ \A r \in Rooms :
           obj'[r] = IF r \in now THEN IF Referenced(r)' THEN "dangling" ELSE "none" ELSE obj[r]
  BY DEF Disposed
<1>2. ASSUME NEW r \in Rooms
      PROVE  \/ obj'[r] = obj[r]
             \/ obj[r] = "live" /\ (Referenced(r)' => obj'[r] # "none")
  BY <1>1 DEF Live
<1>3. \A r \in autoTimers' : obj'[r] # "none"
  BY <1>1 DEF ExposureInv, RegistryInv, TypeOK, RoomTypeOK
<1> QED
  BY <1>2, <1>3 DEF ObjectsStep

LEMMA RemovedObjects ==
  ASSUME RegistryInv, ExposureInv, NEW s, NEW r, NEW c, NEW h, Removed(s, r, c, h)
  PROVE  ObjectsStep
<1>1. \E now : Disposed(now, Erased(h, r, c))
  BY DEF Removed
<1> QED
  BY <1>1, DisposedObjects

(* Every step does what these say.                                         *)
LEMMA PointerSteps ==
  ASSUME MembersInv, ExposureInv, [Next]_vars
  PROVE  WaitsStep /\ PointersStep /\ ObjectsStep
<1>1. /\ RegistryInv /\ ThreadsInv /\ RoomsInv /\ TypeOK /\ wait \in [Waits -> WaitRecords]
      /\ Current \in HandlerStates /\ Current.wait = wait
  BY CurrentType DEF MembersInv, RegistryInv, TypeOK, ThreadTypeOK, Current
<1>2. NoNewWait(wait)
  BY DEF NoNewWait
<1>3. ASSUME wait' = wait
      PROVE  WaitsStep
  BY <1>3 DEF WaitsStep
<1>4. ASSUME worker' \in {worker, Idle} \cup {Popped(w) : w \in Waits},
             \A s \in Sessions : Elements(todo'[s]) \subseteq Elements(todo[s])
      PROVE  PointersStep
  BY <1>4 DEF PointersStep, Idle, Popped
<1>5. ASSUME UNCHANGED <<obj, autoTimers>>
      PROVE  ObjectsStep
  BY <1>5 DEF ObjectsStep, ExposureInv
<1>6. ASSUME NEW s \in Sessions, NEW r \in Rooms, JoinRoom(s, r)
      PROVE  WaitsStep /\ PointersStep /\ ObjectsStep
  <2> DEFINE h == Joined(s, r)
  <2>1. NoNewWait(h.wait)
    BY <1>1, ResolveWaits DEF Joined
  <2> HIDE DEF h
  <2>2. UNCHANGED <<worker, todo>>
    BY <1>6 DEF JoinRoom
  <2>3. /\ r \in Live /\ h \in HandlerStates
        /\ \/ Disposed({}, h) /\ wait' = h.wait
           \/ Removed(s, r, s, h)
    BY <1>1, <1>6, JoinEffect DEF h
  <2>4. WaitsStep
    BY <2>1, <2>3, RemovedWaits DEF NoNewWait, WaitsStep
  <2>5. ObjectsStep
    BY <1>1, <2>3, DisposedObjects, RemovedObjects
  <2> QED
    BY <1>4, <2>2, <2>4, <2>5
<1>7. ASSUME NEW s \in Sessions, NEW r \in Rooms, NEW c \in Sessions, MessageKicks(s, r, c)
      PROVE  WaitsStep /\ PointersStep /\ ObjectsStep
  <2>1. UNCHANGED <<worker, todo>> /\ r \in Live
    BY <1>7 DEF MessageKicks, Hears, Live
  <2>2. Removed(s, r, c, Current)
    BY <1>1, <1>7, MessageKicksEffect
  <2> QED
    BY <1>1, <1>2, <1>4, <2>1, <2>2, RemovedWaits, RemovedObjects
<1>8. CASE (\E r \in Rooms : MessageDisposes(r)) \/ WorkerRunsAuto \/ Shutdown
  <2>1. PICK now \in SUBSET Rooms : Disposed(now, Current)
    BY <1>1, <1>8, ClosingEffect
  <2>2. UNCHANGED <<todo, wait>> /\ worker' \in {worker, Idle}
    BY <1>1, <1>8, ClosingEffect DEF threadVars
  <2> QED
    BY <1>1, <1>3, <1>4, <2>1, <2>2, DisposedObjects
<1>9. ASSUME NEW s \in Sessions, Disconnect(s) \/ CloseConnection(s)
      PROVE  WaitsStep /\ PointersStep /\ ObjectsStep
  <2>1. /\ \A r \in Elements(todo'[s]) : obj[r] # "none"
        /\ \A t \in Sessions \ {s} : todo'[t] = todo[t]
        /\ UNCHANGED <<obj, autoTimers, wait, worker>>
    BY <1>1, <1>9, DisconnectEffect DEF roomVars
  <2>2. PointersStep
    BY <2>1 DEF PointersStep
  <2> QED
    BY <1>3, <1>5, <2>1, <2>2
<1>10. ASSUME NEW s \in Sessions, PublishNext(s)
       PROVE  WaitsStep /\ PointersStep /\ ObjectsStep
  <2>1. PICK r \in Rooms :
           /\ Elements(todo[s]) = Elements(todo'[s]) \cup {r}
           /\ \A t \in Sessions \ {s} : todo'[t] = todo[t]
           /\ worker' = worker
           /\ \/ UNCHANGED <<obj, autoTimers, wait>>
              \/ members[r][s] > 0 /\ Removed(s, r, s, Current)
    BY <1>1, <1>10, PublishNextEffect DEF roomVars
  <2>2. PointersStep
    BY <1>4, <2>1
  <2>3. CASE members[r][s] > 0 /\ Removed(s, r, s, Current)
    <3>1. r \in Live
      BY <1>1, <2>3 DEF RoomsInv, HandlerInv, Entered, Current, Live
    <3> QED
      BY <1>1, <1>2, <2>2, <2>3, <3>1, RemovedWaits, RemovedObjects
  <2> QED
    BY <1>3, <1>5, <2>1, <2>2, <2>3
<1>11. ASSUME NEW s \in Sessions, Resume(s)
       PROVE  WaitsStep /\ PointersStep /\ ObjectsStep
  <2>1. PICK w \in Waits :
          /\ UNCHANGED <<todo, worker>>
          /\ wait' = Forget([wait EXCEPT ![w].thread = NoThread])
          /\ \E now : Disposed(now, Current)
    BY <1>1, <1>11, ResumeEffect
  <2> DEFINE W == [wait EXCEPT ![w].thread = NoThread]
  <2>2. W \in [Waits -> WaitRecords] /\ NoNewWait(W)
    BY <1>1 DEF WaitRecords, NoNewWait, Pending
  <2> HIDE DEF W
  <2>3. NoNewWait(Forget(W)) /\ wait' = Forget(W)
    BY <1>1, <2>1, <2>2, ForgetWaits DEF W
  <2>4. WaitsStep
    BY <2>3 DEF NoNewWait, WaitsStep
  <2> QED
    BY <1>1, <1>4, <2>1, <2>4, DisposedObjects
<1>12. ASSUME NEW r \in Rooms, NEW id \in RoomIds,
              CreateNewRoom(r, id) \/ CreateNewRoomDisposed(r, id)
       PROVE  WaitsStep /\ PointersStep /\ ObjectsStep
  <2> DEFINE old == managed[id]
  <2>1. /\ obj[r] = "none" /\ autoTimers' = autoTimers \cup {r}
        /\ obj' = [q \in Rooms |-> IF q = r THEN "live" ELSE IF q = old THEN "replaced" ELSE obj[q]]
        /\ UNCHANGED <<todo, wait, worker>>
    BY <1>12 DEF CreateNewRoom, CreateNewRoomDisposed, Constructs, Register, ArmAutoDispose, threadVars
  <2>2. old \in Rooms => obj[old] = "live"
    BY <1>1, LiveIds, RoomsAssumption DEF Live
  <2>3. autoTimers \subseteq Rooms /\ \A q \in autoTimers : obj[q] # "none"
    BY <1>1 DEF ExposureInv, TypeOK, RoomTypeOK
  <2> HIDE DEF old
  <2>4. ObjectsStep
    BY <2>1, <2>2, <2>3 DEF ObjectsStep
  <2> QED
    BY <1>3, <1>4, <2>1, <2>4
<1>13. ASSUME NEW r \in Rooms, WorkerTakesAuto(r)
       PROVE  WaitsStep /\ PointersStep /\ ObjectsStep
  <2>1. /\ obj[r] # "none" /\ worker' = [kind |-> "auto", room |-> r] /\ autoTimers' = autoTimers \ {r}
        /\ UNCHANGED <<obj, todo, wait>>
    BY <1>13 DEF WorkerTakesAuto, ExposureInv, threadVars
  <2>2. PointersStep
    BY <2>1 DEF PointersStep
  <2>3. ObjectsStep
    BY <2>1 DEF ObjectsStep, ExposureInv
  <2> QED
    BY <1>3, <2>1, <2>2, <2>3
<1>14. ASSUME NEW w \in Waits, WorkerTakesWait(w)
       PROVE  WaitsStep /\ PointersStep /\ ObjectsStep
  <2>1. /\ wait[w].timer = "armed" /\ worker' = Popped(w) /\ wait' = [wait EXCEPT ![w].timer = "popped"]
        /\ UNCHANGED <<obj, autoTimers, todo>>
    BY <1>14 DEF WorkerTakesWait, Popped, roomVars, threadVars
  <2>2. WaitsStep
    BY <1>1, <2>1 DEF WaitsStep, Pending, WaitRecords
  <2> QED
    BY <1>4, <1>5, <2>1, <2>2
<1>15. CASE WorkerRunsWait
  <2>1. PICK W \in [Waits -> WaitRecords], w \in Waits :
           /\ worker = Popped(w) /\ worker' = Idle
           /\ wait' = Forget(W)
           /\ \A v \in Waits : /\ W[v].thread = wait[v].thread
                               /\ W[v].room = wait[v].room
                               /\ W[v].timer = IF v = w THEN "done" ELSE wait[v].timer
    BY <1>1, <1>15, TimeoutEffect
  <2>2. UNCHANGED <<obj, autoTimers, todo>>
    BY <1>15 DEF WorkerRunsWait, threadVars
  <2>3. WaitsStep
    BY <2>1 DEF WaitsStep, Pending, Forget, NoWait, Popped, Idle
  <2> QED
    BY <1>4, <1>5, <2>1, <2>2, <2>3
<1>16. ASSUME UNCHANGED <<obj, autoTimers, wait, todo, worker>>
       PROVE  WaitsStep /\ PointersStep /\ ObjectsStep
  BY <1>3, <1>4, <1>5, <1>16
<1>17. CASE \E s \in Sessions : ClientStep(s) \/ ServerStep(s)
  BY <1>6, <1>7, <1>9, <1>10, <1>11, <1>16, <1>17
     DEF ClientStep, ServerStep, Connect, PublishEnd, roomVars
<1>18. CASE ApplicationStep
  BY <1>8, <1>12, <1>16, <1>18
     DEF ApplicationStep, SnapshotExpires, MessageReachesFreed, roomVars, threadVars
<1>19. CASE WorkerStep
  BY <1>8, <1>13, <1>14, <1>15, <1>19 DEF WorkerStep
<1>20. CASE UNCHANGED vars
  BY <1>16, <1>20 DEF vars, roomVars, threadVars
<1> QED
  BY <1>17, <1>18, <1>19, <1>20 DEF Next

(* What is used is an object still, or one freed with a pointer to it left *)
(* or with its subscriptions.                                              *)
LEMMA UseSteps ==
  ASSUME MembersInv, ExposureInv, Next
  PROVE  \A q \in uaf' : obj[q] \in {"dangling", "replaced"}
<1> DEFINE Goal == \A q \in uaf' : obj[q] \in {"dangling", "replaced"}
<1>1. RegistryInv /\ ThreadsInv /\ TypeOK /\ wait \in [Waits -> WaitRecords] /\ uaf = {}
  BY DEF MembersInv, RegistryInv, TypeOK, ThreadTypeOK, Next
<1>2. \A r \in Rooms : obj[r] \in {"none", "live", "dangling", "replaced"}
  BY <1>1 DEF TypeOK, RoomTypeOK
<1>3. ASSUME NEW r \in Rooms, Use(r), Referenced(r) \/ obj[r] # "none"
      PROVE  Goal
  BY <1>2, <1>3 DEF Use, ExposureInv
<1>4. ASSUME uaf' = uaf
      PROVE  Goal
  BY <1>1, <1>4
<1>5. ASSUME NEW r \in Rooms, MessageReachesFreed(r)
      PROVE  Goal
  BY <1>1, <1>3, <1>5 DEF MessageReachesFreed, RegistryInv, SubscribersAreLive, Live
<1>6. ASSUME NEW s \in Sessions, PublishNext(s)
      PROVE  Goal
  <2> DEFINE r == Head(todo[s])
  <2>1. todo[s] \in Seq(Rooms) /\ todo[s] # <<>> /\ Use(r)
    BY <1>1, <1>6 DEF PublishNext, TypeOK, ThreadTypeOK
  <2>2. r \in Rooms /\ r = todo[s][1] /\ 1 \in 1 .. Len(todo[s])
    BY <2>1
  <2>3. Referenced(r)
    BY <2>2 DEF Referenced, Elements
  <2> QED
    BY <1>3, <2>1, <2>2, <2>3
<1>7. ASSUME NEW s \in Sessions, Resume(s)
      PROVE  Goal
  <2>1. PICK w \in Waits : wait[w].thread = s /\ Use(wait[w].room)
    BY <1>7 DEF Resume
  <2>2. wait[w].room \in Rooms /\ Referenced(wait[w].room)
    BY <1>1, <2>1, SessionsAssumption DEF RegistryInv, SuspendedInRoom, Referenced
  <2> QED
    BY <1>3, <2>1, <2>2
<1>8. ASSUME WorkerRunsAuto
      PROVE  Goal
  <2>1. PICK r \in Rooms : worker = [kind |-> "auto", room |-> r]
    BY <1>1, <1>8 DEF WorkerRunsAuto, TypeOK, ThreadTypeOK, Workers
  <2>2. Use(r) /\ Referenced(r)
    BY <1>8, <2>1 DEF WorkerRunsAuto, Referenced
  <2> QED
    BY <1>3, <2>2
<1>9. ASSUME WorkerRunsWait
      PROVE  Goal
  <2>1. PICK w \in Waits : worker = Popped(w)
    BY <1>1, <1>9, TimeoutEffect
  <2>2. wait[w].timer = "popped" /\ wait[w].room \in Rooms
    BY <2>1 DEF ExposureInv, Pending
  <2>3. Use(wait[w].room) /\ Referenced(wait[w].room)
    BY <1>9, <2>1, <2>2 DEF WorkerRunsWait, Popped, Referenced
  <2> QED
    BY <1>3, <2>2, <2>3
<1>10. CASE \E s \in Sessions : ClientStep(s) \/ ServerStep(s)
  <2>1. PICK s \in Sessions : ClientStep(s) \/ ServerStep(s)
    BY <1>10
  <2>2. CASE ClientStep(s)
    <3>1. uaf' = uaf
      BY <2>2 DEF ClientStep, Connect, JoinRoom, MessageKicks, Disconnect, CloseConnection,
                  HandleClientDisconnect
    <3> QED
      BY <1>4, <3>1
  <2>3. CASE ServerStep(s)
    BY <1>4, <1>6, <1>7, <2>3 DEF ServerStep, PublishEnd
  <2> QED
    BY <2>1, <2>2, <2>3
<1>11. CASE ApplicationStep
  <2>1. uaf' = uaf \/ \E r \in Rooms : MessageReachesFreed(r)
    BY <1>11 DEF ApplicationStep, CreateNewRoom, CreateNewRoomDisposed, Constructs,
                 SnapshotExpires, MessageDisposes, Shutdown
  <2> QED
    BY <1>4, <1>5, <2>1
<1>12. CASE WorkerStep
  <2>1. uaf' = uaf \/ WorkerRunsAuto \/ WorkerRunsWait
    BY <1>12 DEF WorkerStep, WorkerTakesAuto, WorkerTakesWait
  <2> QED
    BY <1>4, <1>8, <1>9, <2>1
<1> QED
  BY <1>10, <1>11, <1>12 DEF Next

LEMMA ExposureInvariance ==
  ASSUME MembersInv, MembersInv', ExposureInv, [Next]_vars
  PROVE  ExposureInv'
<1>1. WaitsStep /\ PointersStep /\ ObjectsStep
  BY PointerSteps
<1>2. \A r \in autoTimers' : obj'[r] # "none"
  BY <1>1 DEF ObjectsStep
<1>3. \A w \in Waits : Pending(wait'[w]) => wait'[w].room \in Rooms
  BY <1>1 DEF WaitsStep, ExposureInv, Live
<1>4. \A w \in Waits : worker' = Popped(w) => wait'[w].timer = "popped"
  <2> SUFFICES ASSUME NEW w \in Waits, worker' = Popped(w)
               PROVE  wait'[w].timer = "popped"
    OBVIOUS
  <2>1. CASE worker' = worker
    BY <1>1, <2>1 DEF WaitsStep, ExposureInv
  <2>2. CASE worker' # worker
    <3>1. wait \in [Waits -> WaitRecords]
      BY DEF MembersInv, RegistryInv, TypeOK, ThreadTypeOK
    <3>2. PICK v \in Waits : WorkerTakesWait(v)
      <4>1. worker' # Idle /\ \A r \in Rooms : worker' # [kind |-> "auto", room |-> r]
        BY DEF Idle, Popped
      <4>2. ~ (WorkerRunsAuto \/ WorkerRunsWait) /\ \A r \in Rooms : ~ WorkerTakesAuto(r)
        BY <4>1 DEF WorkerRunsAuto, WorkerRunsWait, WorkerTakesAuto
      <4>3. ~ (\E s \in Sessions : ClientStep(s) \/ ServerStep(s))
        <5>1. ASSUME NEW s \in Sessions, ServerStep(s)
              PROVE  worker' = worker
          BY <5>1 DEF ServerStep, PublishNext, PublishEnd, Resume
        <5>2. ASSUME NEW s \in Sessions, NEW r \in Rooms, JoinRoom(s, r)
              PROVE  worker' = worker
          BY <5>2 DEF JoinRoom
        <5>3. ASSUME NEW s \in Sessions, NEW r \in Rooms, NEW c \in Sessions, MessageKicks(s, r, c)
              PROVE  worker' = worker
          BY <5>3 DEF MessageKicks
        <5>4. ASSUME NEW s \in Sessions, Connect(s) \/ Disconnect(s) \/ CloseConnection(s)
              PROVE  worker' = worker
          BY <5>4 DEF Connect, Disconnect, CloseConnection, HandleClientDisconnect
        <5> QED
          BY <2>2, <5>1, <5>2, <5>3, <5>4 DEF ClientStep
      <4>4. ~ ApplicationStep /\ ~ UNCHANGED vars
        BY <2>2 DEF ApplicationStep, CreateNewRoom, CreateNewRoomDisposed, Constructs,
                    SnapshotExpires, MessageDisposes, MessageReachesFreed, Shutdown, vars
      <4> QED
        BY <4>2, <4>3, <4>4 DEF Next, WorkerStep
    <3>3. v = w
      BY <3>2 DEF WorkerTakesWait, Popped
    <3> QED
      BY <3>1, <3>2, <3>3 DEF WorkerTakesWait, WaitRecords
  <2> QED
    BY <2>1, <2>2
<1>5. \A r \in Rooms : Referenced(r)' => obj'[r] # "none"
  <2> SUFFICES ASSUME NEW r \in Rooms, Referenced(r)', obj'[r] = "none"
               PROVE  FALSE
    OBVIOUS
  <2>1. obj[r] = "none"
    BY <1>1 DEF ObjectsStep
  <2>2. r \notin Live /\ obj[r] = "none" /\ ~ Referenced(r)
    BY <2>1 DEF ExposureInv, Live
  <2>3. \/ \E w \in Waits : wait'[w].room = r /\ Pending(wait'[w])
        \/ worker' = [kind |-> "auto", room |-> r]
        \/ \E s \in Sessions : r \in Elements(todo'[s])
    BY DEF Referenced, Pending
  <2>4. CASE \E w \in Waits : wait'[w].room = r /\ Pending(wait'[w])
    BY <1>1, <2>2, <2>4 DEF WaitsStep, Referenced, Pending
  <2>5. CASE worker' = [kind |-> "auto", room |-> r] \/ \E s \in Sessions : r \in Elements(todo'[s])
    BY <1>1, <2>2, <2>5 DEF PointersStep, Referenced
  <2> QED
    BY <2>3, <2>4, <2>5
<1>6. UseAfterFreeNeedsExposure'
  <2>1. \A r \in uaf' : obj[r] \in {"dangling", "replaced"}
    <3>1. CASE Next
      BY <3>1, UseSteps
    <3>2. CASE UNCHANGED vars
      BY <3>2 DEF vars, ExposureInv, UseAfterFreeNeedsExposure
    <3> QED
      BY <3>1, <3>2
  <2>2. uaf' \subseteq Rooms
    BY DEF MembersInv, RegistryInv, TypeOK, ThreadTypeOK
  <2> QED
    BY <1>1, <2>1, <2>2 DEF ObjectsStep, UseAfterFreeNeedsExposure
<1> QED
  BY <1>2, <1>3, <1>4, <1>5, <1>6 DEF ExposureInv

LEMMA ExposureInvInvariant == Spec => []ExposureInv
<1>1. Init => ExposureInv
  BY SessionsAssumption
     DEF Init, ExposureInv, UseAfterFreeNeedsExposure, Referenced, Pending, NoWait, Elements, Idle,
         Popped
<1>2. MembersInv /\ MembersInv' /\ ExposureInv /\ [Next]_vars => ExposureInv'
  BY ExposureInvariance
<1> QED
  BY <1>1, <1>2, MembersInvInvariant, PTL DEF Spec

(* A freed room is used only if it was freed with a pointer to it left: by *)
(* dispose(), a suspended allow_reconnection call or its timer, a popped   *)
(* auto-dispose callback, or a listeners_copy; by a new room that took its *)
(* id, its own subscriptions.                                              *)
THEOREM UseAfterFreeExposed == Spec => []UseAfterFreeNeedsExposure
<1>1. ExposureInv => UseAfterFreeNeedsExposure
  BY DEF ExposureInv
<1> QED
  BY <1>1, ExposureInvInvariant, PTL

-------------------------------------------------------------------------------
(***************************************************************************)
(* RoomServer implements RoomService.                                      *)
(***************************************************************************)

(* The refinement mapping: who is in the room of each id, if clients_ is   *)
(* as m has it; the ids of undying rooms; and who is suspended where, if   *)
(* the waits are W.                                                        *)
OccupantsOf(m) == [i \in RoomIds |-> IF managed[i] = NoRoom THEN {} ELSE Present(m, managed[i])]
LastingIds == {i \in RoomIds : managed[i] # NoRoom /\ disposing[managed[i]]}
SuspendedAt(W) ==
  {<<W[w].thread, rid[W[w].room]>> :
     w \in {v \in Waits : W[v].thread # NoThread /\ W[v].room \in Live}}

(* A step that moves no suspended thread changes it in no state.           *)
LEMMA SameSuspended ==
  ASSUME NEW W, SameThreads(W)
  PROVE  SuspendedAt(W) = SuspendedAt(wait)
<1>1. {v \in Waits : W[v].thread # NoThread /\ W[v].room \in Live}
        = {v \in Waits : wait[v].thread # NoThread /\ wait[v].room \in Live}
  BY DEF SameThreads
<1>2. \A v \in Waits : W[v].thread # NoThread =>
        <<W[v].thread, rid[W[v].room]>> = <<wait[v].thread, rid[wait[v].room]>>
  BY DEF SameThreads
<1> QED
  BY <1>1, <1>2 DEF SuspendedAt

(* Disposing rooms closes their ids, with everyone in them.                *)
LEMMA DisposedView ==
  ASSUME RegistryInv, NEW h \in HandlerStates, NEW now, Disposed(now, h)
  PROVE  /\ stored' = stored \ {rid[r] : r \in now}
         /\ {rid[r] : r \in now} \subseteq stored \ LastingIds
         /\ LastingIds' = LastingIds
         /\ OccupantsOf(members)' =
              [i \in RoomIds |-> IF i \in {rid[r] : r \in now} THEN {} ELSE OccupantsOf(h.members)[i]]
         /\ SuspendedAt(wait)' = {p \in SuspendedAt(wait') : p[2] \notin {rid[r] : r \in now}}
<1> DEFINE I == {rid[r] : r \in now}
<1>1. /\ now \subseteq Live /\ stored' = stored \ I
      /\ \A r \in now : ~disposing[r]
      /\ \A i \in RoomIds : managed'[i] = IF i \in I THEN NoRoom ELSE managed[i]
      /\ \A r \in Rooms, s \in Sessions : members'[r][s] = IF r \in now THEN 0 ELSE h.members[r][s]
      /\ \A r \in Rooms : disposing'[r] = (disposing[r] /\ r \notin now)
      /\ \A r \in Rooms \ now : rid'[r] = rid[r]
      /\ Live' = Live \ now
  BY DEF Disposed
<1>2. \A r \in Live : r \in Rooms /\ (rid[r] \in I => r \in now)
  <2> SUFFICES ASSUME NEW r \in Live, NEW q \in now, rid[r] = rid[q]
               PROVE  r \in now
    BY LiveIds
  <2> QED
    BY <1>1, LiveIds
<1>3. I \subseteq stored \ LastingIds
  BY <1>1, LiveIds DEF LastingIds
<1>4. \A i \in RoomIds : managed[i] # NoRoom => managed[i] \in Live /\ rid[managed[i]] = i
  BY LiveIds
<1>5. ASSUME NEW i \in RoomIds
      PROVE  OccupantsOf(members)'[i] = IF i \in I THEN {} ELSE OccupantsOf(h.members)[i]
  <2>1. OccupantsOf(members)'[i] = IF managed'[i] = NoRoom THEN {} ELSE Present(members', managed'[i])
    BY DEF OccupantsOf, Present
  <2>2. CASE i \in I
    BY <1>1, <2>1, <2>2
  <2>3. CASE i \notin I
    <3>1. managed[i] # NoRoom => managed[i] \in Rooms /\ managed[i] \notin now
      BY <1>2, <1>4, <2>3
    <3>2. managed[i] # NoRoom => Present(members', managed[i]) = Present(h.members, managed[i])
      BY <1>1, <3>1 DEF Present
    <3> QED
      BY <1>1, <2>1, <2>3, <3>2 DEF OccupantsOf
  <2> QED
    BY <2>2, <2>3
<1>6. LastingIds' = LastingIds
  <2>1. ASSUME NEW i \in RoomIds
        PROVE  i \in LastingIds' <=> i \in LastingIds
    <3>1. i \in LastingIds' <=> managed'[i] # NoRoom /\ disposing'[managed'[i]]
      BY DEF LastingIds
    <3>2. i \in LastingIds <=> managed[i] # NoRoom /\ disposing[managed[i]]
      BY DEF LastingIds
    <3>3. CASE i \in I
      BY <1>1, <1>3, <3>1, <3>3
    <3>4. CASE i \notin I
      BY <1>1, <1>2, <1>4, <3>1, <3>2, <3>4
    <3> QED
      BY <3>3, <3>4
  <2> QED
    BY <2>1 DEF LastingIds
<1> HIDE DEF I
<1>7. SuspendedAt(wait)' = {p \in SuspendedAt(wait') : p[2] \notin I}
  <2>1. \A w \in Waits :
          wait'[w].room \in Live' <=> wait'[w].room \in Live /\ rid[wait'[w].room] \notin I
    BY <1>1, <1>2 DEF I
  <2>2. \A w \in Waits : wait'[w].room \in Live' => rid'[wait'[w].room] = rid[wait'[w].room]
    BY <1>1, <1>2
  <2>3. SuspendedAt(wait)' =
          {<<wait'[w].thread, rid'[wait'[w].room]>> :
             w \in {v \in Waits : wait'[v].thread # NoThread /\ wait'[v].room \in Live'}}
    BY DEF SuspendedAt
  <2>4. ASSUME NEW p \in SuspendedAt(wait)'
        PROVE  p \in SuspendedAt(wait') /\ p[2] \notin I
    BY <2>1, <2>2, <2>3, <2>4 DEF SuspendedAt
  <2>5. ASSUME NEW p \in SuspendedAt(wait'), p[2] \notin I
        PROVE  p \in SuspendedAt(wait)'
    BY <2>1, <2>2, <2>3, <2>5 DEF SuspendedAt
  <2> QED
    BY <2>4, <2>5
<1>8. OccupantsOf(members)' = [i \in RoomIds |-> OccupantsOf(members)'[i]]
  BY DEF OccupantsOf
<1> QED
  BY <1>1, <1>3, <1>5, <1>6, <1>7, <1>8 DEF I

(* A handler that moves nobody but out of the rooms that it disposes       *)
(* closes them, and no room that lasts.                                    *)
LEMMA ClosesRooms ==
  ASSUME RegistryInv, NEW h \in HandlerStates, NEW now, Disposed(now, h), SameThreads(wait'),
         \A r \in Live \ now : Present(h.members, r) = Present(members, r),
         NEW I, I = {rid[r] : r \in now}
  PROVE  Service!CloseAll(I) /\ I \subseteq stored \ LastingIds
<1>1. \A i \in RoomIds \ I : OccupantsOf(h.members)[i] = OccupantsOf(members)[i]
  <2> SUFFICES ASSUME NEW i \in RoomIds \ I, managed[i] # NoRoom
               PROVE  Present(h.members, managed[i]) = Present(members, managed[i])
    BY DEF OccupantsOf
  <2>1. managed[i] \in Live /\ rid[managed[i]] = i
    BY LiveIds
  <2>2. managed[i] \notin now
    BY <2>1
  <2> QED
    BY <2>1, <2>2
<1>2. OccupantsOf(members)' = [i \in RoomIds |-> IF i \in I THEN {} ELSE OccupantsOf(members)[i]]
  BY <1>1, DisposedView
<1>3. SuspendedAt(wait)' = {p \in SuspendedAt(wait) : p[2] \notin I}
  BY DisposedView, SameSuspended
<1>4. stored' = stored \ I /\ LastingIds' = LastingIds /\ I \subseteq stored \ LastingIds
  BY DisposedView
<1> QED
  BY <1>2, <1>3, <1>4 DEF Service!CloseAll, OccupantsOf, LastingIds, SuspendedAt

(* A handler that disposes nothing changes at most who is in one room.     *)
LEMMA ChangesRoom ==
  ASSUME RegistryInv, NEW h \in HandlerStates, Disposed({}, h), NEW r \in Live,
         \A q \in Live \ {r} : Present(h.members, q) = Present(members, q)
  PROVE  /\ UNCHANGED <<stored, LastingIds>> /\ SuspendedAt(wait)' = SuspendedAt(wait')
         /\ rid[r] \in RoomIds /\ OccupantsOf(members)[rid[r]] = Present(members, r)
         /\ rid[r] \in LastingIds <=> disposing[r]
         /\ OccupantsOf(members)' = [OccupantsOf(members) EXCEPT ![rid[r]] = Present(h.members, r)]
<1>1. rid[r] \in RoomIds /\ managed[rid[r]] = r /\ r # NoRoom
  BY LiveIds
<1>2. ASSUME NEW i \in RoomIds
      PROVE  OccupantsOf(h.members)[i] =
               IF i = rid[r] THEN Present(h.members, r) ELSE OccupantsOf(members)[i]
  <2>1. managed[i] # NoRoom => managed[i] \in Live /\ rid[managed[i]] = i
    BY LiveIds
  <2> QED
    BY <1>1, <2>1 DEF OccupantsOf
<1>3. /\ OccupantsOf(members)' = [i \in RoomIds |-> OccupantsOf(h.members)[i]]
      /\ UNCHANGED <<stored, LastingIds>>
      /\ SuspendedAt(wait)' = SuspendedAt(wait')
  <2>1. PICK I : I = {rid[q] : q \in {}}
    OBVIOUS
  <2>2. /\ stored' = stored \ I /\ LastingIds' = LastingIds
        /\ OccupantsOf(members)' =
             [i \in RoomIds |-> IF i \in I THEN {} ELSE OccupantsOf(h.members)[i]]
        /\ SuspendedAt(wait)' = {p \in SuspendedAt(wait') : p[2] \notin I}
    BY <2>1, DisposedView
  <2>3. I = {}
    BY <2>1
  <2> QED
    BY <2>2, <2>3
<1>4. OccupantsOf(members) = [i \in RoomIds |-> OccupantsOf(members)[i]]
  BY DEF OccupantsOf
<1>5. OccupantsOf(members)[rid[r]] = Present(members, r)
  BY <1>1 DEF OccupantsOf
<1>6. rid[r] \in LastingIds <=> disposing[r]
  BY <1>1 DEF LastingIds
<1> QED
  BY <1>1, <1>2, <1>3, <1>4, <1>5, <1>6

(* remove_client takes one session out of the room, or an entry only, and  *)
(* closes the room if it is empty then, unless it suspends the thread.     *)
LEMMA RemovedLeaves ==
  ASSUME RegistryInv, NEW s \in Sessions, NEW r \in Live, NEW c \in Sessions,
         NEW h \in HandlerStates, SameThreads(h.wait), Removed(s, r, c, h),
         Erased(h, r, c) \in HandlerStates,
         \A q \in Live \ {r} : Present(Erased(h, r, c).members, q) = Present(members, q),
         Present(Erased(h, r, c).members, r) \in {Present(members, r), Present(members, r) \ {c}},
         lock = NoThread \/ (lock = s /\ c = s)
  PROVE  Service!Next
<1> DEFINE g == Erased(h, r, c)
           rest == Present(g.members, r)
           Occ == OccupantsOf(members)
<1>1. PICK i \in RoomIds : i = rid[r]
  BY LiveIds
<1>2. Occ[i] = Present(members, r) /\ (i \in LastingIds <=> disposing[r])
  BY <1>1, LiveIds DEF OccupantsOf, LastingIds
<1>3. rest \in {Occ[i], Occ[i] \ {c}}
  BY <1>2
<1> HIDE DEF g, rest
<1>4. SUFFICES \/ /\ rest # {} \/ i \in LastingIds
                  /\ Occ' = [Occ EXCEPT ![i] = rest]
                  /\ UNCHANGED <<stored, LastingIds, lock>> /\ SuspendedAt(wait)' = SuspendedAt(wait)
               \/ /\ rest = {} /\ i \notin LastingIds
                  /\ Service!CloseAll({i})
                  /\ UNCHANGED lock
               \/ /\ i \notin LastingIds
                  /\ Occ' = [Occ EXCEPT ![i] = rest]
                  /\ lock' = NoThread
                  /\ SuspendedAt(wait)' = SuspendedAt(wait) \cup {<<s, i>>}
                  /\ UNCHANGED <<stored, LastingIds>>
  <2>1. Service!Leave(s, c, i)
    BY <1>3, <1>4 DEF Service!Leave, OccupantsOf, LastingIds, SuspendedAt
  <2> QED
    BY <2>1 DEF Service!Next
<1>5. CASE /\ UNCHANGED <<pc, lock>>
           /\ wait' = h.wait
           /\ \E now \in SUBSET {r} :
                /\ Disposed(now, g)
                /\ r \in Live /\ ~disposing[r] /\ Present(g.members, r) = {} <=> r \in now
  <2>1. PICK now \in SUBSET {r} :
          /\ Disposed(now, g)
          /\ r \in Live /\ ~disposing[r] /\ rest = {} <=> r \in now
    BY <1>5 DEF rest
  <2>2. SameThreads(wait')
    BY <1>5
  <2>3. CASE r \in now
    <3>1. {i} = {rid[q] : q \in now} /\ \A q \in Live \ now : Present(g.members, q) = Present(members, q)
      BY <1>1, <2>1, <2>3 DEF g
    <3>2. Service!CloseAll({i})
      BY <2>1, <2>2, <3>1, ClosesRooms DEF g
    <3> QED
      BY <1>2, <1>5, <2>1, <2>3, <3>2
  <2>4. CASE r \notin now
    <3>1. Disposed({}, g)
      <4>1. now = {}
        BY <2>1, <2>4
      <4> QED
        BY <2>1, <4>1
    <3>2. /\ Occ' = [Occ EXCEPT ![i] = rest]
          /\ UNCHANGED <<stored, LastingIds>> /\ SuspendedAt(wait)' = SuspendedAt(wait')
      BY <1>1, <3>1, ChangesRoom DEF g, rest
    <3>3. SuspendedAt(wait)' = SuspendedAt(wait)
      BY <2>2, <3>2, SameSuspended
    <3> QED
      BY <1>2, <1>5, <2>1, <2>4, <3>2, <3>3
  <2> QED
    BY <2>3, <2>4
<1>6. CASE ~disposing[r] /\ Suspended(s, r, c, h.wait) /\ Disposed({}, g)
  <2>1. /\ Occ' = [Occ EXCEPT ![i] = rest]
        /\ UNCHANGED <<stored, LastingIds>> /\ SuspendedAt(wait)' = SuspendedAt(wait')
    BY <1>1, <1>6, ChangesRoom DEF g, rest
  <2>2. PICK v \in Waits :
          /\ h.wait[v] = NoWait
          /\ wait' = [h.wait EXCEPT ![v] = [thread |-> s, room |-> r, id |-> IdOf[c],
                                            result |-> "none", timer |-> "armed"]]
    BY <1>6 DEF Suspended
  <2>3. /\ h.wait[v].thread = NoThread
        /\ wait'[v].thread = s /\ wait'[v].room = r /\ s # NoThread
        /\ \A w \in Waits \ {v} : wait'[w] = h.wait[w]
    BY <2>2, SessionsAssumption DEF HandlerStates, NoWait
  <2>4. SuspendedAt(wait') = SuspendedAt(h.wait) \cup {<<s, i>>}
    <3>1. ASSUME NEW p \in SuspendedAt(wait')
          PROVE  p \in SuspendedAt(h.wait) \cup {<<s, i>>}
      <4>1. PICK w \in Waits :
              /\ wait'[w].thread # NoThread /\ wait'[w].room \in Live
              /\ p = <<wait'[w].thread, rid[wait'[w].room]>>
        BY <3>1 DEF SuspendedAt
      <4>2. CASE w = v
        BY <1>1, <2>3, <4>1, <4>2
      <4>3. CASE w # v
        BY <2>3, <4>1, <4>3 DEF SuspendedAt
      <4> QED
        BY <4>2, <4>3
    <3>2. ASSUME NEW p \in SuspendedAt(h.wait)
          PROVE  p \in SuspendedAt(wait')
      <4>1. PICK w \in Waits :
              /\ h.wait[w].thread # NoThread /\ h.wait[w].room \in Live
              /\ p = <<h.wait[w].thread, rid[h.wait[w].room]>>
        BY <3>2 DEF SuspendedAt
      <4>2. w # v
        BY <2>3, <4>1
      <4> QED
        BY <2>3, <4>1, <4>2 DEF SuspendedAt
    <3>3. <<s, i>> \in SuspendedAt(wait')
      BY <1>1, <2>3 DEF SuspendedAt
    <3> QED
      BY <3>1, <3>2, <3>3
  <2>5. SuspendedAt(h.wait) = SuspendedAt(wait)
    BY SameSuspended
  <2>6. lock' = NoThread
    BY <1>6 DEF Suspended
  <2> QED
    BY <1>2, <1>6, <2>1, <2>4, <2>5, <2>6
<1> QED
  BY <1>5, <1>6 DEF Removed, g

(* A join lets one session into the room, or changes nobody's place: it is *)
(* in the room already, or its hook kicks it.                              *)
LEMMA JoinEnters ==
  ASSUME MembersInv, NEW s \in Sessions, NEW r \in Rooms, JoinRoom(s, r)
  PROVE  [Service!Next]_(Service!vars)
<1> DEFINE h == Joined(s, r)
           g == Erased(h, r, s)
           Occ == OccupantsOf(members)
<1>1. /\ RegistryInv /\ r \in Live /\ h \in HandlerStates /\ SameThreads(h.wait)
      /\ \/ Disposed({}, h) /\ wait' = h.wait /\ UNCHANGED lock
         \/ Removed(s, r, s, h)
  BY JoinEffect DEF MembersInv
<1>2. members \in [Rooms -> [Sessions -> Nat]] /\ lock = NoThread /\ rid[r] \in stored
  BY <1>1 DEF RegistryInv, TypeOK, RoomTypeOK, JoinRoom, LockFree
<1>3. \A q \in Rooms, t \in Sessions :
        h.members[q][t] = IF q = r /\ t = s THEN members[q][t] + 1 ELSE members[q][t]
  BY <1>2 DEF Joined
<1>4. h.members[r][s] > 0 /\ HandlerInv(h)
  BY <1>1, <1>2, <1>3, JoinedKeeps DEF MembersInv, RoomsInv
<1> HIDE DEF h
<1>5. CASE Disposed({}, h) /\ wait' = h.wait /\ UNCHANGED lock
  <2>1. \A q \in Live \ {r} : Present(h.members, q) = Present(members, q)
    BY <1>3 DEF Present, Live
  <2>2. Present(h.members, r) = Present(members, r) \cup {s}
    <3>1. \A t \in Sessions \ {s} : h.members[r][t] = members[r][t]
      BY <1>3
    <3> QED
      BY <1>4, <3>1 DEF Present
  <2>3. /\ UNCHANGED <<stored, LastingIds>> /\ SuspendedAt(wait)' = SuspendedAt(wait')
        /\ rid[r] \in RoomIds /\ Occ[rid[r]] = Present(members, r)
        /\ Occ' = [Occ EXCEPT ![rid[r]] = Present(h.members, r)]
    BY <1>1, <1>5, <2>1, ChangesRoom
  <2>4. SuspendedAt(wait)' = SuspendedAt(wait)
    BY <1>1, <1>5, <2>3, SameSuspended
  <2>5. CASE s \in Present(members, r)
    <3>1. Occ' = Occ
      <4>1. Present(h.members, r) = Occ[rid[r]]
        BY <2>2, <2>3, <2>5
      <4>2. Occ' = [Occ EXCEPT ![rid[r]] = Occ[rid[r]]] /\ Occ = [i \in RoomIds |-> Occ[i]]
        BY <2>3, <4>1 DEF OccupantsOf
      <4> HIDE DEF Occ
      <4> QED
        BY <4>2
    <3> QED
      BY <1>5, <2>3, <2>4, <3>1 DEF Service!vars, OccupantsOf, LastingIds, SuspendedAt
  <2>6. CASE s \notin Present(members, r)
    <3>1. Occ' = [Occ EXCEPT ![rid[r]] = @ \cup {s}]
      BY <2>2, <2>3
    <3>2. PICK i \in RoomIds : i = rid[r]
      BY <2>3
    <3>3. Service!Enter(s, i)
      BY <1>2, <1>5, <2>3, <2>4, <2>6, <3>1, <3>2
         DEF Service!Enter, OccupantsOf, LastingIds, SuspendedAt
    <3> QED
      BY <3>3 DEF Service!Next
  <2> QED
    BY <2>5, <2>6
<1>6. CASE Removed(s, r, s, h)
  <2>1. g \in HandlerStates
    BY <1>1, <1>4, ErasedKeeps
  <2>2. h.members \in [Rooms -> [Sessions -> Nat]]
    BY <1>1 DEF HandlerStates
  <2>3. g.members = EraseEntry(h.members, r, s)
    BY <1>1 DEF Erased, HandlerStates
  <2>4. \A q \in Rooms, t \in Sessions : g.members[q][t] = members[q][t]
    BY <1>2, <1>3, <2>2, <2>3 DEF EraseEntry
  <2>5. \A q \in Live : Present(g.members, q) = Present(members, q)
    BY <2>4 DEF Present, Live
  <2> QED
    BY <1>1, <1>2, <1>6, <2>1, <2>5, RemovedLeaves
<1> QED
  BY <1>1, <1>5, <1>6

(* A client that a message kicks, or that PLAYER_LEFT takes out, leaves.   *)
LEMMA MemberLeaves ==
  ASSUME MembersInv, NEW s \in Sessions, NEW r \in Rooms, NEW c \in Sessions,
         members[r][c] > 0, Removed(s, r, c, Current), lock = NoThread \/ (lock = s /\ c = s)
  PROVE  Service!Next
<1> DEFINE g == Erased(Current, r, c)
<1>1. /\ RegistryInv /\ Current \in HandlerStates /\ HandlerInv(Current) /\ Current.members = members
      /\ SameThreads(Current.wait)
  BY CurrentType DEF MembersInv, RegistryInv, RoomsInv, Current, SameThreads
<1>2. r \in Live /\ members \in [Rooms -> [Sessions -> Nat]]
  BY <1>1 DEF HandlerInv, Entered, Live, RegistryInv, TypeOK, RoomTypeOK
<1>3. g \in HandlerStates
  BY <1>1, ErasedKeeps
<1>4. \A q \in Rooms, t \in Sessions :
        g.members[q][t] = IF q = r /\ t = c THEN members[q][t] - 1 ELSE members[q][t]
  BY <1>1, <1>2 DEF Erased, EraseEntry, Current
<1> HIDE DEF g
<1>5. \A q \in Live \ {r} : Present(g.members, q) = Present(members, q)
  BY <1>4 DEF Present, Live
<1>6. Present(g.members, r) \in {Present(members, r), Present(members, r) \ {c}}
  <2>1. \A t \in Sessions \ {c} : g.members[r][t] = members[r][t]
    BY <1>4
  <2>2. CASE g.members[r][c] > 0
    BY <2>1, <2>2 DEF Present
  <2>3. CASE ~ (g.members[r][c] > 0)
    BY <2>1, <2>3 DEF Present
  <2> QED
    BY <2>2, <2>3
<1> QED
  BY <1>1, <1>2, <1>3, <1>5, <1>6, RemovedLeaves DEF g

(* A suspended thread goes on and closes its room if nobody is in it; if   *)
(* the room is gone it only goes on with its leaving.                      *)
LEMMA ResumeGoesOn ==
  ASSUME MembersInv, NEW s \in Sessions, Resume(s)
  PROVE  Service!Next
<1>1. RegistryInv /\ ThreadsInv /\ Current \in HandlerStates /\ Current.members = members
  BY CurrentType DEF MembersInv, RegistryInv, Current
<1>0. PICK w \in Waits : \E now \in SUBSET {wait[w].room} :
        /\ wait[w].thread = s /\ LockFree /\ lock' = s
        /\ wait' = Forget([wait EXCEPT ![w].thread = NoThread])
        /\ Disposed(now, Current)
        /\ wait[w].room \in Live /\ ~disposing[wait[w].room] /\ Present(members, wait[w].room) = {}
             <=> wait[w].room \in now
  BY <1>1, ResumeEffect
<1>2. PICK now \in SUBSET {wait[w].room} :
        /\ wait[w].thread = s /\ LockFree /\ lock' = s
        /\ wait' = Forget([wait EXCEPT ![w].thread = NoThread])
        /\ Disposed(now, Current)
        /\ wait[w].room \in Live /\ ~disposing[wait[w].room] /\ Present(members, wait[w].room) = {}
             <=> wait[w].room \in now
  BY <1>0
<1> DEFINE r == wait[w].room
           I == {rid[q] : q \in now}
<1>3. \A v \in Waits : /\ v # w => wait'[v].thread = wait[v].thread
                       /\ v # w /\ wait[v].thread # NoThread => wait'[v].room = wait[v].room
                       /\ v = w => wait'[v].thread = NoThread
  <2>1. wait \in [Waits -> WaitRecords]
    BY <1>1 DEF RegistryInv, TypeOK, ThreadTypeOK
  <2>2. \A v \in Waits : wait[v] \in WaitRecords
    BY <2>1
  <2>3. /\ [wait EXCEPT ![w].thread = NoThread][w].thread = NoThread
        /\ \A v \in Waits : v # w => [wait EXCEPT ![w].thread = NoThread][v] = wait[v]
    BY <2>1, <2>2 DEF WaitRecords
  <2> QED
    BY <1>2, <2>3 DEF Forget, NoWait
<1>4. s # NoThread /\ \A v \in Waits : v # w => wait[v].thread # s
  BY <1>1, <1>2, SessionsAssumption DEF ThreadsInv
<1>5. SuspendedAt(wait') = IF r \in Live THEN SuspendedAt(wait) \ {<<s, rid[r]>>} ELSE SuspendedAt(wait)
  <2>1. ASSUME NEW p \in SuspendedAt(wait')
        PROVE  p \in SuspendedAt(wait) /\ (r \in Live => p # <<s, rid[r]>>)
    <3>1. PICK v \in Waits :
            /\ wait'[v].thread # NoThread /\ wait'[v].room \in Live
            /\ p = <<wait'[v].thread, rid[wait'[v].room]>>
      BY <2>1 DEF SuspendedAt
    <3>2. v # w /\ wait'[v].thread = wait[v].thread /\ wait'[v].room = wait[v].room
      BY <1>3, <3>1
    <3>3. p[1] # s
      BY <1>4, <3>1, <3>2
    <3> QED
      BY <3>1, <3>2, <3>3 DEF SuspendedAt
  <2>2. ASSUME NEW p \in SuspendedAt(wait), r \in Live => p # <<s, rid[r]>>
        PROVE  p \in SuspendedAt(wait')
    <3>1. PICK v \in Waits :
            /\ wait[v].thread # NoThread /\ wait[v].room \in Live
            /\ p = <<wait[v].thread, rid[wait[v].room]>>
      BY <2>2 DEF SuspendedAt
    <3>2. v # w
      BY <1>2, <2>2, <3>1
    <3> QED
      BY <1>3, <3>1, <3>2 DEF SuspendedAt
  <2> QED
    BY <2>1, <2>2
<1>6. /\ stored' = stored \ I /\ I \subseteq stored \ LastingIds /\ LastingIds' = LastingIds
      /\ OccupantsOf(members)' = [i \in RoomIds |-> IF i \in I THEN {} ELSE OccupantsOf(members)[i]]
      /\ SuspendedAt(wait)' = {p \in SuspendedAt(wait') : p[2] \notin I}
  BY <1>1, <1>2, DisposedView
<1> HIDE DEF I, r
<1>7. lock = NoThread /\ lock' = s
  BY <1>2 DEF LockFree
<1>8. ASSUME r \notin now
      PROVE  /\ UNCHANGED <<stored, LastingIds>> /\ OccupantsOf(members)' = OccupantsOf(members)
             /\ SuspendedAt(wait)' = SuspendedAt(wait')
  <2>1. I = {}
    BY <1>2, <1>8 DEF I, r
  <2>2. OccupantsOf(members) = [i \in RoomIds |-> OccupantsOf(members)[i]]
    BY DEF OccupantsOf
  <2> QED
    BY <1>6, <2>1, <2>2
<1>9. CASE r \notin Live
  <2>1. r \notin now
    BY <1>2, <1>9 DEF r
  <2>2. Service!StartLeaving(s)
    BY <1>5, <1>7, <1>8, <1>9, <2>1 DEF Service!StartLeaving, OccupantsOf, LastingIds, SuspendedAt
  <2> QED
    BY <2>2 DEF Service!Next
<1>10. CASE r \in Live
  <2>1. PICK i \in RoomIds : i = rid[r]
    BY <1>1, <1>10, LiveIds
  <2>2. <<s, i>> \in SuspendedAt(wait)
    BY <1>2, <1>4, <1>10, <2>1 DEF SuspendedAt, r
  <2>3. OccupantsOf(members)[i] = Present(members, r) /\ (i \in LastingIds <=> disposing[r])
    BY <1>1, <1>10, <2>1, LiveIds DEF OccupantsOf, LastingIds
  <2>4. CASE r \in now
    <3>1. I = {i}
      BY <1>2, <2>1, <2>4 DEF I, r
    <3>2. SuspendedAt(wait)' = {p \in SuspendedAt(wait) : p[2] \notin {i}}
      BY <1>5, <1>6, <1>10, <2>1, <3>1
    <3>3. Service!CloseAll({i})
      BY <1>6, <3>1, <3>2 DEF Service!CloseAll, OccupantsOf, LastingIds, SuspendedAt
    <3>4. OccupantsOf(members)[i] = {} /\ i \notin LastingIds
      BY <1>2, <2>3, <2>4 DEF r
    <3>5. Service!GoOn(s, i)
      BY <1>7, <2>2, <3>3, <3>4 DEF Service!GoOn, OccupantsOf, LastingIds, SuspendedAt
    <3> QED
      BY <3>5 DEF Service!Next
  <2>5. CASE r \notin now
    <3>1. OccupantsOf(members)[i] # {} \/ i \in LastingIds
      BY <1>2, <1>10, <2>3, <2>5 DEF r
    <3>2. SuspendedAt(wait)' = SuspendedAt(wait) \ {<<s, i>>}
      BY <1>5, <1>8, <1>10, <2>1, <2>5
    <3>3. Service!GoOn(s, i)
      BY <1>7, <1>8, <2>2, <2>5, <3>1, <3>2 DEF Service!GoOn, OccupantsOf, LastingIds, SuspendedAt
    <3> QED
      BY <3>3 DEF Service!Next
  <2> QED
    BY <2>4, <2>5
<1> QED
  BY <1>9, <1>10

(* A room that is created is open and empty, whatever was left of an       *)
(* undying room of its id.                                                 *)
LEMMA CreateOpens ==
  ASSUME MembersInv, ExposureInv, NEW r \in Rooms, NEW id \in RoomIds,
         CreateNewRoom(r, id) \/ CreateNewRoomDisposed(r, id)
  PROVE  Service!Next
<1> DEFINE old == managed[id]
           Occ == OccupantsOf(members)
<1>1. /\ RegistryInv /\ obj[r] = "none" /\ id \notin stored /\ LockFree /\ r # old
      /\ stored' = stored \cup {id} /\ managed' = [managed EXCEPT ![id] = r]
      /\ obj' = [q \in Rooms |-> IF q = r THEN "live" ELSE IF q = old THEN "replaced" ELSE obj[q]]
      /\ rid' = [rid EXCEPT ![r] = id]
      /\ members' = [q \in Rooms |-> IF q = old THEN [s \in Sessions |-> 0] ELSE members[q]]
      /\ UNCHANGED <<wait, lock>>
      /\ disposing' = disposing \/ disposing' = [disposing EXCEPT ![r] = TRUE]
  <2>1. RegistryInv
    BY DEF MembersInv
  <2>2. obj[r] = "none"
    BY DEF CreateNewRoom, CreateNewRoomDisposed, Constructs
  <2>3. r # old
    BY <2>1, <2>2, LiveIds, RoomsAssumption DEF Live
  <2> QED
    BY <2>1, <2>2, <2>3
       DEF CreateNewRoom, CreateNewRoomDisposed, Constructs, Register, UnusedId, threadVars
<1>2. /\ managed \in [RoomIds -> Rooms \cup {NoRoom}] /\ r # NoRoom
      /\ rid \in [Rooms -> RoomIds \cup {NoRoom}] /\ disposing \in [Rooms -> BOOLEAN]
      /\ members \in [Rooms -> [Sessions -> Nat]]
  BY <1>1, RoomsAssumption DEF RegistryInv, TypeOK, RoomTypeOK, ServerTypeOK
<1>3. /\ \A i \in RoomIds : managed[i] # NoRoom => managed[i] \in Live /\ rid[managed[i]] = i
      /\ \A q \in Live : q \in Rooms /\ q # NoRoom /\ managed[rid[q]] = q
  BY <1>1, LiveIds
<1>4. \A i \in RoomIds \ {id} : managed[i] # NoRoom => managed[i] # old /\ managed[i] # r
  BY <1>1, <1>3 DEF Live
<1> HIDE DEF old
<1>5. \A s \in Sessions : members[r][s] = 0
  <2>1. \A s \in Sessions : members[r][s] \in Nat /\ ~ (members[r][s] > 0)
    <3>1. Entered(Current) /\ Current.members = members
      BY DEF MembersInv, RoomsInv, HandlerInv, Current
    <3>2. \A s \in Sessions : members[r][s] > 0 => obj[r] = "live"
      BY <3>1 DEF Entered
    <3>3. obj[r] = "none"
      BY <1>1
    <3> QED
      BY <1>2, <3>2, <3>3
  <2> QED
    BY <2>1
<1>6. Occ' = [Occ EXCEPT ![id] = {}]
  <2>1. /\ Occ' = [i \in RoomIds |-> IF managed'[i] = NoRoom THEN {} ELSE Present(members', managed'[i])]
        /\ Occ = [i \in RoomIds |-> IF managed[i] = NoRoom THEN {} ELSE Present(members, managed[i])]
    BY DEF OccupantsOf, Present
  <2>2. managed'[id] = r /\ Present(members', r) = {}
    BY <1>1, <1>2, <1>5 DEF Present
  <2>3. ASSUME NEW i \in RoomIds \ {id}, managed[i] # NoRoom
        PROVE  Present(members', managed[i]) = Present(members, managed[i])
    BY <1>1, <1>3, <1>4, <2>3 DEF Present, Live
  <2>4. \A i \in RoomIds \ {id} : managed'[i] = managed[i]
    BY <1>1, <1>2
  <2>5. ASSUME NEW i \in RoomIds
        PROVE  Occ'[i] = IF i = id THEN {} ELSE Occ[i]
    <3>1. Occ'[i] = IF managed'[i] = NoRoom THEN {} ELSE Present(members', managed'[i])
      BY <2>1
    <3>2. Occ[i] = IF managed[i] = NoRoom THEN {} ELSE Present(members, managed[i])
      BY <2>1
    <3> HIDE DEF Occ
    <3> QED
      BY <2>2, <2>3, <2>4, <3>1, <3>2, <1>2
  <2>6. Occ' = [i \in RoomIds |-> Occ'[i]] /\ Occ = [i \in RoomIds |-> Occ[i]]
    BY <2>1
  <2> HIDE DEF Occ
  <2> QED
    BY <2>5, <2>6
<1>7. LastingIds' \in {LastingIds \ {id}, LastingIds \cup {id}}
  <2>1. ASSUME NEW i \in RoomIds
        PROVE  i \in LastingIds' <=> IF i = id THEN disposing'[r] ELSE i \in LastingIds
    <3>1. i \in LastingIds' <=> managed'[i] # NoRoom /\ disposing'[managed'[i]]
      BY DEF LastingIds
    <3>2. i \in LastingIds <=> managed[i] # NoRoom /\ disposing[managed[i]]
      BY DEF LastingIds
    <3>3. CASE i = id
      BY <1>1, <1>2, <3>1, <3>3
    <3>4. CASE i # id
      BY <1>1, <1>2, <1>3, <1>4, <3>1, <3>2, <3>4
    <3> QED
      BY <3>3, <3>4
  <2>2. LastingIds' \subseteq RoomIds /\ LastingIds \subseteq RoomIds
    BY DEF LastingIds
  <2>3. CASE disposing'[r]
    <3>1. LastingIds' = LastingIds \cup {id}
      BY <2>1, <2>2, <2>3
    <3> QED
      BY <3>1
  <2>4. CASE ~disposing'[r]
    <3>1. LastingIds' = LastingIds \ {id}
      BY <2>1, <2>2, <2>4
    <3> QED
      BY <3>1
  <2> QED
    BY <2>3, <2>4
<1>8. SuspendedAt(wait)' = {p \in SuspendedAt(wait) : p[2] # id}
  <2>1. \A w \in Waits : wait[w].thread # NoThread => wait[w].room \in Rooms \ {r}
    <3> SUFFICES ASSUME NEW w \in Waits, wait[w].thread # NoThread
                 PROVE  wait[w].room \in Rooms /\ wait[w].room # r
      OBVIOUS
    <3>1. wait[w].room \in Rooms
      BY <1>1 DEF RegistryInv, SuspendedInRoom
    <3>2. Referenced(wait[w].room)
      BY DEF Referenced
    <3> QED
      BY <1>1, <3>1, <3>2 DEF ExposureInv
  <2>2. \A q \in Rooms \ {r} : /\ obj'[q] = "live" <=> obj[q] = "live" /\ q # old
                             /\ rid'[q] = rid[q]
    BY <1>1, <1>2
  <2>3. \A q \in Live : q = old <=> rid[q] = id
    BY <1>3 DEF old
  <2>4. SuspendedAt(wait)' =
          {<<wait[w].thread, rid'[wait[w].room]>> :
             w \in {v \in Waits : wait[v].thread # NoThread /\ wait[v].room \in Live'}}
    BY <1>1 DEF SuspendedAt
  <2>5. \A w \in Waits : wait[w].thread # NoThread =>
          /\ wait[w].room \in Live' <=> wait[w].room \in Live /\ rid[wait[w].room] # id
          /\ rid'[wait[w].room] = rid[wait[w].room]
    BY <2>1, <2>2, <2>3 DEF Live
  <2>6. ASSUME NEW p \in SuspendedAt(wait)'
        PROVE  p \in SuspendedAt(wait) /\ p[2] # id
    BY <2>4, <2>5, <2>6 DEF SuspendedAt
  <2>7. ASSUME NEW p \in SuspendedAt(wait), p[2] # id
        PROVE  p \in SuspendedAt(wait)'
    BY <2>4, <2>5, <2>7 DEF SuspendedAt
  <2> QED
    BY <2>6, <2>7
<1>9. Service!Open(id)
  BY <1>1, <1>6, <1>7, <1>8 DEF Service!Open, OccupantsOf, LastingIds, SuspendedAt, LockFree
<1> QED
  BY <1>9 DEF Service!Next

(* A snapshot expires under an undying room only.                          *)
LEMMA SnapshotExpiresService ==
  ASSUME RegistryInv, NEW id \in RoomIds, SnapshotExpires(id)
  PROVE  Service!Next
<1>1. /\ id \in stored /\ TimerIsOver(managed[id]) /\ stored' = stored \ {id}
      /\ UNCHANGED <<managed, disposing, members, wait, lock, obj, rid>>
  BY DEF SnapshotExpires, roomVars, threadVars
<1>2. managed[id] \in Live /\ managed[id] # NoRoom
  BY <1>1, LiveIds
<1>3. id \in LastingIds
  BY <1>1, <1>2 DEF LastingIds, TimerIsOver, RegistryInv, LifetimeIsBounded
<1>4. /\ LastingIds' = LastingIds /\ OccupantsOf(members)' = OccupantsOf(members)
      /\ SuspendedAt(wait)' = SuspendedAt(wait)
  BY <1>1 DEF LastingIds, OccupantsOf, Present, SuspendedAt, Live
<1>5. Service!Expire(id)
  BY <1>1, <1>3, <1>4 DEF Service!Expire, LastingIds, OccupantsOf, SuspendedAt
<1> QED
  BY <1>5 DEF Service!Next

(* A message that closes a room, the timer and shutdown close rooms that   *)
(* can be closed, between two leavings.                                    *)
LEMMA ClosingCloses ==
  ASSUME MembersInv, (\E r \in Rooms : MessageDisposes(r)) \/ WorkerRunsAuto \/ Shutdown
  PROVE  [Service!Next]_(Service!vars)
<1>1. RegistryInv /\ Current \in HandlerStates /\ Current.members = members
  BY CurrentType DEF MembersInv, RegistryInv, Current
<1>2. lock = NoThread /\ lock' = lock /\ SameThreads(wait')
  BY <1>1, ClosingEffect DEF MessageDisposes, WorkerRunsAuto, Shutdown, LockFree, threadVars, SameThreads
<1>3. ASSUME NEW D \in SUBSET Rooms, Dispose(D, Current),
             NEW I, I = {rid[r] : r \in {q \in D : obj[q] = "live" /\ ~disposing[q]}}
      PROVE  Service!CloseAll(I) /\ I \subseteq stored \ LastingIds
  <2> DEFINE now == {r \in D : obj[r] = "live" /\ ~disposing[r]}
  <2>1. Disposed(now, Current) /\ I = {rid[r] : r \in now}
    BY <1>1, <1>3, DisposeEffect
  <2> HIDE DEF now
  <2> QED
    BY <1>1, <1>2, <2>1, ClosesRooms
<1>4. ASSUME NEW r \in Rooms, Dispose({r}, Current)
      PROVE  [Service!Next]_(Service!vars)
  <2>0. PICK I : I = {rid[p] : p \in {q \in {r} : obj[q] = "live" /\ ~disposing[q]}}
    OBVIOUS
  <2>1. Service!CloseAll(I) /\ I \subseteq stored \ LastingIds
    BY <1>3, <1>4, <2>0
  <2>2. CASE obj[r] = "live" /\ ~disposing[r]
    <3>1. I = {rid[r]}
      BY <2>0, <2>2
    <3>2. PICK i \in RoomIds : i = rid[r]
      BY <1>1, <2>2, LiveIds DEF Live
    <3>3. Service!Close(i)
      BY <1>2, <2>1, <3>1, <3>2 DEF Service!Close, LastingIds
    <3> QED
      BY <3>3 DEF Service!Next
  <2>3. CASE ~ (obj[r] = "live" /\ ~disposing[r])
    <3>1. I = {}
      BY <2>0, <2>3
    <3>2. UNCHANGED Service!vars
      <4>1. Service!CloseAll({})
        BY <2>1, <3>1
      <4>2. stored' = stored /\ LastingIds' = LastingIds
        BY <4>1 DEF Service!CloseAll, LastingIds
      <4>3. OccupantsOf(members)' = [i \in RoomIds |-> OccupantsOf(members)[i]]
        BY <4>1 DEF Service!CloseAll, OccupantsOf
      <4>4. OccupantsOf(members)' = OccupantsOf(members)
        BY <4>3 DEF OccupantsOf
      <4>5. SuspendedAt(wait)' = {p \in SuspendedAt(wait) : p[2] \notin {}}
        BY <4>1 DEF Service!CloseAll, SuspendedAt
      <4>6. SuspendedAt(wait)' = SuspendedAt(wait)
        BY <4>5
      <4> QED
        BY <1>2, <4>2, <4>4, <4>6 DEF Service!vars, OccupantsOf, LastingIds, SuspendedAt
    <3> QED
      BY <3>2
  <2> QED
    BY <2>2, <2>3
<1>5. CASE \E r \in Rooms : MessageDisposes(r)
  BY <1>4, <1>5 DEF MessageDisposes
<1>6. CASE WorkerRunsAuto
  <2>1. worker.room \in Rooms
    BY <1>1, <1>6 DEF WorkerRunsAuto, RegistryInv, TypeOK, ThreadTypeOK, Workers
  <2> QED
    BY <1>4, <1>6, <2>1 DEF WorkerRunsAuto
<1>7. CASE Shutdown
  <2> DEFINE D == {managed[i] : i \in RoomIds} \ {NoRoom}
             now == {r \in D : obj[r] = "live" /\ ~disposing[r]}
  <2>0. PICK I : I = {rid[r] : r \in now}
    OBVIOUS
  <2>1. D \in SUBSET Rooms
    BY <1>1 DEF RegistryInv, TypeOK, ServerTypeOK
  <2>2. Dispose(D, Current)
    BY <1>7 DEF Shutdown
  <2>3. Service!CloseAll(I) /\ I \subseteq stored \ LastingIds
    BY <1>3, <2>0, <2>1, <2>2
  <2>4. stored \ LastingIds \subseteq I
    <3> SUFFICES ASSUME NEW i \in stored \ LastingIds
                 PROVE  i \in I
      OBVIOUS
    <3>1. i \in RoomIds /\ managed[i] \in Live /\ managed[i] # NoRoom /\ rid[managed[i]] = i
      BY <1>1, LiveIds
    <3>2. ~disposing[managed[i]]
      BY <3>1 DEF LastingIds
    <3>3. managed[i] \in now
      BY <3>1, <3>2 DEF Live
    <3> HIDE DEF now
    <3> QED
      BY <2>0, <3>1, <3>3
  <2>5. I = stored \ LastingIds
    BY <2>3, <2>4
  <2>6. Service!CloseAll(stored \ LastingIds)
    BY <2>3, <2>5 DEF Service!CloseAll
  <2>7. Service!Shutdown
    BY <1>2, <2>6 DEF Service!Shutdown, LastingIds
  <2> QED
    BY <2>7 DEF Service!Next
<1> QED
  BY <1>5, <1>6, <1>7

LEMMA ServiceSteps ==
  ASSUME MembersInv, ExposureInv, [Next]_vars
  PROVE  [Service!Next]_(Service!vars)
<1>1. RegistryInv /\ ThreadsInv /\ TypeOK /\ SameThreads(wait)
  BY DEF MembersInv, RegistryInv, SameThreads
<1>2. ASSUME UNCHANGED <<stored, managed, disposing, members, lock, obj, rid>>, SameThreads(wait')
      PROVE  UNCHANGED Service!vars
  <2>1. SuspendedAt(wait)' = SuspendedAt(wait') /\ SuspendedAt(wait') = SuspendedAt(wait)
    BY <1>2, SameSuspended DEF SuspendedAt, Live
  <2> QED
    BY <1>2, <2>1 DEF Service!vars, Present, SuspendedAt
<1>3. ASSUME NEW s \in Sessions, NEW r \in Rooms, NEW c \in Sessions, MessageKicks(s, r, c)
      PROVE  Service!Next
  BY <1>1, <1>3, MessageKicksEffect, MemberLeaves DEF MessageKicks, LockFree
<1>4. ASSUME NEW s \in Sessions, PublishNext(s)
      PROVE  [Service!Next]_(Service!vars)
  <2>1. PICK r \in Rooms :
          \/ UNCHANGED <<roomVars, serverVars, lock, wait>>
          \/ members[r][s] > 0 /\ Removed(s, r, s, Current)
    BY <1>1, <1>4, PublishNextEffect
  <2>2. CASE UNCHANGED <<roomVars, serverVars, lock, wait>>
    <3>1. SameThreads(wait')
      BY <2>2 DEF SameThreads
    <3> QED
      BY <1>2, <2>2, <3>1 DEF roomVars, serverVars
  <2>3. CASE members[r][s] > 0 /\ Removed(s, r, s, Current)
    BY <1>4, <2>3, MemberLeaves DEF PublishNext
  <2> QED
    BY <2>1, <2>2, <2>3
<1>5. ASSUME NEW s \in Sessions, Connect(s)
      PROVE  UNCHANGED Service!vars
  <2>1. SameThreads(wait') /\ UNCHANGED <<roomVars, serverVars, lock>>
    BY <1>5 DEF Connect, SameThreads
  <2> QED
    BY <1>2, <2>1 DEF roomVars, serverVars
<1>6. ASSUME NEW s \in Sessions, Disconnect(s) \/ CloseConnection(s)
      PROVE  Service!Next
  <2>1. LockFree /\ lock' = s /\ UNCHANGED <<roomVars, serverVars, wait>>
    BY <1>1, <1>6, DisconnectEffect
  <2>2. Service!StartLeaving(s)
    BY <2>1 DEF Service!StartLeaving, LockFree, roomVars, serverVars, Present, Live
  <2> QED
    BY <2>2 DEF Service!Next
<1>7. ASSUME NEW s \in Sessions, PublishEnd(s)
      PROVE  Service!Next
  <2>1. lock # NoThread /\ lock' = NoThread /\ UNCHANGED <<roomVars, serverVars, wait>>
    BY <1>7, SessionsAssumption DEF PublishEnd
  <2>2. Service!StopLeaving
    BY <2>1 DEF Service!StopLeaving, roomVars, serverVars, Present, Live
  <2> QED
    BY <2>2 DEF Service!Next
<1>8. ASSUME NEW r \in Rooms, MessageReachesFreed(r)
      PROVE  UNCHANGED Service!vars
  <2>1. SameThreads(wait') /\ UNCHANGED <<roomVars, serverVars, lock>>
    BY <1>8 DEF MessageReachesFreed, threadVars, SameThreads
  <2> QED
    BY <1>2, <2>1 DEF roomVars, serverVars
<1>9. CASE \E s \in Sessions : ClientStep(s) \/ ServerStep(s)
  <2>1. PICK s \in Sessions : ClientStep(s) \/ ServerStep(s)
    BY <1>9
  <2>2. CASE ClientStep(s)
    BY <1>3, <1>5, <1>6, <2>2, JoinEnters DEF ClientStep
  <2>3. CASE ServerStep(s)
    BY <1>4, <1>7, <2>3, ResumeGoesOn DEF ServerStep
  <2> QED
    BY <2>1, <2>2, <2>3
<1>10. CASE ApplicationStep
  BY <1>1, <1>8, <1>10, CreateOpens, SnapshotExpiresService, ClosingCloses DEF ApplicationStep
<1>11. CASE WorkerStep
  <2>1. CASE WorkerRunsAuto
    BY <2>1, ClosingCloses
  <2>2. CASE ~ WorkerRunsAuto
    <3>1. SameThreads(wait') /\ UNCHANGED <<obj, rid, disposing, members, serverVars, threadVars>>
      BY <1>1, <1>11, <2>2, WorkerThreads DEF WorkerStep
    <3> QED
      BY <1>2, <3>1 DEF serverVars, threadVars
  <2> QED
    BY <2>1, <2>2
<1>12. CASE UNCHANGED vars
  <2>1. SameThreads(wait') /\ UNCHANGED <<roomVars, serverVars, threadVars>>
    BY <1>1, <1>12 DEF vars, SameThreads
  <2> QED
    BY <1>2, <2>1 DEF roomVars, serverVars, threadVars
<1> QED
  BY <1>9, <1>10, <1>11, <1>12 DEF Next

(* Whatever the threads, hooks, timers and suspended handlers do, clients  *)
(* see rooms that are opened, entered, left and closed as RoomService has  *)
(* it: a session that leaves moves nobody else and closes no room but one  *)
(* that is empty; a thread that goes on after allow_reconnection closes    *)
(* the room that it waited in if nobody is in it, and no other; and a room *)
(* opened under a used id starts empty.                                    *)
THEOREM ServerImplementsRooms == Spec => ImplementsRoomService
<1>1. Init => Service!Init
  BY SessionsAssumption DEF Init, Service!Init, NoWait
<1>2. MembersInv /\ ExposureInv /\ [Next]_vars => [Service!Next]_(Service!vars)
  BY ServiceSteps
<1> QED
  BY <1>1, <1>2, MembersInvInvariant, ExposureInvInvariant, PTL
     DEF Spec, ImplementsRoomService, Service!Spec

===============================================================================
