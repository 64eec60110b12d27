----------------------------- MODULE ClientLibProofs ----------------------------
(***************************************************************************)
(* Proofs about ClientLib: what a client believes about its rooms, and how *)
(* often it asks for them, for every set of Room objects and ids and every *)
(* number of connections.                                                  *)
(***************************************************************************)
EXTENDS ClientLib, FiniteSetTheorems, TLAPS

-------------------------------------------------------------------------------
(***************************************************************************)
(* The invariants.                                                         *)
(***************************************************************************)

JoinFrame(i) == [kind |-> "joinRoom", id |-> i]

(* Frames under way: joinRoom to the server, news of room i to the client. *)
Asking(i) == \E k \in 1 .. Len(outbound) : outbound[k] = JoinFrame(i)

IsNews(frame, i) == frame.kind \in {"joinedRoom", "removedFromRoom"} /\ frame.id = i
News(i) == {k \in 1 .. Len(inbound) : IsNews(inbound[k], i)}

(* The manager's place and the connection: nothing is under way, nor is    *)
(* the client in a room, unless ws_ is set and the connection is up; and   *)
(* clientIdSet comes first and once.                                       *)
PhaseInv ==
  /\ ws = (mgr = "receiving")
  /\ link # "down" => mgr \in {"install", "receiving"}
  /\ ~ws \/ link # "up" => outbound = <<>> /\ \A i \in Ids : members[i] = 0
  /\ greeted => ws
  /\ ~greeted => joining = NoJoin /\ todo = {}
  /\ mgr \in {"install", "receiving"} /\ ~greeted => inbound # <<>> /\ inbound[1].kind = "clientIdSet"
  /\ \A k \in 1 .. Len(inbound) : inbound[k].kind = "clientIdSet" => k = 1 /\ ~greeted

(* The Room objects: when they have an id, and who is busy with them.      *)
ObjectInv ==
  /\ \A o \in Objs : call[o] \in {"new", "creating", "create"} => idOf[o] = NoId
  /\ \A o \in Objs : call[o] \in Steps => idOf[o] \in Ids
  /\ \A o \in Objs : joined[o] => idOf[o] \in Ids
  /\ \A i \in Ids : handler[i] # NoObj => idOf[handler[i]] = i
  /\ \A o \in rooms : idOf[o] \in Ids /\ call[o] = "done"
  /\ \A o, p \in rooms : idOf[o] = idOf[p] => o = p
  /\ todo \subseteq rooms
  /\ joining.obj = NoObj => joining = NoJoin
  /\ joining.obj # NoObj => /\ idOf[joining.obj] \in Ids /\ call[joining.obj] = "done"
                            /\ joining.obj \in rooms \ todo \/ todo = {}

(* At most one frame about the creation of a Room is under way, and only   *)
(* while create_room waits for it.                                         *)
Creates(frame, o) == frame.kind \in {"create", "createError"} /\ frame.obj = o
CreateFrame(o) == [kind |-> "createNewRoom", obj |-> o]

CreateOnce(o) ==
  /\ \A k \in 1 .. Len(inbound) : Creates(inbound[k], o) =>
       /\ call[o] = "create"
       /\ \A l \in 1 .. Len(inbound) : Creates(inbound[l], o) => k = l
       /\ \A l \in 1 .. Len(outbound) : outbound[l] # CreateFrame(o)
  /\ \A k, l \in 1 .. Len(outbound) :
       outbound[k] = CreateFrame(o) /\ outbound[l] = CreateFrame(o) => call[o] = "create" /\ k = l

CreateInv == \A o \in Objs : CreateOnce(o)

(* Rooms are asked for, and entered, only under the id of a Room object.   *)
UsedInv == \A i \in Ids : Asking(i) \/ members[i] > 0 => Using(i) # {}

(* Who has still to ask for room i: the manager, for the room at hand or a *)
(* room of its walk, or the only Room object of the id.                    *)
ManagerAsks(i) == joining.obj # NoObj /\ idOf[joining.obj] = i /\ joining.step # "push"
WalkAsks(i) == \E o \in todo : idOf[o] = i
CallAsks(i) == \E o \in Objs : call[o] \in {"check", "send", "sending"} /\ Using(i) = {o}

(* A room is asked for once: an entry, a frame and the one who has still   *)
(* to ask exclude each other.  Before clientIdSet nobody asks.             *)
EntryOnce(i) ==
  /\ members[i] <= 1
  /\ \A k, l \in 1 .. Len(outbound) : outbound[k] = JoinFrame(i) /\ outbound[l] = JoinFrame(i) => k = l
  /\ ~greeted => ~Asking(i) /\ members[i] = 0
  /\ members[i] > 0 => ~Asking(i)
  /\ ManagerAsks(i) \/ WalkAsks(i) \/ CallAsks(i) => ~Asking(i) /\ members[i] = 0
  /\ ~ (ManagerAsks(i) /\ WalkAsks(i))

OnceInv == \A i \in Ids \ asked : link = "up" => EntryOnce(i)

(* joined is true only if the server said so on this connection.           *)
TruthInv ==
  /\ mgr \in {"top", "handshake", "install"} => \A o \in Objs : joined[o] => o \in missed
  /\ link = "up" =>
       /\ \A o \in Objs \ missed : joined[o] => members[idOf[o]] > 0 \/ idOf[o] \in removed
       /\ \A k \in 1 .. Len(inbound) :
            inbound[k].kind = "joinedRoom" => members[inbound[k].id] > 0 \/ inbound[k].id \in removed

(* The last news of a room that is under way is right, and if there is     *)
(* none, joined is.                                                        *)
LastNews(i) ==
  News(i) # {} => \E k \in News(i) : /\ \A l \in News(i) : l <= k
                                     /\ (inbound[k].kind = "joinedRoom") = (members[i] > 0)

HandlerView(i) ==
  News(i) = {} /\ handler[i] \in Objs \ missed =>
    /\ joined[handler[i]] => members[i] > 0
    /\ members[i] > 0 /\ call[handler[i]] \notin {"check", "send", "sending"} => joined[handler[i]]

ViewInv == \A i \in Ids \ asked : link = "up" => LastNews(i) /\ HandlerView(i)

(* A room that has been asked for is entered, or about to be, unless it    *)
(* refuses or removes the client.                                          *)
Asked(o) == \/ o \in rooms \ todo /\ joining.obj # o
            \/ call[o] = "push"
            \/ joining.obj = o /\ joining.step = "push"

RejoinInv ==
  link = "up" /\ greeted =>
    \A o \in Objs \ missed : Asked(o) /\ idOf[o] \notin removed \cup refused
                               => members[idOf[o]] > 0 \/ Asking(idOf[o])

(* Steps that only take mutex_, or begin something: no invariant sees them.*)
Quiet ==
  \/ \E o \in Objs : CreateRoom(o) \/ CallLocks(o)
  \/ ManagerLocks
  \/ DisconnectLocks

ClientInv ==
  TypeOK /\ PhaseInv /\ ObjectInv /\ CreateInv /\ UsedInv /\ OnceInv /\ TruthInv /\ ViewInv /\ RejoinInv

-------------------------------------------------------------------------------
(***************************************************************************)
(* Sequences of frames, and what a frame is.                               *)
(***************************************************************************)

(* Append leaves every position alone and adds one.                        *)
LEMMA AppendPositions ==
  ASSUME NEW S, NEW s \in Seq(S), NEW e \in S
  PROVE  /\ Append(s, e) \in Seq(S)
         /\ Len(Append(s, e)) = Len(s) + 1
         /\ Len(s) \in Nat
         /\ \A k \in 1 .. Len(s) : Append(s, e)[k] = s[k]
         /\ Append(s, e)[Len(s) + 1] = e
         /\ Append(s, e) # <<>>
OBVIOUS

(* Tail drops the first position.                                          *)
LEMMA TailPositions ==
  ASSUME NEW S, NEW s \in Seq(S), s # <<>>
  PROVE  /\ Tail(s) \in Seq(S)
         /\ Len(Tail(s)) = Len(s) - 1
         /\ Len(s) \in Nat \ {0}
         /\ Head(s) = s[1]
         /\ Head(s) \in S
         /\ \A k \in 1 .. Len(Tail(s)) : k + 1 \in 1 .. Len(s) /\ Tail(s)[k] = s[k + 1]
OBVIOUS

(* Frames of the client, by kind.                                          *)
LEMMA ClientFrames ==
  /\ \A frame \in FromClient :
       \/ \E i \in Ids : frame = JoinFrame(i)
       \/ \E o \in Objs : frame = CreateFrame(o)
  /\ \A i \in Ids : JoinFrame(i) \in FromClient /\ JoinFrame(i).kind = "joinRoom" /\ JoinFrame(i).id = i
  /\ \A o \in Objs : /\ CreateFrame(o) \in FromClient
                     /\ CreateFrame(o).kind = "createNewRoom"
                     /\ CreateFrame(o).obj = o
  /\ \A i, j \in Ids : JoinFrame(i) = JoinFrame(j) => i = j
  /\ \A o, p \in Objs : CreateFrame(o) = CreateFrame(p) => o = p
  /\ \A i \in Ids, o \in Objs : JoinFrame(i) # CreateFrame(o)
<1>1. ASSUME NEW frame \in FromClient
      PROVE  \/ \E i \in Ids : frame = JoinFrame(i)
             \/ \E o \in Objs : frame = CreateFrame(o)
  BY <1>1 DEF FromClient, JoinFrame, CreateFrame
<1>2. ASSUME NEW i \in Ids
      PROVE  JoinFrame(i) \in FromClient /\ JoinFrame(i).kind = "joinRoom" /\ JoinFrame(i).id = i
  BY DEF FromClient, JoinFrame
<1>3. ASSUME NEW o \in Objs
      PROVE  /\ CreateFrame(o) \in FromClient
             /\ CreateFrame(o).kind = "createNewRoom"
             /\ CreateFrame(o).obj = o
  BY DEF FromClient, CreateFrame
<1>4. \A i, j \in Ids : JoinFrame(i) = JoinFrame(j) => i = j
  BY <1>2
<1>5. \A o, p \in Objs : CreateFrame(o) = CreateFrame(p) => o = p
  BY <1>3
<1>6. \A i \in Ids, o \in Objs : JoinFrame(i) # CreateFrame(o)
  BY <1>2, <1>3
<1> QED
  BY <1>1, <1>2, <1>3, <1>4, <1>5, <1>6

(* Frames of the server, by kind.                                          *)
LEMMA ServerFrames ==
  /\ \A frame \in FromServer :
       /\ frame.kind \in {"clientIdSet", "joinedRoom", "removedFromRoom", "error", "create", "createError"}
       /\ frame.kind \in {"joinedRoom", "removedFromRoom", "error", "create"} => frame.id \in Ids
       /\ frame.kind \in {"create", "createError"} => frame.obj \in Objs
  /\ [kind |-> "clientIdSet"] \in FromServer
  /\ \A i \in Ids, kind \in {"joinedRoom", "removedFromRoom", "error"} : [kind |-> kind, id |-> i] \in FromServer
  /\ \A i \in Ids, o \in Objs : [kind |-> "create", obj |-> o, id |-> i] \in FromServer
  /\ \A o \in Objs : [kind |-> "createError", obj |-> o] \in FromServer
BY DEF FromServer

(* The answers of the server, one by one.                                  *)
AnswersJoin(i) ==
  /\ Head(outbound) = JoinFrame(i)
  /\ members' = [members EXCEPT ![i] = @ + 1]
  /\ inbound' = Append(inbound, [kind |-> "joinedRoom", id |-> i])
  /\ refused' = refused

AnswersError(i) ==
  /\ Head(outbound) = JoinFrame(i)
  /\ inbound' = Append(inbound, [kind |-> "error", id |-> i])
  /\ refused' = refused \cup {i}
  /\ members' = members

AnswersCreate(o, i) ==
  /\ Head(outbound) = CreateFrame(o)
  /\ inbound' = Append(inbound, [kind |-> "create", obj |-> o, id |-> i])
  /\ members' = members /\ refused' = refused

AnswersCreateError(o) ==
  /\ Head(outbound) = CreateFrame(o)
  /\ inbound' = Append(inbound, [kind |-> "createError", obj |-> o])
  /\ members' = members /\ refused' = refused

LEMMA ServerAnswersCases ==
  ASSUME TypeOK, ServerAnswers
  PROVE  /\ link = "up"
         /\ outbound # <<>>
         /\ outbound' = Tail(outbound)
         /\ UNCHANGED <<running, appVars, clientVars, managerVars, link, connections, greeted, removed, asked, missed>>
         /\ \/ \E i \in Ids : AnswersJoin(i) \/ AnswersError(i)
            \/ \E o \in Objs, i \in Ids : AnswersCreate(o, i)
            \/ \E o \in Objs : AnswersCreateError(o)
<1>1. outbound \in Seq(FromClient)
  BY DEF TypeOK
<1>2. outbound # <<>>
  BY DEF ServerAnswers
<1>3. Head(outbound) \in FromClient
  BY <1>1, <1>2, TailPositions
<1>4. CASE \E i \in Ids : Head(outbound) = JoinFrame(i)
  <2>1. PICK i \in Ids : Head(outbound) = JoinFrame(i)
    BY <1>4
  <2>2. Head(outbound).kind = "joinRoom" /\ Head(outbound).id = i
    BY <2>1, ClientFrames
  <2>3. AnswersJoin(i) \/ AnswersError(i)
    BY <2>1, <2>2 DEF ServerAnswers, AnswersJoin, AnswersError
  <2> QED
    BY <2>3 DEF ServerAnswers
<1>5. CASE \E o \in Objs : Head(outbound) = CreateFrame(o)
  <2>1. PICK o \in Objs : Head(outbound) = CreateFrame(o)
    BY <1>5
  <2>2. Head(outbound).kind = "createNewRoom" /\ Head(outbound).obj = o
    BY <2>1, ClientFrames
  <2>3. (\E i \in Ids : AnswersCreate(o, i)) \/ AnswersCreateError(o)
    BY <2>1, <2>2 DEF ServerAnswers, AnswersCreate, AnswersCreateError
  <2> QED
    BY <2>3 DEF ServerAnswers
<1> QED
  BY <1>3, <1>4, <1>5, ClientFrames

(* The frame at hand, by kind.                                             *)
LEMMA HandleCases ==
  ASSUME TypeOK, HandleWsPayload
  PROVE  /\ ManagerIdle
         /\ inbound # <<>>
         /\ inbound' = Tail(inbound)
         /\ Head(inbound) \in FromServer
         /\ UNCHANGED <<running, stopper, mgr, ws, members, link, outbound, connections>>
         /\ \/ HandleClientIdSet(Head(inbound))
            \/ HandleCreate(Head(inbound))
            \/ HandleError(Head(inbound))
            \/ HandleRoomFrame(Head(inbound))
<1>1. inbound \in Seq(FromServer)
  BY DEF TypeOK
<1>2. inbound # <<>>
  BY DEF HandleWsPayload
<1>3. Head(inbound) \in FromServer
  BY <1>1, <1>2, TailPositions
<1> QED
  BY <1>3 DEF HandleWsPayload

(* A frame sent, or dropped.                                               *)
LEMMA SendCases ==
  ASSUME TypeOK, NEW frame \in FromClient, SendFrame(frame)
  PROVE  /\ outbound' \in Seq(FromClient)
         /\ ws /\ link = "up" => outbound' = Append(outbound, frame)
         /\ ~ (ws /\ link = "up") => outbound' = outbound
<1>1. outbound \in Seq(FromClient)
  BY DEF TypeOK
<1>2. Append(outbound, frame) \in Seq(FromClient)
  BY <1>1, AppendPositions
<1> QED
  BY <1>1, <1>2 DEF SendFrame

-------------------------------------------------------------------------------
(***************************************************************************)
(* The types.                                                              *)
(***************************************************************************)

LEMMA TypeInit == ASSUME Init PROVE TypeOK
<1>1. inbound \in Seq(FromServer) /\ outbound \in Seq(FromClient)
  BY DEF Init
<1>2. connections \in 0 .. MaxConnections
  BY ConnectionsAssumption DEF Init
<1>3. joining \in [obj : Objs \cup {NoObj}, step : Steps]
  BY DEF Init, NoJoin, Steps
<1>4. members \in [Ids -> Nat]
  BY DEF Init
<1> QED
  BY <1>1, <1>2, <1>3, <1>4 DEF Init, TypeOK

(* Every step keeps the types (an id is needed for a frame that names it).  *)
LEMMA TypeStep ==
  ASSUME TypeOK, ObjectInv, [Next]_vars, ~Quiet
  PROVE  TypeOK'
<1>1. ASSUME NEW o \in Objs, NEW i \in Ids, JoinRoom(o, i)
      PROVE  TypeOK'
  BY <1>1 DEF JoinRoom, IsNextRoom, TypeOK, Steps, appVars, clientVars, managerVars, linkVars, historyVars
<1>2. ASSUME NEW o \in Objs, CreateSends(o)
      PROVE  TypeOK'
  <2>1. CreateFrame(o) \in FromClient
    BY ClientFrames
  <2>2. outbound' \in Seq(FromClient)
    BY <1>2, <2>1, SendCases DEF CreateSends, CreateFrame
  <2> QED
    BY <1>2, <2>2 DEF CreateSends, TypeOK, appVars, clientVars, managerVars, linkVars, historyVars
<1>3. ASSUME NEW o \in Objs, CallChecks(o)
      PROVE  TypeOK'
  BY <1>3 DEF CallChecks, AfterCheck, TypeOK, Steps, appVars, clientVars, managerVars, linkVars, historyVars
<1>4. ASSUME NEW o \in Objs, CallSends(o)
      PROVE  TypeOK'
  <2>1. idOf[o] \in Ids
    BY <1>4 DEF CallSends, ObjectInv, Steps
  <2>2. JoinFrame(idOf[o]) \in FromClient
    BY <2>1, ClientFrames
  <2>3. outbound' \in Seq(FromClient)
    BY <1>4, <2>2, SendCases DEF CallSends, JoinFrame
  <2>4. asked' \subseteq Ids
    BY <1>4, <2>1 DEF CallSends, TypeOK
  <2> QED
    BY <1>4, <2>3, <2>4 DEF CallSends, TypeOK, Steps, appVars, clientVars, managerVars, linkVars, historyVars
<1>5. ASSUME NEW o \in Objs, CallPushes(o)
      PROVE  TypeOK'
  BY <1>5 DEF CallPushes, Push, TypeOK, Steps, appVars, clientVars, managerVars, linkVars, historyVars
<1>6. ASSUME DisconnectBegins
      PROVE  TypeOK'
  BY <1>6 DEF DisconnectBegins, TypeOK, Steps, appVars, clientVars, managerVars, linkVars, historyVars
<1>7. ASSUME DisconnectCloses
      PROVE  TypeOK'
  <2>1. outbound' \in Seq(FromClient)
    BY <1>7 DEF DisconnectCloses, TypeOK
  <2>2. members' \in [Ids -> Nat]
    BY <1>7 DEF DisconnectCloses, TypeOK
  <2>3. link' \in {"down", "up", "dead"}
    BY <1>7 DEF DisconnectCloses, Closed, TypeOK
  <2> QED
    BY <1>7, <2>1, <2>2, <2>3 DEF DisconnectCloses, TypeOK, appVars, clientVars, managerVars, linkVars, historyVars
<1>8. ASSUME DisconnectJoins
      PROVE  TypeOK'
  BY <1>8 DEF DisconnectJoins, TypeOK, Steps, appVars, clientVars, managerVars, linkVars, historyVars
<1>9. ASSUME LoopBegins
      PROVE  TypeOK'
  BY <1>9 DEF LoopBegins, TypeOK, Steps, appVars, clientVars, managerVars, linkVars, historyVars
<1>10. ASSUME HandshakeFails
      PROVE  TypeOK'
  BY <1>10 DEF HandshakeFails, TypeOK, Steps, appVars, clientVars, managerVars, linkVars, historyVars
<1>11. ASSUME HandshakeSucceeds
      PROVE  TypeOK'
  <2>1. inbound' \in Seq(FromServer)
    BY <1>11, ServerFrames DEF HandshakeSucceeds
  <2>2. connections' \in 0 .. MaxConnections
    BY <1>11, ConnectionsAssumption DEF HandshakeSucceeds, TypeOK
  <2> QED
    BY <1>11, <2>1, <2>2 DEF HandshakeSucceeds, TypeOK, appVars, clientVars, managerVars, linkVars, historyVars
<1>12. ASSUME Install
      PROVE  TypeOK'
  <2>1. link' \in {"down", "up", "dead"}
    BY <1>12 DEF Install, LinkAfterInstall, Closed, TypeOK
  <2>2. members' \in [Ids -> Nat]
    BY <1>12 DEF Install, TypeOK
  <2> QED
    BY <1>12, <2>1, <2>2 DEF Install, TypeOK, appVars, clientVars, managerVars, linkVars, historyVars
<1>13. ASSUME HandleWsPayload
      PROVE  TypeOK'
  <2> DEFINE frame == Head(inbound)
  <2>1. /\ frame \in FromServer
        /\ UNCHANGED <<running, stopper, mgr, ws, members, link, outbound, connections>>
        /\ \/ HandleClientIdSet(frame)
           \/ HandleCreate(frame)
           \/ HandleError(frame)
           \/ HandleRoomFrame(frame)
    BY <1>13, HandleCases
  <2>2. inbound' \in Seq(FromServer)
    <3>1. inbound \in Seq(FromServer)
      BY DEF TypeOK
    <3> QED
      BY <1>13, <3>1, HandleCases, TailPositions
  <2>3. /\ frame.kind \in {"joinedRoom", "removedFromRoom", "error", "create"} => frame.id \in Ids
        /\ frame.kind \in {"create", "createError"} => frame.obj \in Objs
    BY <2>1, ServerFrames
  <2> HIDE DEF frame
  <2>4. CASE HandleClientIdSet(frame)
    BY <2>1, <2>2, <2>4 DEF HandleClientIdSet, RoomsSnapshot, TypeOK, Steps, clientVars
  <2>5. CASE HandleCreate(frame)
    BY <2>1, <2>2, <2>3, <2>5 DEF HandleCreate, TypeOK, Steps
  <2>6. CASE HandleError(frame)
    BY <2>1, <2>2, <2>3, <2>6 DEF HandleError, TypeOK, Steps, clientVars, historyVars
  <2>7. CASE HandleRoomFrame(frame)
    BY <2>1, <2>2, <2>7 DEF HandleRoomFrame, TypeOK, Steps, historyVars
  <2> QED
    BY <2>1, <2>4, <2>5, <2>6, <2>7
<1>14. ASSUME NEW o \in Objs, ManagerRejoins(o)
      PROVE  TypeOK'
  BY <1>14 DEF ManagerRejoins, TypeOK, Steps, appVars, clientVars, managerVars, linkVars, historyVars
<1>15. ASSUME ManagerChecks
      PROVE  TypeOK'
  BY <1>15 DEF ManagerChecks, AfterCheck, TypeOK, Steps, appVars, clientVars, managerVars, linkVars, historyVars
<1>16. ASSUME ManagerSends
      PROVE  TypeOK'
  <2>1. idOf[joining.obj] \in Ids
    BY <1>16 DEF ManagerSends, ObjectInv, NoJoin
  <2>2. JoinFrame(idOf[joining.obj]) \in FromClient
    BY <2>1, ClientFrames
  <2>3. outbound' \in Seq(FromClient)
    BY <1>16, <2>2, SendCases DEF ManagerSends, JoinFrame
  <2>4. joining' \in [obj : Objs \cup {NoObj}, step : Steps]
    BY <1>16 DEF ManagerSends, TypeOK, Steps
  <2> QED
    BY <1>16, <2>3, <2>4 DEF ManagerSends, TypeOK, appVars, clientVars, managerVars, linkVars, historyVars
<1>17. ASSUME ManagerPushes
      PROVE  TypeOK'
  <2>1. joining.obj \in Objs
    BY <1>17 DEF ManagerPushes, ObjectInv, NoJoin, TypeOK
  <2>2. rooms' \subseteq Objs
    BY <1>17, <2>1 DEF ManagerPushes, Push, TypeOK
  <2>3. joining' \in [obj : Objs \cup {NoObj}, step : Steps]
    BY <1>17 DEF ManagerPushes, NoJoin, Steps
  <2> QED
    BY <1>17, <2>2, <2>3 DEF ManagerPushes, TypeOK, appVars, clientVars, managerVars, linkVars, historyVars
<1>18. ASSUME RecvLoopEnds
      PROVE  TypeOK'
  <2>1. inbound' \in Seq(FromServer)
    BY <1>18 DEF RecvLoopEnds
  <2> QED
    BY <1>18, <2>1 DEF RecvLoopEnds, TypeOK, appVars, clientVars, managerVars, linkVars, historyVars
<1>19. ASSUME LoopEnds
      PROVE  TypeOK'
  BY <1>19 DEF LoopEnds, JoinedAfterLoss, TypeOK, Steps, appVars, clientVars, managerVars, linkVars, historyVars
<1>20. ASSUME ServerAnswers
      PROVE  TypeOK'
  <2>1. /\ outbound # <<>>
        /\ outbound' = Tail(outbound)
        /\ UNCHANGED <<running, appVars, clientVars, managerVars, link, connections, greeted, removed, asked, missed>>
        /\ \/ \E i \in Ids : AnswersJoin(i) \/ AnswersError(i)
           \/ \E o \in Objs, i \in Ids : AnswersCreate(o, i)
           \/ \E o \in Objs : AnswersCreateError(o)
    BY <1>20, ServerAnswersCases
  <2>2. outbound' \in Seq(FromClient)
    BY <2>1, TailPositions DEF TypeOK
  <2>3. inbound' \in Seq(FromServer)
    <3>1. inbound \in Seq(FromServer)
      BY DEF TypeOK
    <3>2. PICK frame \in FromServer : inbound' = Append(inbound, frame)
      BY <2>1, ServerFrames DEF AnswersJoin, AnswersError, AnswersCreate, AnswersCreateError
    <3> QED
      BY <3>1, <3>2, AppendPositions
  <2>4. members' \in [Ids -> Nat] /\ refused' \subseteq Ids
    <3>1. ASSUME NEW i \in Ids, AnswersJoin(i)
          PROVE  members' \in [Ids -> Nat] /\ refused' \subseteq Ids
      BY <3>1 DEF AnswersJoin, TypeOK
    <3>2. ASSUME NEW i \in Ids, AnswersError(i) \/ \E o \in Objs : AnswersCreate(o, i)
          PROVE  members' \in [Ids -> Nat] /\ refused' \subseteq Ids
      BY <3>2 DEF AnswersError, AnswersCreate, TypeOK
    <3>3. ASSUME NEW o \in Objs, AnswersCreateError(o)
          PROVE  members' \in [Ids -> Nat] /\ refused' \subseteq Ids
      BY <3>3 DEF AnswersCreateError, TypeOK
    <3> QED
      BY <2>1, <3>1, <3>2, <3>3
  <2> QED
    BY <2>1, <2>2, <2>3, <2>4 DEF TypeOK, appVars, clientVars, managerVars
<1>21. ASSUME NEW i \in Ids, ServerRemoves(i)
      PROVE  TypeOK'
  <2>1. inbound' \in Seq(FromServer)
    <3>1. inbound \in Seq(FromServer) /\ [kind |-> "removedFromRoom", id |-> i] \in FromServer
      BY ServerFrames DEF TypeOK
    <3> QED
      BY <1>21, <3>1, AppendPositions DEF ServerRemoves
  <2>2. members' \in [Ids -> Nat]
    BY <1>21 DEF ServerRemoves, TypeOK
  <2> QED
    BY <1>21, <2>1, <2>2 DEF ServerRemoves, TypeOK, appVars, clientVars, managerVars, linkVars, historyVars
<1>22. ASSUME ConnectionDies
      PROVE  TypeOK'
  <2>1. outbound' \in Seq(FromClient) /\ members' \in [Ids -> Nat]
    BY <1>22 DEF ConnectionDies
  <2> QED
    BY <1>22, <2>1 DEF ConnectionDies, TypeOK, appVars, clientVars, managerVars, linkVars, historyVars
<1>23. CASE UNCHANGED vars
  BY <1>23 DEF TypeOK, vars, appVars, clientVars, managerVars, linkVars, historyVars
<1> QED
  BY <1>1, <1>2, <1>3, <1>4, <1>5, <1>6, <1>7, <1>8, <1>9, <1>10, <1>11,
     <1>12, <1>13, <1>14, <1>15, <1>16, <1>17, <1>18, <1>19, <1>20, <1>21,
     <1>22, <1>23
  DEF Next, CallStep, ManagerStep, ServerStep, Quiet

-------------------------------------------------------------------------------
(***************************************************************************)
(* The manager's place and the connection.                                 *)
(***************************************************************************)

LEMMA PhaseInit == ASSUME Init PROVE PhaseInv
<1>1. \A k \in 1 .. Len(inbound) : FALSE
  BY DEF Init
<1> QED
  BY <1>1 DEF Init, PhaseInv, NoJoin

LEMMA PhaseStep ==
  ASSUME TypeOK, PhaseInv, [Next]_vars, ~Quiet
  PROVE  PhaseInv'
<1>1. ASSUME \/ \E o \in Objs : \E i \in Ids : JoinRoom(o, i)
             \/ \E o \in Objs : CallChecks(o)
             \/ \E o \in Objs : CallPushes(o)
             \/ DisconnectBegins
             \/ DisconnectJoins
      PROVE  PhaseInv'
  BY <1>1
     DEF JoinRoom, CallChecks, CallPushes, DisconnectBegins, DisconnectJoins, PhaseInv,
         appVars, clientVars, managerVars, linkVars, historyVars
<1>2. ASSUME NEW o \in Objs, CreateSends(o)
      PROVE  PhaseInv'
  BY <1>2 DEF CreateSends, SendFrame, PhaseInv, appVars, clientVars, managerVars, linkVars, historyVars
<1>3. ASSUME NEW o \in Objs, CallSends(o)
      PROVE  PhaseInv'
  BY <1>3 DEF CallSends, SendFrame, PhaseInv, appVars, clientVars, managerVars, linkVars, historyVars
<1>4. ASSUME DisconnectCloses
      PROVE  PhaseInv'
  BY <1>4 DEF DisconnectCloses, Closed, PhaseInv, TypeOK, appVars, clientVars, managerVars, linkVars, historyVars
<1>5. ASSUME LoopBegins
      PROVE  PhaseInv'
  BY <1>5 DEF LoopBegins, PhaseInv, appVars, clientVars, managerVars, linkVars, historyVars
<1>6. ASSUME HandshakeFails
      PROVE  PhaseInv'
  BY <1>6 DEF HandshakeFails, PhaseInv, appVars, clientVars, managerVars, linkVars, historyVars
<1>7. ASSUME HandshakeSucceeds
      PROVE  PhaseInv'
  <2>1. Len(inbound') = 1 /\ inbound' # <<>> /\ inbound'[1].kind = "clientIdSet"
    BY <1>7 DEF HandshakeSucceeds
  <2>2. /\ mgr = "handshake" /\ mgr' = "install" /\ ~ws /\ ~greeted
        /\ UNCHANGED <<ws, todo, joining, members, outbound, greeted>>
    BY <1>7 DEF HandshakeSucceeds, PhaseInv, historyVars
  <2> QED
    BY <2>1, <2>2 DEF PhaseInv
<1>8. ASSUME Install
      PROVE  PhaseInv'
  BY <1>8 DEF Install, LinkAfterInstall, Closed, PhaseInv, TypeOK, appVars, clientVars, managerVars, linkVars, historyVars
<1>9. ASSUME HandleWsPayload
      PROVE  PhaseInv'
  <2> DEFINE frame == Head(inbound)
  <2>1. /\ ManagerIdle
        /\ inbound' = Tail(inbound)
        /\ UNCHANGED <<running, stopper, mgr, ws, members, link, outbound, connections>>
        /\ \/ HandleClientIdSet(frame)
           \/ HandleCreate(frame)
           \/ HandleError(frame)
           \/ HandleRoomFrame(frame)
    BY <1>9, HandleCases
  <2>2. /\ Len(inbound') = Len(inbound) - 1
        /\ Len(inbound) \in Nat \ {0}
        /\ inbound[1] = frame
        /\ \A k \in 1 .. Len(inbound') : k + 1 \in 1 .. Len(inbound) /\ inbound'[k] = inbound[k + 1]
    BY <1>9, HandleCases, TailPositions DEF TypeOK
  <2> HIDE DEF frame
  <2>3. mgr = "receiving" /\ joining = NoJoin /\ todo = {} /\ ws
    BY <2>1 DEF ManagerIdle, PhaseInv
  <2>4. greeted' /\ (greeted \/ HandleClientIdSet(frame))
    <3>1. CASE greeted
      BY <2>1, <3>1 DEF HandleClientIdSet, HandleCreate, HandleError, HandleRoomFrame, historyVars
    <3>2. CASE ~greeted
      <4>1. frame.kind = "clientIdSet"
        BY <2>2, <2>3, <3>2 DEF PhaseInv
      <4> QED
        BY <2>1, <4>1 DEF HandleClientIdSet, HandleCreate, HandleError, HandleRoomFrame
    <3> QED
      BY <3>1, <3>2
  <2>5. \A k \in 1 .. Len(inbound') : inbound'[k].kind # "clientIdSet"
    BY <2>2 DEF PhaseInv
  <2>6. UNCHANGED <<mgr, ws, link, outbound, members>>
    BY <2>1
  <2> QED
    BY <2>3, <2>4, <2>5, <2>6 DEF PhaseInv
<1>10. ASSUME NEW o \in Objs, ManagerRejoins(o)
      PROVE  PhaseInv'
  BY <1>10 DEF ManagerRejoins, NoJoin, PhaseInv, TypeOK, appVars, clientVars, managerVars, linkVars, historyVars
<1>11. ASSUME ManagerChecks
      PROVE  PhaseInv'
  BY <1>11 DEF ManagerChecks, PhaseInv, appVars, clientVars, managerVars, linkVars, historyVars
<1>12. ASSUME ManagerSends
      PROVE  PhaseInv'
  <2>1. joining # NoJoin
    BY <1>12 DEF ManagerSends, NoJoin
  <2> QED
    BY <1>12, <2>1 DEF ManagerSends, SendFrame, PhaseInv, appVars, clientVars, managerVars, linkVars, historyVars
<1>13. ASSUME ManagerPushes
      PROVE  PhaseInv'
  BY <1>13 DEF ManagerPushes, PhaseInv, appVars, clientVars, managerVars, linkVars, historyVars
<1>14. ASSUME RecvLoopEnds
      PROVE  PhaseInv'
  <2>1. \A k \in 1 .. Len(inbound') : FALSE
    BY <1>14 DEF RecvLoopEnds
  <2>2. link = "dead" /\ joining = NoJoin /\ todo = {}
    BY <1>14 DEF RecvLoopEnds, ManagerIdle
  <2>3. outbound = <<>> /\ \A i \in Ids : members[i] = 0
    BY <2>2 DEF PhaseInv
  <2>4. ws' = FALSE /\ link' = "down" /\ mgr' = "lost" /\ greeted' = FALSE /\ UNCHANGED <<todo, joining, members, outbound>>
    BY <1>14 DEF RecvLoopEnds
  <2> QED
    BY <2>1, <2>2, <2>3, <2>4 DEF PhaseInv
<1>15. ASSUME LoopEnds
      PROVE  PhaseInv'
  BY <1>15 DEF LoopEnds, PhaseInv, appVars, clientVars, managerVars, linkVars, historyVars
<1>16. ASSUME ServerAnswers
      PROVE  PhaseInv'
  <2>1. /\ link = "up"
        /\ outbound # <<>>
        /\ UNCHANGED <<mgr, ws, todo, joining, link, greeted>>
        /\ \/ \E i \in Ids : AnswersJoin(i) \/ AnswersError(i)
           \/ \E o \in Objs, i \in Ids : AnswersCreate(o, i)
           \/ \E o \in Objs : AnswersCreateError(o)
    BY <1>16, ServerAnswersCases DEF managerVars
  <2>2. PICK frame \in FromServer : inbound' = Append(inbound, frame) /\ frame.kind # "clientIdSet"
    BY <2>1, ServerFrames DEF AnswersJoin, AnswersError, AnswersCreate, AnswersCreateError
  <2>3. /\ Len(inbound') = Len(inbound) + 1
        /\ Len(inbound) \in Nat
        /\ \A k \in 1 .. Len(inbound) : inbound'[k] = inbound[k]
        /\ inbound'[Len(inbound) + 1] = frame
        /\ inbound' # <<>>
    BY <2>2, AppendPositions DEF TypeOK
  <2>4. inbound # <<>> => Len(inbound) # 0
    BY DEF TypeOK
  <2> QED
    BY <2>1, <2>2, <2>3, <2>4 DEF PhaseInv
<1>17. ASSUME NEW i \in Ids, ServerRemoves(i)
      PROVE  PhaseInv'
  <2>1. link = "up" /\ members[i] > 0 /\ UNCHANGED <<mgr, ws, todo, joining, link, greeted, outbound>>
    BY <1>17 DEF ServerRemoves, managerVars
  <2>2. ws
    BY <2>1 DEF PhaseInv
  <2> DEFINE frame == [kind |-> "removedFromRoom", id |-> i]
  <2>3. frame \in FromServer /\ frame.kind # "clientIdSet"
    BY ServerFrames
  <2>4. inbound' = Append(inbound, frame)
    BY <1>17 DEF ServerRemoves
  <2> HIDE DEF frame
  <2>5. /\ Len(inbound') = Len(inbound) + 1
        /\ Len(inbound) \in Nat
        /\ \A k \in 1 .. Len(inbound) : inbound'[k] = inbound[k]
        /\ inbound'[Len(inbound) + 1] = frame
        /\ inbound' # <<>>
    BY <2>3, <2>4, AppendPositions DEF TypeOK
  <2>6. inbound # <<>> => Len(inbound) # 0
    BY DEF TypeOK
  <2> QED
    BY <2>1, <2>2, <2>3, <2>5, <2>6 DEF PhaseInv
<1>18. ASSUME ConnectionDies
      PROVE  PhaseInv'
  BY <1>18 DEF ConnectionDies, PhaseInv, appVars, clientVars, managerVars, linkVars, historyVars
<1>19. CASE UNCHANGED vars
  BY <1>19 DEF PhaseInv, vars, appVars, clientVars, managerVars, linkVars, historyVars
<1> QED
  BY <1>1, <1>2, <1>3, <1>4, <1>5, <1>6, <1>7, <1>8, <1>9, <1>10, <1>11,
     <1>12, <1>13, <1>14, <1>15, <1>16, <1>17, <1>18, <1>19
  DEF Next, CallStep, ManagerStep, ServerStep, Quiet

-------------------------------------------------------------------------------
(***************************************************************************)
(* What a step does to the frames under way.                               *)
(***************************************************************************)

InboundGrows(frame) ==
  /\ Len(inbound) \in Nat
  /\ Len(inbound') = Len(inbound) + 1
  /\ \A k \in 1 .. Len(inbound) : inbound'[k] = inbound[k]
  /\ inbound'[Len(inbound) + 1] = frame

InboundPops ==
  /\ Len(inbound) \in Nat \ {0}
  /\ Len(inbound') = Len(inbound) - 1
  /\ inbound[1] = Head(inbound)
  /\ \A k \in 1 .. Len(inbound') : k + 1 \in 1 .. Len(inbound) /\ inbound'[k] = inbound[k + 1]

OutboundGrows(frame) ==
  /\ Len(outbound) \in Nat
  /\ Len(outbound') = Len(outbound) + 1
  /\ \A k \in 1 .. Len(outbound) : outbound'[k] = outbound[k]
  /\ outbound'[Len(outbound) + 1] = frame

OutboundPops ==
  /\ Len(outbound) \in Nat \ {0}
  /\ Len(outbound') = Len(outbound) - 1
  /\ outbound[1] = Head(outbound)
  /\ \A k \in 1 .. Len(outbound') : k + 1 \in 1 .. Len(outbound) /\ outbound'[k] = outbound[k + 1]

LEMMA InboundGrowth ==
  ASSUME TypeOK, NEW frame \in FromServer, inbound' = Append(inbound, frame)
  PROVE  InboundGrows(frame)
<1>1. inbound \in Seq(FromServer)
  BY DEF TypeOK
<1> QED
  BY <1>1, AppendPositions DEF InboundGrows

LEMMA InboundPopping ==
  ASSUME TypeOK, inbound # <<>>, inbound' = Tail(inbound)
  PROVE  InboundPops
<1>1. inbound \in Seq(FromServer)
  BY DEF TypeOK
<1> QED
  BY <1>1, TailPositions DEF InboundPops

LEMMA OutboundGrowth ==
  ASSUME TypeOK, NEW frame \in FromClient, SendFrame(frame)
  PROVE  IF ws /\ link = "up" THEN OutboundGrows(frame) ELSE outbound' = outbound
<1>1. outbound \in Seq(FromClient)
  BY DEF TypeOK
<1> QED
  BY <1>1, AppendPositions DEF SendFrame, OutboundGrows

LEMMA OutboundPopping ==
  ASSUME TypeOK, outbound # <<>>, outbound' = Tail(outbound)
  PROVE  OutboundPops
<1>1. outbound \in Seq(FromClient)
  BY DEF TypeOK
<1> QED
  BY <1>1, TailPositions DEF OutboundPops

(* The answers, with what they do to the frames.                           *)
LEMMA AnswerFrames ==
  ASSUME TypeOK, ServerAnswers
  PROVE  /\ OutboundPops
         /\ \A i \in Ids : AnswersJoin(i) => InboundGrows([kind |-> "joinedRoom", id |-> i])
         /\ \A i \in Ids : AnswersError(i) => InboundGrows([kind |-> "error", id |-> i])
         /\ \A o \in Objs, i \in Ids :
              AnswersCreate(o, i) => InboundGrows([kind |-> "create", obj |-> o, id |-> i])
         /\ \A o \in Objs : AnswersCreateError(o) => InboundGrows([kind |-> "createError", obj |-> o])
<1>1. OutboundPops
  BY ServerAnswersCases, OutboundPopping
<1>2. \A i \in Ids : AnswersJoin(i) => InboundGrows([kind |-> "joinedRoom", id |-> i])
  BY InboundGrowth, ServerFrames DEF AnswersJoin
<1>3. \A i \in Ids : AnswersError(i) => InboundGrows([kind |-> "error", id |-> i])
  BY InboundGrowth, ServerFrames DEF AnswersError
<1>4. \A o \in Objs, i \in Ids :
        AnswersCreate(o, i) => InboundGrows([kind |-> "create", obj |-> o, id |-> i])
  BY InboundGrowth, ServerFrames DEF AnswersCreate
<1>5. \A o \in Objs : AnswersCreateError(o) => InboundGrows([kind |-> "createError", obj |-> o])
  BY InboundGrowth, ServerFrames DEF AnswersCreateError
<1> QED
  BY <1>1, <1>2, <1>3, <1>4, <1>5

LEMMA RemovalFrames ==
  ASSUME TypeOK, NEW i \in Ids, ServerRemoves(i)
  PROVE  InboundGrows([kind |-> "removedFromRoom", id |-> i])
BY InboundGrowth, ServerFrames DEF ServerRemoves

-------------------------------------------------------------------------------
(***************************************************************************)
(* The creation of a room.                                                 *)
(***************************************************************************)

LEMMA CreateInit == ASSUME Init PROVE CreateInv
<1>1. (\A k \in 1 .. Len(inbound) : FALSE) /\ \A k \in 1 .. Len(outbound) : FALSE
  BY DEF Init
<1> QED
  BY <1>1 DEF CreateInv, CreateOnce

(* The frames about a creation that were there before, at their old        *)
(* positions or one further on.                                            *)
LEMMA CreateShrinks ==
  ASSUME NEW o \in Objs, CreateOnce(o), call'[o] = call[o], NEW m \in Nat, NEW n \in Nat,
         Len(inbound) \in Nat, Len(outbound) \in Nat, Len(inbound') \in Nat, Len(outbound') \in Nat,
         \A k \in 1 .. Len(inbound') :
           Creates(inbound'[k], o) => k + m \in 1 .. Len(inbound) /\ Creates(inbound[k + m], o),
         \A k \in 1 .. Len(outbound') :
           outbound'[k] = CreateFrame(o) => k + n \in 1 .. Len(outbound) /\ outbound[k + n] = CreateFrame(o)
  PROVE  CreateOnce(o)'
<1>1. ASSUME NEW k \in 1 .. Len(inbound'), Creates(inbound'[k], o)
      PROVE  /\ call'[o] = "create"
             /\ \A l \in 1 .. Len(inbound') : Creates(inbound'[l], o) => k = l
             /\ \A l \in 1 .. Len(outbound') : outbound'[l] # CreateFrame(o)
  <2>1. k + m \in 1 .. Len(inbound) /\ Creates(inbound[k + m], o)
    BY <1>1
  <2>2. /\ call[o] = "create"
        /\ \A l \in 1 .. Len(inbound) : Creates(inbound[l], o) => k + m = l
        /\ \A l \in 1 .. Len(outbound) : outbound[l] # CreateFrame(o)
    BY <2>1 DEF CreateOnce
  <2>3. ASSUME NEW l \in 1 .. Len(inbound'), Creates(inbound'[l], o)
        PROVE  k = l
    <3>1. k + m = l + m
      BY <2>2, <2>3
    <3> QED
      BY <3>1
  <2> QED
    BY <2>2, <2>3
<1>2. ASSUME NEW k \in 1 .. Len(outbound'), NEW l \in 1 .. Len(outbound'),
             outbound'[k] = CreateFrame(o), outbound'[l] = CreateFrame(o)
      PROVE  call'[o] = "create" /\ k = l
  <2>1. /\ k + n \in 1 .. Len(outbound) /\ outbound[k + n] = CreateFrame(o)
        /\ l + n \in 1 .. Len(outbound) /\ outbound[l + n] = CreateFrame(o)
    BY <1>2
  <2>2. call[o] = "create" /\ k + n = l + n
    BY <2>1 DEF CreateOnce
  <2> QED
    BY <2>2
<1> QED
  BY <1>1, <1>2 DEF CreateOnce, CreateFrame, Creates

(* Nothing is created by a step that sends, receives and calls nothing     *)
(* new.                                                                    *)
LEMMA CreateKept ==
  ASSUME CreateInv,
         \A o \in Objs : call[o] = "create" => call'[o] = "create",
         inbound' = inbound \/ \A k \in 1 .. Len(inbound') : inbound'[k].kind = "clientIdSet",
         outbound' = outbound \/ \A k \in 1 .. Len(outbound') : FALSE
  PROVE  CreateInv'
<1> SUFFICES ASSUME NEW o \in Objs
             PROVE  CreateOnce(o)'
  BY DEF CreateInv
<1>1. CreateOnce(o)
  BY DEF CreateInv
<1> QED
  BY <1>1 DEF CreateOnce, Creates, CreateFrame

(* A frame that is not about a creation is added.                          *)
LEMMA CreateKeptByJoin ==
  ASSUME CreateInv,
         \A o \in Objs : call[o] = "create" => call'[o] = "create",
         inbound' = inbound,
         NEW i \in Ids, OutboundGrows(JoinFrame(i))
  PROVE  CreateInv'
<1> SUFFICES ASSUME NEW o \in Objs
             PROVE  CreateOnce(o)'
  BY DEF CreateInv
<1>1. CreateOnce(o)
  BY DEF CreateInv
<1>2. \A k \in 1 .. Len(outbound') :
        outbound'[k] = CreateFrame(o) => k \in 1 .. Len(outbound) /\ outbound[k] = CreateFrame(o)
  BY ClientFrames DEF OutboundGrows
<1>3. CreateFrame(o)' = CreateFrame(o) /\ \A frame : Creates(frame, o)' = Creates(frame, o)
  BY DEF CreateFrame, Creates
<1> QED
  BY <1>1, <1>2 DEF CreateOnce, CreateFrame, Creates

LEMMA CreateKeptByNews ==
  ASSUME TypeOK, CreateInv,
         call' = call,
         NEW frame, InboundGrows(frame), frame.kind \notin {"create", "createError"},
         outbound' = outbound \/ OutboundPops
  PROVE  CreateInv'
<1> SUFFICES ASSUME NEW o \in Objs
             PROVE  CreateOnce(o)'
  BY DEF CreateInv
<1>1. CreateOnce(o)
  BY DEF CreateInv
<1>2. \A k \in 1 .. Len(inbound') :
        Creates(inbound'[k], o) => k \in 1 .. Len(inbound) /\ Creates(inbound[k], o)
  BY DEF InboundGrows, Creates
<1>3. Len(inbound) \in Nat /\ Len(inbound') \in Nat
  BY DEF InboundGrows
<1>4. \A k \in 1 .. Len(inbound') :
        Creates(inbound'[k], o) => k + 0 \in 1 .. Len(inbound) /\ Creates(inbound[k + 0], o)
  BY <1>2, <1>3
<1>5. CASE outbound' = outbound
  <2>1. Len(outbound) \in Nat
    BY DEF TypeOK
  <2>2. \A k \in 1 .. Len(outbound') :
          outbound'[k] = CreateFrame(o) => k + 0 \in 1 .. Len(outbound) /\ outbound[k + 0] = CreateFrame(o)
    BY <2>1, <1>5
  <2> QED
    BY <1>1, <1>3, <1>4, <1>5, <2>1, <2>2, CreateShrinks
<1>6. CASE OutboundPops
  <2>1. Len(outbound) \in Nat /\ Len(outbound') \in Nat
    BY <1>6 DEF OutboundPops
  <2>2. \A k \in 1 .. Len(outbound') :
          outbound'[k] = CreateFrame(o) => k + 1 \in 1 .. Len(outbound) /\ outbound[k + 1] = CreateFrame(o)
    BY <1>6 DEF OutboundPops
  <2> QED
    BY <1>1, <1>3, <1>4, <2>1, <2>2, CreateShrinks
<1> QED
  BY <1>5, <1>6

LEMMA CreateStep ==
  ASSUME TypeOK, ObjectInv, CreateInv, [Next]_vars, ~Quiet
  PROVE  CreateInv'
<1>1. ASSUME \/ DisconnectBegins
             \/ DisconnectJoins
             \/ LoopBegins
             \/ HandshakeFails
             \/ Install
             \/ \E o \in Objs : ManagerRejoins(o)
             \/ ManagerChecks
             \/ ManagerPushes
             \/ LoopEnds
      PROVE  CreateInv'
  BY <1>1, CreateKept
     DEF DisconnectBegins, DisconnectJoins, LoopBegins, HandshakeFails, Install, ManagerRejoins, ManagerChecks, ManagerPushes, LoopEnds,
         appVars, clientVars, managerVars, linkVars, historyVars
<1>2. ASSUME NEW o \in Objs, NEW i \in Ids, JoinRoom(o, i)
      PROVE  CreateInv'
  <2>1. \A p \in Objs : call[p] = "create" => call'[p] = "create"
    BY <1>2 DEF JoinRoom, IsNextRoom, TypeOK
  <2> QED
    BY <1>2, <2>1, CreateKept DEF JoinRoom, linkVars
<1>3. ASSUME NEW o \in Objs, CreateSends(o)
      PROVE  CreateInv'
  <2>1. /\ call[o] = "creating"
        /\ \A p \in Objs : call[p] = "create" => call'[p] = "create"
        /\ call'[o] = "create"
        /\ inbound' = inbound
        /\ SendFrame(CreateFrame(o))
    BY <1>3 DEF CreateSends, CreateFrame, TypeOK
  <2>2. outbound' = outbound \/ OutboundGrows(CreateFrame(o))
    BY <2>1, OutboundGrowth, ClientFrames
  <2>3. SUFFICES ASSUME NEW p \in Objs
                 PROVE  CreateOnce(p)'
    BY DEF CreateInv
  <2>4. CreateOnce(p)
    BY DEF CreateInv
  <2>5. CASE outbound' = outbound
    BY <2>1, <2>4, <2>5 DEF CreateOnce, CreateFrame, Creates
  <2>6. CASE OutboundGrows(CreateFrame(o))
    <3>1. \A k \in 1 .. Len(outbound') : outbound'[k] = CreateFrame(p) =>
            \/ k \in 1 .. Len(outbound) /\ outbound[k] = CreateFrame(p)
            \/ p = o /\ k = Len(outbound) + 1
      BY <2>6, ClientFrames DEF OutboundGrows
    <3>2. p = o => /\ \A k \in 1 .. Len(outbound) : outbound[k] # CreateFrame(p)
                   /\ \A k \in 1 .. Len(inbound) : ~Creates(inbound[k], p)
      BY <2>1, <2>4 DEF CreateOnce
    <3> QED
      BY <2>1, <2>4, <3>1, <3>2 DEF CreateOnce, CreateFrame, Creates
  <2> QED
    BY <2>2, <2>5, <2>6
<1>4. ASSUME NEW o \in Objs, CallChecks(o)
      PROVE  CreateInv'
  <2>1. \A p \in Objs : call[p] = "create" => call'[p] = "create"
    BY <1>4 DEF CallChecks, IsNextRoom, TypeOK
  <2> QED
    BY <1>4, <2>1, CreateKept DEF CallChecks, linkVars
<1>5. ASSUME NEW o \in Objs, CallSends(o)
      PROVE  CreateInv'
  <2>1. idOf[o] \in Ids
    BY <1>5 DEF CallSends, ObjectInv, Steps
  <2>2. \A p \in Objs : call[p] = "create" => call'[p] = "create"
    BY <1>5 DEF CallSends, TypeOK
  <2>3. SendFrame(JoinFrame(idOf[o])) /\ inbound' = inbound
    BY <1>5 DEF CallSends, JoinFrame
  <2>4. outbound' = outbound \/ OutboundGrows(JoinFrame(idOf[o]))
    BY <2>1, <2>3, OutboundGrowth, ClientFrames
  <2> QED
    BY <2>1, <2>2, <2>3, <2>4, CreateKept, CreateKeptByJoin
<1>6. ASSUME NEW o \in Objs, CallPushes(o)
      PROVE  CreateInv'
  <2>1. \A p \in Objs : call[p] = "create" => call'[p] = "create"
    BY <1>6 DEF CallPushes, IsNextRoom, TypeOK
  <2> QED
    BY <1>6, <2>1, CreateKept DEF CallPushes, linkVars
<1>7. ASSUME DisconnectCloses
      PROVE  CreateInv'
  <2>1. outbound' = outbound \/ \A k \in 1 .. Len(outbound') : FALSE
    BY <1>7 DEF DisconnectCloses
  <2> QED
    BY <1>7, <2>1, CreateKept DEF DisconnectCloses
<1>8. ASSUME HandshakeSucceeds
      PROVE  CreateInv'
  <2>1. \A k \in 1 .. Len(inbound') : inbound'[k].kind = "clientIdSet"
    BY <1>8 DEF HandshakeSucceeds
  <2> QED
    BY <1>8, <2>1, CreateKept DEF HandshakeSucceeds, appVars
<1>9. ASSUME HandleWsPayload
      PROVE  CreateInv'
  <2> DEFINE frame == Head(inbound)
  <2>1. /\ frame \in FromServer
        /\ outbound' = outbound
        /\ \/ HandleClientIdSet(frame)
           \/ HandleCreate(frame)
           \/ HandleError(frame)
           \/ HandleRoomFrame(frame)
    BY <1>9, HandleCases
  <2>2. InboundPops
    BY <1>9, HandleCases, InboundPopping
  <2>3. inbound[1] = frame /\ 1 \in 1 .. Len(inbound)
    BY <2>2 DEF InboundPops
  <2> HIDE DEF frame
  <2>4. \A p \in Objs : call'[p] = call[p] \/ Creates(frame, p)
    BY <2>1 DEF HandleClientIdSet, HandleCreate, HandleError, HandleRoomFrame, Creates, TypeOK, clientVars
  <2>5. SUFFICES ASSUME NEW p \in Objs
                 PROVE  CreateOnce(p)'
    BY DEF CreateInv
  <2>6. CreateOnce(p)
    BY DEF CreateInv
  <2>7. CASE ~Creates(frame, p)
    <3>1. call'[p] = call[p]
      BY <2>4, <2>7
    <3>2. Len(inbound) \in Nat /\ Len(inbound') \in Nat
      BY <2>2 DEF InboundPops
    <3>3. \A k \in 1 .. Len(inbound') :
            Creates(inbound'[k], p) => k + 1 \in 1 .. Len(inbound) /\ Creates(inbound[k + 1], p)
      BY <2>2 DEF InboundPops
    <3>4. Len(outbound) \in Nat
      BY DEF TypeOK
    <3>5. \A k \in 1 .. Len(outbound') :
            outbound'[k] = CreateFrame(p) => k + 0 \in 1 .. Len(outbound) /\ outbound[k + 0] = CreateFrame(p)
      BY <2>1, <3>4
    <3> QED
      BY <2>1, <2>6, <3>1, <3>2, <3>3, <3>4, <3>5, CreateShrinks
  <2>8. CASE Creates(frame, p)
    <3>1. /\ \A l \in 1 .. Len(inbound) : Creates(inbound[l], p) => l = 1
          /\ \A l \in 1 .. Len(outbound) : outbound[l] # CreateFrame(p)
      BY <2>3, <2>6, <2>8 DEF CreateOnce
    <3>2. \A l \in 1 .. Len(inbound') : ~Creates(inbound'[l], p)
      BY <2>2, <3>1 DEF InboundPops
    <3>3. \A l \in 1 .. Len(outbound') : outbound'[l] # CreateFrame(p)
      BY <2>1, <3>1
    <3> QED
      BY <3>2, <3>3 DEF CreateOnce, Creates, CreateFrame
  <2> QED
    BY <2>7, <2>8
<1>10. ASSUME ManagerSends
      PROVE  CreateInv'
  <2>1. idOf[joining.obj] \in Ids
    BY <1>10 DEF ManagerSends, ObjectInv, NoJoin
  <2>2. SendFrame(JoinFrame(idOf[joining.obj])) /\ inbound' = inbound /\ call' = call
    BY <1>10 DEF ManagerSends, JoinFrame, appVars
  <2>3. outbound' = outbound \/ OutboundGrows(JoinFrame(idOf[joining.obj]))
    BY <2>1, <2>2, OutboundGrowth, ClientFrames
  <2> QED
    BY <2>1, <2>2, <2>3, CreateKept, CreateKeptByJoin
<1>11. ASSUME RecvLoopEnds
      PROVE  CreateInv'
  <2>1. \A k \in 1 .. Len(inbound') : inbound'[k].kind = "clientIdSet"
    BY <1>11 DEF RecvLoopEnds
  <2> QED
    BY <1>11, <2>1, CreateKept DEF RecvLoopEnds, appVars
<1>12. ASSUME ServerAnswers
      PROVE  CreateInv'
  <2>1. /\ call' = call
        /\ \/ \E i \in Ids : AnswersJoin(i) \/ AnswersError(i)
           \/ \E o \in Objs, i \in Ids : AnswersCreate(o, i)
           \/ \E o \in Objs : AnswersCreateError(o)
    BY <1>12, ServerAnswersCases DEF appVars
  <2>2. OutboundPops
    BY <1>12, AnswerFrames
  <2>3. ASSUME NEW i \in Ids, AnswersJoin(i) \/ AnswersError(i)
        PROVE  CreateInv'
    <3>1. PICK kind \in {"joinedRoom", "error"} : InboundGrows([kind |-> kind, id |-> i])
      BY <1>12, <2>3, AnswerFrames
    <3> QED
      BY <2>1, <2>2, <3>1, CreateKeptByNews
  <2>4. ASSUME NEW o \in Objs, AnswersCreateError(o) \/ \E i \in Ids : AnswersCreate(o, i)
        PROVE  CreateInv'
    <3>1. Head(outbound) = CreateFrame(o)
      BY <2>4 DEF AnswersCreate, AnswersCreateError
    <3>2. PICK frame : /\ InboundGrows(frame)
                       /\ frame.kind \in {"create", "createError"} /\ frame.obj = o
      <4>1. CASE AnswersCreateError(o)
        <5>1. InboundGrows([kind |-> "createError", obj |-> o])
          BY <1>12, <4>1, AnswerFrames
        <5> QED
          BY <5>1
      <4>2. ASSUME NEW i \in Ids, AnswersCreate(o, i)
            PROVE  \E frame : /\ InboundGrows(frame)
                              /\ frame.kind \in {"create", "createError"} /\ frame.obj = o
        <5>1. InboundGrows([kind |-> "create", obj |-> o, id |-> i])
          BY <1>12, <4>2, AnswerFrames
        <5> QED
          BY <5>1
      <4> QED
        BY <2>4, <4>1, <4>2
    <3>3. SUFFICES ASSUME NEW p \in Objs
                   PROVE  CreateOnce(p)'
      BY DEF CreateInv
    <3>4. CreateOnce(p)
      BY DEF CreateInv
    <3>5. CASE p = o
      <4>1. outbound[1] = CreateFrame(p) /\ 1 \in 1 .. Len(outbound)
        BY <2>2, <3>1, <3>5 DEF OutboundPops
      <4>2. /\ call[p] = "create"
            /\ \A l \in 1 .. Len(outbound) : outbound[l] = CreateFrame(p) => l = 1
            /\ \A k \in 1 .. Len(inbound) : ~Creates(inbound[k], p)
        BY <3>4, <4>1 DEF CreateOnce
      <4>3. \A l \in 1 .. Len(outbound') : outbound'[l] # CreateFrame(p)
        BY <2>2, <4>2 DEF OutboundPops
      <4>4. \A k \in 1 .. Len(inbound') : Creates(inbound'[k], p) => k = Len(inbound) + 1
        BY <3>2, <4>2 DEF InboundGrows
      <4> QED
        BY <2>1, <4>2, <4>3, <4>4 DEF CreateOnce, Creates, CreateFrame
    <3>6. CASE p # o
      <4>1. \A k \in 1 .. Len(inbound') :
              Creates(inbound'[k], p) => k \in 1 .. Len(inbound) /\ Creates(inbound[k], p)
        BY <3>2, <3>6 DEF InboundGrows, Creates
      <4>2. /\ Len(outbound) \in Nat /\ Len(outbound') \in Nat
            /\ \A k \in 1 .. Len(outbound') :
                 k + 1 \in 1 .. Len(outbound) /\ outbound'[k] = outbound[k + 1]
        BY <2>2 DEF OutboundPops
      <4>3. /\ Len(inbound) \in Nat /\ Len(inbound') \in Nat
            /\ \A k \in 1 .. Len(inbound') :
                 Creates(inbound'[k], p) => k + 0 \in 1 .. Len(inbound) /\ Creates(inbound[k + 0], p)
        BY <3>2, <4>1 DEF InboundGrows
      <4> QED
        BY <2>1, <3>4, <4>2, <4>3, CreateShrinks
    <3> QED
      BY <3>5, <3>6
  <2> QED
    BY <2>1, <2>3, <2>4
<1>13. ASSUME NEW i \in Ids, ServerRemoves(i)
      PROVE  CreateInv'
  <2>1. InboundGrows([kind |-> "removedFromRoom", id |-> i])
    BY <1>13, RemovalFrames
  <2>2. call' = call /\ outbound' = outbound
    BY <1>13 DEF ServerRemoves, appVars
  <2> QED
    BY <2>1, <2>2, CreateKeptByNews
<1>14. ASSUME ConnectionDies
      PROVE  CreateInv'
  <2>1. \A k \in 1 .. Len(outbound') : FALSE
    BY <1>14 DEF ConnectionDies
  <2> QED
    BY <1>14, <2>1, CreateKept DEF ConnectionDies, appVars
<1>15. CASE UNCHANGED vars
  BY <1>15, CreateKept DEF vars, appVars, clientVars, managerVars, linkVars, historyVars
<1> QED
  BY <1>1, <1>2, <1>3, <1>4, <1>5, <1>6, <1>7, <1>8, <1>9, <1>10, <1>11,
     <1>12, <1>13, <1>14, <1>15
  DEF Next, CallStep, ManagerStep, ServerStep, Quiet

-------------------------------------------------------------------------------
(***************************************************************************)
(* The Room objects.                                                       *)
(***************************************************************************)

LEMMA ObjectInit == ASSUME Init PROVE ObjectInv
BY ObjsAssumption DEF Init, ObjectInv, NoJoin, Steps

LEMMA ObjectStep ==
  ASSUME TypeOK, ObjectInv, CreateInv, [Next]_vars, ~Quiet
  PROVE  ObjectInv'
<1>1. ASSUME \/ DisconnectBegins
             \/ DisconnectCloses
             \/ DisconnectJoins
             \/ LoopBegins
             \/ HandshakeFails
             \/ HandshakeSucceeds
             \/ Install
             \/ RecvLoopEnds
             \/ \E i \in Ids : ServerRemoves(i)
             \/ ConnectionDies
      PROVE  ObjectInv'
  <2>1. UNCHANGED <<call, idOf, joined, handler, rooms, todo, joining>>
    BY <1>1
       DEF DisconnectBegins, DisconnectCloses, DisconnectJoins, LoopBegins, HandshakeFails, HandshakeSucceeds,
           Install, RecvLoopEnds, ServerRemoves, ConnectionDies,
           appVars, clientVars, managerVars, linkVars, historyVars
  <2> QED
    BY <2>1 DEF ObjectInv
<1>2. ASSUME NEW o \in Objs, NEW i \in Ids, JoinRoom(o, i)
      PROVE  ObjectInv'
  <2>1. /\ call[o] = "new" /\ call' = [call EXCEPT ![o] = "check"]
        /\ idOf' = [idOf EXCEPT ![o] = i]
        /\ handler' = [handler EXCEPT ![i] = o]
        /\ UNCHANGED <<joined, rooms, todo, joining>>
    BY <1>2 DEF JoinRoom, IsNextRoom, managerVars
  <2>2. idOf[o] = NoId /\ o \notin rooms /\ joining.obj # o /\ o \in Objs /\ i \in Ids
    BY <2>1, ObjsAssumption DEF ObjectInv
  <2> QED
    BY <2>1, <2>2, IdsAssumption, ObjsAssumption DEF ObjectInv, TypeOK, Steps
<1>3. ASSUME NEW o \in Objs, CreateSends(o)
      PROVE  ObjectInv'
  <2>1. /\ call[o] = "creating" /\ call' = [call EXCEPT ![o] = "create"]
        /\ UNCHANGED <<idOf, joined, handler, rooms, todo, joining>>
    BY <1>3 DEF CreateSends, clientVars, managerVars
  <2> QED
    BY <2>1 DEF ObjectInv, TypeOK, Steps
<1>4. ASSUME NEW o \in Objs, CallChecks(o)
      PROVE  ObjectInv'
  <2>1. /\ call[o] = "check" /\ call' = [call EXCEPT ![o] = AfterCheck(o)]
        /\ AfterCheck(o) \in {"push", "send"}
        /\ UNCHANGED <<idOf, joined, handler, rooms, todo, joining>>
    BY <1>4 DEF CallChecks, AfterCheck, clientVars, managerVars
  <2> QED
    BY <2>1 DEF ObjectInv, TypeOK, Steps
<1>5. ASSUME NEW o \in Objs, CallSends(o)
      PROVE  ObjectInv'
  <2>1. /\ call[o] = "sending" /\ call' = [call EXCEPT ![o] = "push"]
        /\ UNCHANGED <<idOf, joined, handler, rooms, todo, joining>>
    BY <1>5 DEF CallSends, clientVars, managerVars
  <2> QED
    BY <2>1 DEF ObjectInv, TypeOK, Steps
<1>6. ASSUME NEW o \in Objs, CallPushes(o)
      PROVE  ObjectInv'
  <2>1. /\ call[o] = "push" /\ call' = [call EXCEPT ![o] = "done"]
        /\ Push(o)
        /\ UNCHANGED <<idOf, joined, handler, todo, joining>>
    BY <1>6 DEF CallPushes, managerVars
  <2> QED
    BY <2>1 DEF Push, IsNew, ObjectInv, TypeOK, Steps
<1>7. ASSUME HandleWsPayload
      PROVE  ObjectInv'
  <2> DEFINE frame == Head(inbound)
  <2>1. /\ frame \in FromServer
        /\ ManagerIdle
        /\ \/ HandleClientIdSet(frame)
           \/ HandleCreate(frame)
           \/ HandleError(frame)
           \/ HandleRoomFrame(frame)
    BY <1>7, HandleCases
  <2>2. 1 \in 1 .. Len(inbound) /\ inbound[1] = frame
    BY <1>7, HandleCases, InboundPopping DEF InboundPops
  <2>3. /\ frame.kind \in {"joinedRoom", "removedFromRoom", "error", "create"} => frame.id \in Ids
        /\ frame.kind \in {"create", "createError"} => frame.obj \in Objs
    BY <2>1, ServerFrames
  <2>4. frame.kind \in {"create", "createError"} => call[frame.obj] = "create"
    BY <2>2, <2>3 DEF CreateInv, CreateOnce, Creates
  <2>5. joining = NoJoin /\ todo = {}
    BY <2>1 DEF ManagerIdle
  <2> HIDE DEF frame
  <2>6. CASE HandleClientIdSet(frame)
    <3>1. todo' = rooms /\ UNCHANGED <<call, idOf, joined, handler, rooms, joining>>
      BY <2>6 DEF HandleClientIdSet, RoomsSnapshot, clientVars
    <3> QED
      BY <2>5, <3>1 DEF ObjectInv, NoJoin
  <2>7. CASE HandleCreate(frame)
    <3> DEFINE o == frame.obj
               i == frame.id
    <3>1. /\ call[o] = "create" /\ call' = [call EXCEPT ![o] = "done"]
          /\ idOf' = [idOf EXCEPT ![o] = i]
          /\ handler' = [handler EXCEPT ![i] = o]
          /\ joining' = [obj |-> o, step |-> "check"]
          /\ UNCHANGED <<joined, rooms, todo>>
      BY <2>4, <2>7 DEF HandleCreate
    <3>2. o \in Objs /\ i \in Ids
      BY <2>3, <2>7 DEF HandleCreate
    <3> HIDE DEF o, i
    <3>3. idOf[o] = NoId /\ o \notin rooms
      BY <3>1, <3>2 DEF ObjectInv
    <3> QED
      BY <2>5, <3>1, <3>2, <3>3, IdsAssumption, ObjsAssumption DEF ObjectInv, TypeOK, Steps
  <2>8. CASE HandleError(frame)
    <3>1. UNCHANGED <<idOf, joined, handler, rooms, todo, joining>>
      BY <2>8 DEF HandleError, clientVars
    <3>2. \A o \in Objs : call'[o] = call[o] \/ (call[o] = "create" /\ call'[o] = "done")
      BY <2>3, <2>4, <2>8 DEF HandleError, TypeOK
    <3> QED
      BY <2>5, <3>1, <3>2 DEF ObjectInv, TypeOK, Steps, NoJoin
  <2>9. CASE HandleRoomFrame(frame)
    <3>1. UNCHANGED <<call, idOf, handler, rooms, todo, joining>>
      BY <2>9 DEF HandleRoomFrame
    <3>2. \A o \in Objs : joined'[o] => joined[o] \/ handler[frame.id] = o
      BY <2>9 DEF HandleRoomFrame
    <3>3. frame.id \in Ids
      BY <2>3, <2>9 DEF HandleRoomFrame
    <3>4. \A o \in Objs : joined'[o] => idOf[o] \in Ids
      BY <3>2, <3>3, ObjsAssumption DEF ObjectInv
    <3> QED
      BY <3>1, <3>4 DEF ObjectInv
  <2> QED
    BY <2>1, <2>6, <2>7, <2>8, <2>9
<1>8. ASSUME NEW o \in Objs, ManagerRejoins(o)
      PROVE  ObjectInv'
  <2>1. /\ o \in todo /\ todo' = todo \ {o}
        /\ joining' = [obj |-> o, step |-> "check"]
        /\ UNCHANGED <<call, idOf, joined, handler, rooms>>
    BY <1>8 DEF ManagerRejoins, appVars, clientVars
  <2> QED
    BY <2>1, ObjsAssumption DEF ObjectInv, TypeOK
<1>9. ASSUME ManagerChecks
      PROVE  ObjectInv'
  <2>1. UNCHANGED <<call, idOf, joined, handler, rooms, todo>> /\ joining'.obj = joining.obj /\ joining # NoJoin
    BY <1>9 DEF ManagerChecks, TypeOK, NoJoin, appVars, clientVars
  <2> QED
    BY <2>1 DEF ObjectInv, TypeOK
<1>10. ASSUME ManagerSends
      PROVE  ObjectInv'
  <2>1. UNCHANGED <<call, idOf, joined, handler, rooms, todo>> /\ joining'.obj = joining.obj /\ joining # NoJoin
    BY <1>10 DEF ManagerSends, TypeOK, NoJoin, appVars, clientVars
  <2> QED
    BY <2>1 DEF ObjectInv, TypeOK
<1>11. ASSUME ManagerPushes
      PROVE  ObjectInv'
  <2>1. /\ Push(joining.obj) /\ joining' = NoJoin
        /\ joining.obj # NoObj
        /\ UNCHANGED <<idOf, joined, handler, todo, call>>
    BY <1>11 DEF ManagerPushes, ObjectInv, NoJoin, appVars
  <2> QED
    BY <2>1 DEF Push, IsNew, ObjectInv, TypeOK, NoJoin
<1>12. ASSUME LoopEnds
      PROVE  ObjectInv'
  <2>1. /\ UNCHANGED <<call, idOf, handler, rooms, todo, joining>>
        /\ \A o \in Objs : joined'[o] => joined[o]
    BY <1>12 DEF LoopEnds, JoinedAfterLoss, appVars
  <2> QED
    BY <2>1 DEF ObjectInv
<1>13. ASSUME ServerAnswers
      PROVE  ObjectInv'
  <2>1. UNCHANGED <<call, idOf, joined, handler, rooms, todo, joining>>
    BY <1>13, ServerAnswersCases DEF appVars, clientVars, managerVars
  <2> QED
    BY <2>1 DEF ObjectInv
<1>14. CASE UNCHANGED vars
  BY <1>14 DEF ObjectInv, vars, appVars, clientVars, managerVars, linkVars, historyVars
<1> QED
  BY <1>1, <1>2, <1>3, <1>4, <1>5, <1>6, <1>7, <1>8, <1>9, <1>10, <1>11,
     <1>12, <1>13, <1>14
  DEF Next, CallStep, ManagerStep, ServerStep, Quiet

-------------------------------------------------------------------------------
(***************************************************************************)
(* Ids stay, and only ids of Room objects are asked for.                   *)
(***************************************************************************)

LEMMA IdsKept ==
  ASSUME TypeOK, ObjectInv, CreateInv, [Next]_vars, ~Quiet
  PROVE  \A o \in Objs : idOf[o] # NoId => idOf'[o] = idOf[o]
<1>1. ASSUME \/ \E o \in Objs : CreateSends(o)
             \/ \E o \in Objs : CallChecks(o)
             \/ \E o \in Objs : CallSends(o)
             \/ \E o \in Objs : CallPushes(o)
             \/ DisconnectBegins
             \/ DisconnectCloses
             \/ DisconnectJoins
             \/ LoopBegins
             \/ HandshakeFails
             \/ HandshakeSucceeds
             \/ Install
             \/ \E o \in Objs : ManagerRejoins(o)
             \/ ManagerChecks
             \/ ManagerSends
             \/ ManagerPushes
             \/ RecvLoopEnds
             \/ LoopEnds
             \/ \E i \in Ids : ServerRemoves(i)
             \/ ConnectionDies
      PROVE  \A o \in Objs : idOf[o] # NoId => idOf'[o] = idOf[o]
  <2>1. idOf' = idOf
    BY <1>1
       DEF CreateSends, CallChecks, CallSends, CallPushes, DisconnectBegins,
           DisconnectCloses, DisconnectJoins, LoopBegins, HandshakeFails, HandshakeSucceeds,
           Install, ManagerRejoins, ManagerChecks, ManagerSends, ManagerPushes,
           RecvLoopEnds, LoopEnds, ServerRemoves, ConnectionDies,
           appVars, clientVars, managerVars, linkVars, historyVars
  <2> QED
    BY <2>1
<1>2. ASSUME NEW p \in Objs, NEW i \in Ids, JoinRoom(p, i)
      PROVE  \A o \in Objs : idOf[o] # NoId => idOf'[o] = idOf[o]
  BY <1>2 DEF JoinRoom, IsNextRoom, ObjectInv, TypeOK
<1>3. ASSUME HandleWsPayload
      PROVE  \A o \in Objs : idOf[o] # NoId => idOf'[o] = idOf[o]
  <2> DEFINE frame == Head(inbound)
  <2>1. /\ frame \in FromServer
        /\ \/ HandleClientIdSet(frame)
           \/ HandleCreate(frame)
           \/ HandleError(frame)
           \/ HandleRoomFrame(frame)
    BY <1>3, HandleCases
  <2>2. 1 \in 1 .. Len(inbound) /\ inbound[1] = frame
    BY <1>3, HandleCases, InboundPopping DEF InboundPops
  <2>3. frame.kind = "create" => frame.obj \in Objs /\ call[frame.obj] = "create"
    BY <2>1, <2>2, ServerFrames DEF CreateInv, CreateOnce, Creates
  <2> HIDE DEF frame
  <2> QED
    BY <2>1, <2>3 DEF HandleClientIdSet, HandleCreate, HandleError, HandleRoomFrame, ObjectInv, TypeOK, clientVars
<1>4. ASSUME ServerAnswers
      PROVE  \A o \in Objs : idOf[o] # NoId => idOf'[o] = idOf[o]
  BY <1>4, ServerAnswersCases DEF clientVars
<1>5. CASE UNCHANGED vars
  BY <1>5 DEF vars, appVars, clientVars, managerVars, linkVars, historyVars
<1> QED
  BY <1>1, <1>2, <1>3, <1>4, <1>5
  DEF Next, CallStep, ManagerStep, ServerStep, Quiet

LEMMA UsingKept ==
  ASSUME TypeOK, ObjectInv, CreateInv, [Next]_vars, ~Quiet, NEW i \in Ids
  PROVE  Using(i) \subseteq Using(i)'
<1>1. ASSUME NEW o \in Objs, idOf[o] = i
      PROVE  idOf'[o] = i
  BY <1>1, IdsKept, IdsAssumption
<1> QED
  BY <1>1 DEF Using

LEMMA UsedInit == ASSUME Init PROVE UsedInv
<1>1. \A k \in 1 .. Len(outbound) : FALSE
  BY DEF Init
<1> QED
  BY <1>1 DEF Init, UsedInv, Asking

(* A frame or an entry is there already, or comes from a Room object that  *)
(* asks, or from a frame.                                                  *)
AsksBefore(i) == Asking(i) \/ members[i] > 0 \/ Using(i) # {}

LEMMA AskingFrom ==
  ASSUME TypeOK, ObjectInv, CreateInv, [Next]_vars, ~Quiet, NEW i \in Ids
  PROVE  Asking(i)' \/ members'[i] > 0 => AsksBefore(i)
<1>1. ASSUME \/ \E o \in Objs : \E j \in Ids : JoinRoom(o, j)
             \/ \E o \in Objs : CallChecks(o)
             \/ \E o \in Objs : CallPushes(o)
             \/ DisconnectBegins
             \/ DisconnectJoins
             \/ LoopBegins
             \/ HandshakeFails
             \/ HandshakeSucceeds
             \/ \E o \in Objs : ManagerRejoins(o)
             \/ ManagerChecks
             \/ ManagerPushes
             \/ RecvLoopEnds
             \/ LoopEnds
      PROVE  Asking(i)' \/ members'[i] > 0 => AsksBefore(i)
  <2>1. outbound' = outbound /\ members' = members
    BY <1>1
       DEF JoinRoom, CallChecks, CallPushes, DisconnectBegins, DisconnectJoins,
           LoopBegins, HandshakeFails, HandshakeSucceeds, ManagerRejoins, ManagerChecks,
           ManagerPushes, RecvLoopEnds, LoopEnds,
           appVars, clientVars, managerVars, linkVars, historyVars
  <2> QED
    BY <2>1 DEF AsksBefore, Asking, JoinFrame
<1>2. ASSUME NEW o \in Objs, CreateSends(o)
      PROVE  Asking(i)' \/ members'[i] > 0 => AsksBefore(i)
  <2>1. SendFrame(CreateFrame(o)) /\ members' = members
    BY <1>2 DEF CreateSends, CreateFrame
  <2>2. outbound' = outbound \/ OutboundGrows(CreateFrame(o))
    BY <2>1, OutboundGrowth, ClientFrames
  <2>3. \A k \in 1 .. Len(outbound') :
          outbound'[k] = JoinFrame(i) => k \in 1 .. Len(outbound) /\ outbound[k] = JoinFrame(i)
    BY <2>2, ClientFrames DEF OutboundGrows
  <2> QED
    BY <2>1, <2>3 DEF AsksBefore, Asking, JoinFrame
<1>3. ASSUME NEW o \in Objs, CallSends(o)
      PROVE  Asking(i)' \/ members'[i] > 0 => AsksBefore(i)
  <2>1. /\ SendFrame(JoinFrame(idOf[o])) /\ members' = members
        /\ idOf[o] \in Ids /\ Using(idOf[o]) # {}
    BY <1>3 DEF CallSends, JoinFrame, ObjectInv, Using, Steps, NoJoin, TypeOK
  <2>2. outbound' = outbound \/ OutboundGrows(JoinFrame(idOf[o]))
    BY <2>1, OutboundGrowth, ClientFrames
  <2>3. \A k \in 1 .. Len(outbound') : outbound'[k] = JoinFrame(i) =>
          \/ k \in 1 .. Len(outbound) /\ outbound[k] = JoinFrame(i)
          \/ idOf[o] = i
    BY <2>1, <2>2, ClientFrames DEF OutboundGrows
  <2> QED
    BY <2>1, <2>3 DEF AsksBefore, Asking, JoinFrame
<1>4. ASSUME DisconnectCloses
      PROVE  Asking(i)' \/ members'[i] > 0 => AsksBefore(i)
  <2>1. outbound' = outbound \/ \A k \in 1 .. Len(outbound') : FALSE
    BY <1>4 DEF DisconnectCloses
  <2>2. members'[i] = members[i] \/ members'[i] = 0
    BY <1>4 DEF DisconnectCloses
  <2> QED
    BY <2>1, <2>2 DEF AsksBefore, Asking, JoinFrame
<1>5. ASSUME Install
      PROVE  Asking(i)' \/ members'[i] > 0 => AsksBefore(i)
  <2>1. outbound' = outbound \/ \A k \in 1 .. Len(outbound') : FALSE
    BY <1>5 DEF Install
  <2>2. members'[i] = members[i] \/ members'[i] = 0
    BY <1>5 DEF Install
  <2> QED
    BY <2>1, <2>2 DEF AsksBefore, Asking, JoinFrame
<1>6. ASSUME HandleWsPayload
      PROVE  Asking(i)' \/ members'[i] > 0 => AsksBefore(i)
  <2>1. outbound' = outbound /\ members' = members
    BY <1>6, HandleCases
  <2> QED
    BY <2>1 DEF AsksBefore, Asking, JoinFrame
<1>7. ASSUME ManagerSends
      PROVE  Asking(i)' \/ members'[i] > 0 => AsksBefore(i)
  <2>1. /\ SendFrame(JoinFrame(idOf[joining.obj])) /\ members' = members
        /\ idOf[joining.obj] \in Ids /\ Using(idOf[joining.obj]) # {}
    BY <1>7 DEF ManagerSends, JoinFrame, ObjectInv, Using, Steps, NoJoin, TypeOK
  <2>2. outbound' = outbound \/ OutboundGrows(JoinFrame(idOf[joining.obj]))
    BY <2>1, OutboundGrowth, ClientFrames
  <2>3. \A k \in 1 .. Len(outbound') : outbound'[k] = JoinFrame(i) =>
          \/ k \in 1 .. Len(outbound) /\ outbound[k] = JoinFrame(i)
          \/ idOf[joining.obj] = i
    BY <2>1, <2>2, ClientFrames DEF OutboundGrows
  <2> QED
    BY <2>1, <2>3 DEF AsksBefore, Asking, JoinFrame
<1>8. ASSUME ServerAnswers
      PROVE  Asking(i)' \/ members'[i] > 0 => AsksBefore(i)
  <2>1. OutboundPops
    BY <1>8, AnswerFrames
  <2>2. \A k \in 1 .. Len(outbound') :
          outbound'[k] = JoinFrame(i) => k + 1 \in 1 .. Len(outbound) /\ outbound[k + 1] = JoinFrame(i)
    BY <2>1 DEF OutboundPops
  <2>3. Asking(i)' => Asking(i)
    BY <2>2 DEF Asking, JoinFrame
  <2>4. members'[i] = members[i] \/ AnswersJoin(i)
    BY <1>8, ServerAnswersCases DEF AnswersJoin, AnswersError, AnswersCreate, AnswersCreateError, TypeOK
  <2>5. AnswersJoin(i) => Asking(i)
    BY <2>1 DEF AnswersJoin, Asking, OutboundPops
  <2> QED
    BY <2>3, <2>4, <2>5 DEF AsksBefore
<1>9. ASSUME NEW j \in Ids, ServerRemoves(j)
      PROVE  Asking(i)' \/ members'[i] > 0 => AsksBefore(i)
  <2>1. outbound' = outbound /\ members[j] > 0 /\ members' = [members EXCEPT ![j] = @ - 1]
    BY <1>9 DEF ServerRemoves
  <2>2. members'[i] > 0 => members[i] > 0
    BY <2>1 DEF TypeOK
  <2> QED
    BY <2>1, <2>2 DEF AsksBefore, Asking, JoinFrame
<1>10. ASSUME ConnectionDies
      PROVE  Asking(i)' \/ members'[i] > 0 => AsksBefore(i)
  <2>1. outbound' = outbound \/ \A k \in 1 .. Len(outbound') : FALSE
    BY <1>10 DEF ConnectionDies
  <2>2. members'[i] = members[i] \/ members'[i] = 0
    BY <1>10 DEF ConnectionDies
  <2> QED
    BY <2>1, <2>2 DEF AsksBefore, Asking, JoinFrame
<1>11. CASE UNCHANGED vars
  BY <1>11 DEF AsksBefore, Asking, JoinFrame, vars, appVars, clientVars, managerVars, linkVars, historyVars
<1> QED
  BY <1>1, <1>2, <1>3, <1>4, <1>5, <1>6, <1>7, <1>8, <1>9, <1>10, <1>11
  DEF Next, CallStep, ManagerStep, ServerStep, Quiet

LEMMA UsedStep ==
  ASSUME TypeOK, ObjectInv, CreateInv, UsedInv, [Next]_vars, ~Quiet
  PROVE  UsedInv'
<1> SUFFICES ASSUME NEW i \in Ids, Asking(i)' \/ members'[i] > 0
             PROVE  Using(i)' # {}
  BY DEF UsedInv
<1>1. Using(i) # {}
  BY AskingFrom DEF UsedInv, AsksBefore
<1> QED
  BY <1>1, UsingKept

-------------------------------------------------------------------------------
(***************************************************************************)
(* A room is asked for once.                                               *)
(***************************************************************************)

(* The joinRoom frames of room i were there before, n positions further on. *)
FramesKept(i, n) ==
  \A k \in 1 .. Len(outbound') :
    outbound'[k] = JoinFrame(i) => k + n \in 1 .. Len(outbound) /\ outbound[k + n] = JoinFrame(i)

LEMMA AskingKept ==
  ASSUME NEW i \in Ids, NEW n \in Nat, FramesKept(i, n)
  PROVE  Asking(i)' => Asking(i)
BY DEF FramesKept, Asking, JoinFrame

(* Which frames a step of the client's sender leaves alone.                *)
LEMMA FramesKeptBySend ==
  ASSUME TypeOK, NEW frame \in FromClient, SendFrame(frame), NEW i \in Ids, frame # JoinFrame(i)
  PROVE  FramesKept(i, 0)
<1>1. Len(outbound) \in Nat
  BY DEF TypeOK
<1>2. CASE ws /\ link = "up"
  <2>1. OutboundGrows(frame)
    BY <1>2, OutboundGrowth
  <2> QED
    BY <2>1 DEF OutboundGrows, FramesKept
<1>3. CASE ~ (ws /\ link = "up")
  <2>1. outbound' = outbound
    BY <1>3, OutboundGrowth
  <2> QED
    BY <1>1, <2>1 DEF FramesKept
<1> QED
  BY <1>2, <1>3

LEMMA FramesKeptSame ==
  ASSUME TypeOK, outbound' = outbound, NEW i \in Ids
  PROVE  FramesKept(i, 0)
<1>1. Len(outbound) \in Nat
  BY DEF TypeOK
<1> QED
  BY <1>1 DEF FramesKept

LEMMA FramesKeptByPop ==
  ASSUME OutboundPops, NEW i \in Ids
  PROVE  FramesKept(i, 1)
BY DEF OutboundPops, FramesKept

(* Who asks does so as long as nobody of the client moves.                 *)
LEMMA AskersKept ==
  ASSUME UNCHANGED <<call, idOf, todo, joining>>, NEW i \in Ids
  PROVE  /\ ManagerAsks(i)' = ManagerAsks(i)
         /\ WalkAsks(i)' = WalkAsks(i)
         /\ CallAsks(i)' = CallAsks(i)
BY DEF ManagerAsks, WalkAsks, CallAsks, Using

(* Nobody asks who did not ask before, and nothing is added.               *)
LEMMA OnceKept ==
  ASSUME TypeOK, TypeOK', NEW i \in Ids, EntryOnce(i),
         greeted => greeted',
         members'[i] <= members[i],
         NEW n \in Nat, FramesKept(i, n),
         (ManagerAsks(i) \/ WalkAsks(i) \/ CallAsks(i))' => ManagerAsks(i) \/ WalkAsks(i) \/ CallAsks(i),
         (ManagerAsks(i) /\ WalkAsks(i))' => ManagerAsks(i) /\ WalkAsks(i)
  PROVE  EntryOnce(i)'
<1>1. members[i] \in Nat /\ members'[i] \in Nat
  BY DEF TypeOK
<1>2. Asking(i)' => Asking(i)
  BY AskingKept
<1>3. Len(outbound) \in Nat /\ Len(outbound') \in Nat
  BY DEF TypeOK
<1>4. ASSUME NEW k \in 1 .. Len(outbound'), NEW l \in 1 .. Len(outbound'),
             outbound'[k] = JoinFrame(i), outbound'[l] = JoinFrame(i)
      PROVE  k = l
  <2>1. /\ k + n \in 1 .. Len(outbound) /\ outbound[k + n] = JoinFrame(i)
        /\ l + n \in 1 .. Len(outbound) /\ outbound[l + n] = JoinFrame(i)
    BY <1>4 DEF FramesKept
  <2>2. k + n = l + n
    BY <2>1 DEF EntryOnce
  <2> QED
    BY <1>3, <2>2
<1>5. /\ members[i] <= 1
      /\ ~greeted => ~Asking(i) /\ members[i] = 0
      /\ members[i] > 0 => ~Asking(i)
      /\ ManagerAsks(i) \/ WalkAsks(i) \/ CallAsks(i) => ~Asking(i) /\ members[i] = 0
      /\ ~ (ManagerAsks(i) /\ WalkAsks(i))
  BY DEF EntryOnce
<1>6. \A k, l \in 1 .. Len(outbound') :
        outbound'[k] = JoinFrame(i)' /\ outbound'[l] = JoinFrame(i)' => k = l
  BY <1>4 DEF JoinFrame
<1> QED
  BY <1>1, <1>2, <1>5, <1>6 DEF EntryOnce

LEMMA OnceInit == ASSUME Init PROVE OnceInv
BY DEF Init, OnceInv

(* A Room object that has still to ask is not the manager's.               *)
LEMMA AskersExclude ==
  ASSUME TypeOK, ObjectInv, NEW i \in Ids, CallAsks(i)
  PROVE  ~ManagerAsks(i) /\ ~WalkAsks(i)
<1>1. PICK o \in Objs : call[o] \in {"check", "send", "sending"} /\ Using(i) = {o}
  BY DEF CallAsks
<1>2. ASSUME NEW p \in Objs, idOf[p] = i
      PROVE  call[p] # "done"
  <2>1. p \in Using(i)
    BY <1>2 DEF Using
  <2> QED
    BY <1>1, <2>1
<1> QED
  BY <1>2 DEF ManagerAsks, WalkAsks, ObjectInv, TypeOK

LEMMA OnceStep ==
  ASSUME TypeOK, PhaseInv, ObjectInv, CreateInv, UsedInv, OnceInv, [Next]_vars, ~Quiet
  PROVE  OnceInv'
<1> SUFFICES ASSUME NEW i \in Ids, i \notin asked', link' = "up"
             PROVE  EntryOnce(i)'
  BY DEF OnceInv
<1>1. ASSUME \/ DisconnectBegins
             \/ DisconnectJoins
             \/ LoopBegins
             \/ HandshakeFails
             \/ LoopEnds
      PROVE  EntryOnce(i)'
  <2>1. UNCHANGED <<call, idOf, todo, joining, outbound, members, greeted, link, asked>>
    BY <1>1 DEF DisconnectBegins, DisconnectJoins, LoopBegins, HandshakeFails, LoopEnds, appVars, clientVars, managerVars, linkVars, historyVars
  <2>2. EntryOnce(i) /\ members[i] \in Nat
    BY <2>1 DEF OnceInv, TypeOK
  <2> QED
    BY <2>1, <2>2, TypeStep, FramesKeptSame, AskersKept, OnceKept
<1>2. ASSUME NEW o \in Objs, NEW j \in Ids, JoinRoom(o, j)
      PROVE  EntryOnce(i)'
  <2>1. /\ call[o] = "new" /\ call' = [call EXCEPT ![o] = "check"]
        /\ idOf' = [idOf EXCEPT ![o] = j]
        /\ UNCHANGED <<todo, joining, outbound, members, greeted, link, asked>>
    BY <1>2 DEF JoinRoom, IsNextRoom, managerVars, linkVars, historyVars
  <2>2. EntryOnce(i) /\ members[i] \in Nat
    BY <2>1 DEF OnceInv, TypeOK
  <2>3. idOf[o] = NoId /\ o \notin rooms /\ joining.obj # o
    BY <2>1, ObjsAssumption DEF ObjectInv
  <2>4. ManagerAsks(i)' = ManagerAsks(i) /\ WalkAsks(i)' = WalkAsks(i)
    BY <2>1, <2>3 DEF ManagerAsks, WalkAsks, ObjectInv, TypeOK
  <2>5. CASE i # j
    <3>1. Using(i)' = Using(i) /\ o \notin Using(i)
      BY <2>1, <2>3, <2>5, IdsAssumption DEF Using, TypeOK
    <3>2. CallAsks(i)' => CallAsks(i)
      BY <2>1, <3>1 DEF CallAsks, TypeOK
    <3> QED
      BY <2>1, <2>2, <2>4, <3>2, TypeStep, FramesKeptSame, OnceKept
  <2>6. CASE i = j /\ Using(i) # {}
    <3>1. PICK p \in Objs : p \in Using(i)
      BY <2>6 DEF Using
    <3>2. p # o /\ p \in Using(i)' /\ o \in Using(i)'
      BY <2>1, <2>3, <2>6, <3>1, IdsAssumption DEF Using, TypeOK
    <3>3. ~CallAsks(i)'
      BY <3>2 DEF CallAsks
    <3> QED
      BY <2>1, <2>2, <2>4, <3>3, TypeStep, FramesKeptSame, OnceKept
  <2>7. CASE i = j /\ Using(i) = {}
    <3>1. ~Asking(i) /\ ~ (members[i] > 0)
      BY <2>7 DEF UsedInv
    <3>2. ~Asking(i)'
      BY <2>1, <3>1, FramesKeptSame, AskingKept
    <3> QED
      BY <2>1, <2>2, <2>4, <3>1, <3>2 DEF EntryOnce, JoinFrame
  <2> QED
    BY <2>5, <2>6, <2>7
<1>3. ASSUME NEW o \in Objs, CreateSends(o)
      PROVE  EntryOnce(i)'
  <2>1. /\ call[o] = "creating" /\ call' = [call EXCEPT ![o] = "create"]
        /\ SendFrame(CreateFrame(o))
        /\ UNCHANGED <<idOf, todo, joining, members, greeted, link, asked>>
    BY <1>3 DEF CreateSends, CreateFrame, clientVars, managerVars, historyVars
  <2>2. EntryOnce(i) /\ members[i] \in Nat
    BY <2>1 DEF OnceInv, TypeOK
  <2>3. FramesKept(i, 0)
    BY <2>1, ClientFrames, FramesKeptBySend
  <2>4. CallAsks(i)' => CallAsks(i)
    BY <2>1 DEF CallAsks, Using, TypeOK
  <2>5. ManagerAsks(i)' = ManagerAsks(i) /\ WalkAsks(i)' = WalkAsks(i)
    BY <2>1 DEF ManagerAsks, WalkAsks
  <2> QED
    BY <2>1, <2>2, <2>3, <2>4, <2>5, TypeStep, OnceKept
<1>4. ASSUME NEW o \in Objs, CallChecks(o)
      PROVE  EntryOnce(i)'
  <2>1. /\ call[o] = "check" /\ call' = [call EXCEPT ![o] = AfterCheck(o)]
        /\ UNCHANGED <<idOf, todo, joining, outbound, members, greeted, link, asked>>
    BY <1>4 DEF CallChecks, clientVars, managerVars, linkVars, historyVars
  <2>2. EntryOnce(i) /\ members[i] \in Nat
    BY <2>1 DEF OnceInv, TypeOK
  <2>3. CallAsks(i)' => CallAsks(i)
    BY <2>1 DEF CallAsks, Using, TypeOK
  <2>4. ManagerAsks(i)' = ManagerAsks(i) /\ WalkAsks(i)' = WalkAsks(i)
    BY <2>1 DEF ManagerAsks, WalkAsks
  <2> QED
    BY <2>1, <2>2, <2>3, <2>4, TypeStep, FramesKeptSame, OnceKept
<1>5. ASSUME NEW o \in Objs, CallSends(o)
      PROVE  EntryOnce(i)'
  <2>1. /\ call[o] = "sending" /\ call' = [call EXCEPT ![o] = "push"]
        /\ SendFrame(JoinFrame(idOf[o]))
        /\ i = idOf[o] => ~ws \/ (greeted /\ Using(i) = {o})
        /\ i \notin asked
        /\ UNCHANGED <<idOf, todo, joining, members, greeted, link>>
    BY <1>5 DEF CallSends, JoinFrame, clientVars, managerVars
  <2>2. EntryOnce(i) /\ members[i] \in Nat
    BY <2>1 DEF OnceInv, TypeOK
  <2>3. idOf[o] \in Ids
    BY <2>1 DEF ObjectInv, Steps
  <2>4. CallAsks(i)' => CallAsks(i)
    BY <2>1 DEF CallAsks, Using, TypeOK
  <2>5. ManagerAsks(i)' = ManagerAsks(i) /\ WalkAsks(i)' = WalkAsks(i)
    BY <2>1 DEF ManagerAsks, WalkAsks
  <2>6. CASE i # idOf[o] \/ ~ws
    <3>1. FramesKept(i, 0)
      <4>1. CASE ~ws
        BY <2>1, <2>3, <4>1, ClientFrames, OutboundGrowth, FramesKeptSame
      <4>2. CASE i # idOf[o]
        BY <2>1, <2>3, <4>2, ClientFrames, FramesKeptBySend
      <4> QED
        BY <2>6, <4>1, <4>2
    <3> QED
      BY <2>1, <2>2, <2>4, <2>5, <3>1, TypeStep, OnceKept
  <2>7. CASE i = idOf[o] /\ ws
    <3>1. greeted /\ Using(i) = {o}
      BY <2>1, <2>7
    <3>2. CallAsks(i)
      BY <2>1, <3>1 DEF CallAsks
    <3>3. ~Asking(i) /\ members[i] = 0 /\ ~ManagerAsks(i) /\ ~WalkAsks(i)
      BY <2>2, <3>2, AskersExclude DEF EntryOnce
    <3>4. ~CallAsks(i)'
      <4>1. Using(i)' = {o} /\ call'[o] = "push"
        BY <2>1, <3>1 DEF Using, TypeOK
      <4> QED
        BY <4>1 DEF CallAsks
    <3>5. \A k \in 1 .. Len(outbound') : outbound'[k] = JoinFrame(i) => k = Len(outbound) + 1
      <4>1. ws /\ link = "up"
        BY <2>1, <2>7
      <4>2. OutboundGrows(JoinFrame(i))
        BY <2>1, <2>7, <4>1, OutboundGrowth, ClientFrames
      <4> QED
        BY <3>3, <4>2 DEF OutboundGrows, Asking
    <3>6. \A k, l \in 1 .. Len(outbound') :
            outbound'[k] = JoinFrame(i)' /\ outbound'[l] = JoinFrame(i)' => k = l
      BY <3>5 DEF JoinFrame
    <3> QED
      BY <2>1, <2>5, <3>1, <3>3, <3>4, <3>6 DEF EntryOnce
  <2> QED
    BY <2>6, <2>7
<1>6. ASSUME NEW o \in Objs, CallPushes(o)
      PROVE  EntryOnce(i)'
  <2>1. /\ call[o] = "push" /\ call' = [call EXCEPT ![o] = "done"]
        /\ UNCHANGED <<idOf, todo, joining, outbound, members, greeted, link, asked>>
    BY <1>6 DEF CallPushes, clientVars, managerVars, linkVars, historyVars
  <2>2. EntryOnce(i) /\ members[i] \in Nat
    BY <2>1 DEF OnceInv, TypeOK
  <2>3. CallAsks(i)' => CallAsks(i)
    BY <2>1 DEF CallAsks, Using, TypeOK
  <2>4. ManagerAsks(i)' = ManagerAsks(i) /\ WalkAsks(i)' = WalkAsks(i)
    BY <2>1 DEF ManagerAsks, WalkAsks
  <2> QED
    BY <2>1, <2>2, <2>3, <2>4, TypeStep, FramesKeptSame, OnceKept
<1>7. ASSUME DisconnectCloses
      PROVE  EntryOnce(i)'
  <2>1. ~ws /\ UNCHANGED <<call, idOf, todo, joining, outbound, members, greeted, link, asked>>
    BY <1>7 DEF DisconnectCloses, Closed, clientVars, managerVars, historyVars
  <2>2. EntryOnce(i) /\ members[i] \in Nat
    BY <2>1 DEF OnceInv, TypeOK
  <2> QED
    BY <2>1, <2>2, TypeStep, FramesKeptSame, AskersKept, OnceKept
<1>8. ASSUME HandshakeSucceeds
      PROVE  EntryOnce(i)'
  <2>1. mgr = "handshake" /\ UNCHANGED <<call, idOf, todo, joining, outbound, members, greeted>>
    BY <1>8 DEF HandshakeSucceeds, appVars, clientVars, historyVars
  <2>2. joining = NoJoin /\ outbound = <<>> /\ members[i] = 0
    BY <2>1 DEF PhaseInv
  <2>3. (\A k \in 1 .. Len(outbound') : FALSE) /\ members'[i] = 0 /\ joining'.obj = NoObj
    BY <2>1, <2>2 DEF NoJoin
  <2> QED
    BY <2>3 DEF EntryOnce, Asking, ManagerAsks
<1>9. ASSUME Install
      PROVE  EntryOnce(i)'
  <2>1. UNCHANGED <<call, idOf, todo, joining, outbound, greeted, asked>>
    BY <1>9 DEF Install, appVars, clientVars, historyVars
  <2>2. link = "up" /\ members' = members
    BY <1>9 DEF Install, LinkAfterInstall, Closed
  <2>3. EntryOnce(i) /\ members[i] \in Nat
    BY <2>1, <2>2 DEF OnceInv, TypeOK
  <2> QED
    BY <2>1, <2>2, <2>3, TypeStep, FramesKeptSame, AskersKept, OnceKept
<1>10. ASSUME HandleWsPayload
      PROVE  EntryOnce(i)'
  <2> DEFINE frame == Head(inbound)
  <2>1. /\ frame \in FromServer
        /\ ManagerIdle
        /\ UNCHANGED <<members, link, outbound>>
        /\ \/ HandleClientIdSet(frame)
           \/ HandleCreate(frame)
           \/ HandleError(frame)
           \/ HandleRoomFrame(frame)
    BY <1>10, HandleCases
  <2>2. 1 \in 1 .. Len(inbound) /\ inbound[1] = frame
    BY <1>10, HandleCases, InboundPopping DEF InboundPops
  <2>3. /\ frame.kind \in {"create", "createError"} => frame.obj \in Objs /\ call[frame.obj] = "create"
        /\ frame.kind = "create" => frame.id \in Ids
    BY <2>1, <2>2, ServerFrames DEF CreateInv, CreateOnce, Creates
  <2>4. joining = NoJoin /\ todo = {}
    BY <2>1 DEF ManagerIdle
  <2>5. i \notin asked
    BY <2>1 DEF HandleClientIdSet, HandleCreate, HandleError, HandleRoomFrame, historyVars
  <2>6. EntryOnce(i) /\ members[i] \in Nat
    BY <2>1, <2>5 DEF OnceInv, TypeOK
  <2>7. ~ManagerAsks(i) /\ ~WalkAsks(i)
    BY <2>4 DEF ManagerAsks, WalkAsks, NoJoin
  <2>8. frame.kind = "clientIdSet" => ~greeted
    BY <2>2 DEF PhaseInv
  <2>9. FramesKept(i, 0)
    BY <2>1, FramesKeptSame
  <2> HIDE DEF frame
  <2>10. CASE HandleClientIdSet(frame)
    <3>1. ~Asking(i) /\ members[i] = 0
      BY <2>6, <2>8, <2>10 DEF EntryOnce, HandleClientIdSet
    <3>2. ~Asking(i)' /\ members'[i] = 0
      BY <2>1, <2>9, <3>1, AskingKept
    <3>3. greeted' /\ ~ManagerAsks(i)'
      BY <2>4, <2>10 DEF HandleClientIdSet, ManagerAsks, NoJoin, clientVars
    <3>4. \A k \in 1 .. Len(outbound') : outbound'[k] # JoinFrame(i)'
      BY <3>2 DEF Asking
    <3> QED
      BY <3>2, <3>3, <3>4 DEF EntryOnce
  <2>11. CASE HandleCreate(frame)
    <3> DEFINE o == frame.obj
               j == frame.id
    <3>1. /\ call[o] = "create" /\ call' = [call EXCEPT ![o] = "done"]
          /\ idOf' = [idOf EXCEPT ![o] = j]
          /\ joining' = [obj |-> o, step |-> "check"]
          /\ i = j => Using(i) = {}
          /\ UNCHANGED <<todo, greeted>>
      BY <1>10, <2>3, <2>5, <2>11 DEF HandleCreate
    <3>2. o \in Objs /\ j \in Ids
      BY <2>3, <2>11 DEF HandleCreate
    <3> HIDE DEF o, j
    <3>3. idOf[o] = NoId
      BY <3>1, <3>2 DEF ObjectInv
    <3>4. ~WalkAsks(i)'
      BY <2>4, <3>1 DEF WalkAsks
    <3>5. CASE i = j
      <4>1. ~Asking(i) /\ ~ (members[i] > 0)
        BY <3>1, <3>5 DEF UsedInv
      <4>2. ~Asking(i)' /\ ~ (members'[i] > 0)
        BY <2>1, <2>9, <4>1, AskingKept
      <4>3. \A k \in 1 .. Len(outbound') : outbound'[k] # JoinFrame(i)'
        BY <4>2 DEF Asking
      <4>4. members'[i] = 0
        BY <2>1, <2>6, <4>1
      <4> QED
        BY <3>4, <4>2, <4>3, <4>4 DEF EntryOnce
    <3>6. CASE i # j
      <4>1. Using(i)' = Using(i) /\ o \notin Using(i)
        BY <3>1, <3>2, <3>3, <3>6, IdsAssumption DEF Using, TypeOK
      <4>2. CallAsks(i)' => CallAsks(i)
        BY <3>1, <4>1 DEF CallAsks, TypeOK
      <4>3. ~ManagerAsks(i)'
        BY <3>1, <3>2, <3>6 DEF ManagerAsks, TypeOK
      <4> QED
        BY <2>1, <2>6, <2>9, <3>1, <3>4, <4>2, <4>3, TypeStep, OnceKept
    <3> QED
      BY <3>5, <3>6
  <2>12. CASE HandleError(frame)
    <3>1. UNCHANGED <<idOf, todo, joining, greeted>>
      BY <2>12 DEF HandleError, clientVars, historyVars
    <3>2. \A o \in Objs : call'[o] = call[o] \/ (call[o] = "create" /\ call'[o] = "done")
      BY <2>3, <2>12 DEF HandleError, TypeOK
    <3>3. CallAsks(i)' => CallAsks(i)
      BY <3>1, <3>2 DEF CallAsks, Using
    <3>4. ManagerAsks(i)' = ManagerAsks(i) /\ WalkAsks(i)' = WalkAsks(i)
      BY <3>1 DEF ManagerAsks, WalkAsks
    <3> QED
      BY <2>1, <2>6, <2>9, <3>1, <3>3, <3>4, TypeStep, OnceKept
  <2>13. CASE HandleRoomFrame(frame)
    <3>1. UNCHANGED <<call, idOf, todo, joining, greeted>>
      BY <2>13 DEF HandleRoomFrame, historyVars
    <3> QED
      BY <2>1, <2>6, <2>9, <3>1, TypeStep, AskersKept, OnceKept
  <2> QED
    BY <2>1, <2>10, <2>11, <2>12, <2>13
<1>11. ASSUME NEW o \in Objs, ManagerRejoins(o)
      PROVE  EntryOnce(i)'
  <2>1. /\ joining = NoJoin /\ o \in todo /\ todo' = todo \ {o}
        /\ joining' = [obj |-> o, step |-> "check"]
        /\ UNCHANGED <<call, idOf, outbound, members, greeted, link, asked>>
    BY <1>11 DEF ManagerRejoins, appVars, clientVars, linkVars, historyVars
  <2>2. EntryOnce(i) /\ members[i] \in Nat
    BY <2>1 DEF OnceInv, TypeOK
  <2>3. (ManagerAsks(i)' => WalkAsks(i)) /\ (WalkAsks(i)' => WalkAsks(i))
    BY <2>1 DEF ManagerAsks, WalkAsks
  <2>4. ~ (ManagerAsks(i) /\ WalkAsks(i))'
    <3>1. SUFFICES ASSUME idOf[o] = i, NEW p \in todo', idOf[p] = i
                   PROVE  FALSE
      BY <2>1 DEF ManagerAsks, WalkAsks
    <3>2. p \in rooms /\ o \in rooms /\ p # o
      BY <2>1 DEF ObjectInv
    <3> QED
      BY <3>1, <3>2 DEF ObjectInv
  <2>5. CallAsks(i)' = CallAsks(i)
    BY <2>1 DEF CallAsks, Using
  <2> QED
    BY <2>1, <2>2, <2>3, <2>4, <2>5, TypeStep, FramesKeptSame, OnceKept
<1>12. ASSUME ManagerChecks
      PROVE  EntryOnce(i)'
  <2>1. /\ joining' = [joining EXCEPT !.step = AfterCheck(joining.obj)]
        /\ joining.step = "check"
        /\ UNCHANGED <<call, idOf, todo, outbound, members, greeted, link, asked>>
    BY <1>12 DEF ManagerChecks, appVars, clientVars, linkVars, historyVars
  <2>2. EntryOnce(i) /\ members[i] \in Nat
    BY <2>1 DEF OnceInv, TypeOK
  <2>3. (ManagerAsks(i)' => ManagerAsks(i)) /\ WalkAsks(i)' = WalkAsks(i) /\ CallAsks(i)' = CallAsks(i)
    BY <2>1 DEF ManagerAsks, WalkAsks, CallAsks, Using, TypeOK
  <2> QED
    BY <2>1, <2>2, <2>3, TypeStep, FramesKeptSame, OnceKept
<1>13. ASSUME ManagerSends
      PROVE  EntryOnce(i)'
  <2> DEFINE o == joining.obj
  <2>1. /\ joining.step = "sending" /\ joining' = [joining EXCEPT !.step = "push"]
        /\ SendFrame(JoinFrame(idOf[o]))
        /\ UNCHANGED <<call, idOf, todo, members, greeted, link, asked>>
    BY <1>13 DEF ManagerSends, JoinFrame, appVars, clientVars, historyVars
  <2>2. o # NoObj /\ idOf[o] \in Ids
    BY <2>1 DEF ObjectInv, NoJoin
  <2>3. EntryOnce(i) /\ members[i] \in Nat
    BY <2>1 DEF OnceInv, TypeOK
  <2>4. ~ManagerAsks(i)' /\ WalkAsks(i)' = WalkAsks(i) /\ CallAsks(i)' = CallAsks(i)
    BY <2>1 DEF ManagerAsks, WalkAsks, CallAsks, Using, TypeOK
  <2> HIDE DEF o
  <2>5. CASE i # idOf[o]
    <3>1. FramesKept(i, 0)
      BY <2>1, <2>2, <2>5, ClientFrames, FramesKeptBySend
    <3> QED
      BY <2>1, <2>3, <2>4, <3>1, TypeStep, OnceKept
  <2>6. CASE i = idOf[o]
    <3>1. ManagerAsks(i)
      BY <2>1, <2>2, <2>6 DEF o, ManagerAsks
    <3>2. ~Asking(i) /\ members[i] = 0 /\ ~WalkAsks(i) /\ ~CallAsks(i)
      BY <2>3, <3>1, AskersExclude DEF EntryOnce
    <3>3. greeted
      BY <2>1 DEF PhaseInv, NoJoin
    <3>4. \A k \in 1 .. Len(outbound') : outbound'[k] = JoinFrame(i) => k = Len(outbound) + 1
      <4>1. ws /\ link = "up"
        BY <2>1, <3>3 DEF PhaseInv
      <4>2. OutboundGrows(JoinFrame(i))
        BY <2>1, <2>6, <4>1, OutboundGrowth, ClientFrames
      <4> QED
        BY <3>2, <4>2 DEF OutboundGrows, Asking
    <3>5. \A k, l \in 1 .. Len(outbound') :
            outbound'[k] = JoinFrame(i)' /\ outbound'[l] = JoinFrame(i)' => k = l
      BY <3>4 DEF JoinFrame
    <3> QED
      BY <2>1, <2>4, <3>2, <3>3, <3>5 DEF EntryOnce
  <2> QED
    BY <2>5, <2>6
<1>14. ASSUME ManagerPushes
      PROVE  EntryOnce(i)'
  <2>1. /\ joining' = NoJoin
        /\ UNCHANGED <<call, idOf, todo, outbound, members, greeted, link, asked>>
    BY <1>14 DEF ManagerPushes, appVars, linkVars, historyVars
  <2>2. EntryOnce(i) /\ members[i] \in Nat
    BY <2>1 DEF OnceInv, TypeOK
  <2>3. ~ManagerAsks(i)' /\ WalkAsks(i)' = WalkAsks(i) /\ CallAsks(i)' = CallAsks(i)
    BY <2>1 DEF ManagerAsks, WalkAsks, CallAsks, Using, NoJoin
  <2> QED
    BY <2>1, <2>2, <2>3, TypeStep, FramesKeptSame, OnceKept
<1>15. ASSUME RecvLoopEnds
      PROVE  EntryOnce(i)'
  BY <1>15 DEF RecvLoopEnds
<1>16. ASSUME ServerAnswers
      PROVE  EntryOnce(i)'
  <2>1. /\ UNCHANGED <<call, idOf, todo, joining, greeted, link, asked>>
        /\ \/ \E j \in Ids : AnswersJoin(j) \/ AnswersError(j)
           \/ \E o \in Objs, j \in Ids : AnswersCreate(o, j)
           \/ \E o \in Objs : AnswersCreateError(o)
    BY <1>16, ServerAnswersCases DEF appVars, clientVars, managerVars
  <2>2. EntryOnce(i) /\ members[i] \in Nat
    BY <2>1 DEF OnceInv, TypeOK
  <2>3. OutboundPops
    BY <1>16, AnswerFrames
  <2>4. FramesKept(i, 1)
    BY <2>3, FramesKeptByPop
  <2>5. members'[i] = members[i] \/ AnswersJoin(i)
    BY <2>1 DEF AnswersJoin, AnswersError, AnswersCreate, AnswersCreateError, TypeOK
  <2>6. CASE members'[i] = members[i]
    BY <2>1, <2>2, <2>4, <2>6, TypeStep, AskersKept, OnceKept
  <2>7. CASE AnswersJoin(i)
    <3>1. outbound[1] = JoinFrame(i) /\ 1 \in 1 .. Len(outbound)
      BY <2>3, <2>7 DEF AnswersJoin, OutboundPops
    <3>2. Asking(i)
      BY <3>1 DEF Asking
    <3>3. members[i] = 0 /\ greeted /\ ~ManagerAsks(i) /\ ~WalkAsks(i) /\ ~CallAsks(i)
      BY <2>2, <3>2 DEF EntryOnce
    <3>4. members'[i] = 1
      BY <2>7, <3>3 DEF AnswersJoin, TypeOK
    <3>5. \A l \in 1 .. Len(outbound) : outbound[l] = JoinFrame(i) => l = 1
      BY <2>2, <3>1 DEF EntryOnce
    <3>6. \A k \in 1 .. Len(outbound') : outbound'[k] # JoinFrame(i)'
      BY <2>3, <3>5 DEF OutboundPops, JoinFrame
    <3>7. ~ManagerAsks(i)' /\ ~WalkAsks(i)' /\ ~CallAsks(i)' /\ greeted' /\ ~Asking(i)'
      BY <2>1, <3>3, <3>6, AskersKept DEF Asking
    <3> QED
      BY <3>4, <3>6, <3>7 DEF EntryOnce
  <2> QED
    BY <2>5, <2>6, <2>7
<1>17. ASSUME NEW j \in Ids, ServerRemoves(j)
      PROVE  EntryOnce(i)'
  <2>1. /\ UNCHANGED <<call, idOf, todo, joining, outbound, greeted, link, asked>>
        /\ members[j] > 0 /\ members' = [members EXCEPT ![j] = @ - 1]
    BY <1>17 DEF ServerRemoves, appVars, clientVars, managerVars
  <2>2. EntryOnce(i) /\ members[i] \in Nat /\ members'[i] <= members[i]
    BY <2>1 DEF OnceInv, TypeOK
  <2> QED
    BY <2>1, <2>2, TypeStep, FramesKeptSame, AskersKept, OnceKept
<1>18. ASSUME ConnectionDies
      PROVE  EntryOnce(i)'
  BY <1>18 DEF ConnectionDies
<1>19. CASE UNCHANGED vars
  <2>1. UNCHANGED <<call, idOf, todo, joining, outbound, members, greeted, link, asked>>
    BY <1>19 DEF vars, appVars, clientVars, managerVars, linkVars, historyVars
  <2>2. EntryOnce(i) /\ members[i] \in Nat
    BY <2>1 DEF OnceInv, TypeOK
  <2> QED
    BY <2>1, <2>2, TypeStep, FramesKeptSame, AskersKept, OnceKept
<1> QED
  BY <1>1, <1>2, <1>3, <1>4, <1>5, <1>6, <1>7, <1>8, <1>9, <1>10, <1>11,
     <1>12, <1>13, <1>14, <1>15, <1>16, <1>17, <1>18, <1>19
  DEF Next, CallStep, ManagerStep, ServerStep, Quiet

-------------------------------------------------------------------------------
(***************************************************************************)
(* joined is true for a reason.                                            *)
(***************************************************************************)

LEMMA TruthInit == ASSUME Init PROVE TruthInv
BY DEF Init, TruthInv

LEMMA TruthStep ==
  ASSUME TypeOK, PhaseInv, ObjectInv, CreateInv, TruthInv, [Next]_vars, ~Quiet
  PROVE  TruthInv'
<1>1. ASSUME \/ \E o \in Objs : CreateSends(o)
             \/ \E o \in Objs : CallChecks(o)
             \/ \E o \in Objs : CallSends(o)
             \/ \E o \in Objs : CallPushes(o)
             \/ DisconnectBegins
             \/ DisconnectJoins
             \/ \E o \in Objs : ManagerRejoins(o)
             \/ ManagerChecks
             \/ ManagerSends
             \/ ManagerPushes
      PROVE  TruthInv'
  <2>1. UNCHANGED <<joined, idOf, missed, members, removed, inbound, link, mgr>>
    BY <1>1
       DEF CreateSends, CallChecks, CallSends, CallPushes, DisconnectBegins, DisconnectJoins,
           ManagerRejoins, ManagerChecks, ManagerSends, ManagerPushes,
           appVars, clientVars, managerVars, linkVars, historyVars
  <2> QED
    BY <2>1 DEF TruthInv
<1>2. ASSUME NEW o \in Objs, NEW i \in Ids, JoinRoom(o, i)
      PROVE  TruthInv'
  <2>1. /\ call[o] = "new" /\ idOf' = [idOf EXCEPT ![o] = i]
        /\ UNCHANGED <<joined, missed, members, removed, inbound, link, mgr>>
    BY <1>2 DEF JoinRoom, IsNextRoom, managerVars, linkVars, historyVars
  <2>2. ~joined[o]
    BY <2>1, IdsAssumption DEF ObjectInv
  <2> QED
    BY <2>1, <2>2 DEF TruthInv, TypeOK
<1>3. ASSUME DisconnectCloses
      PROVE  TruthInv'
  <2>1. UNCHANGED <<joined, idOf, missed, removed, inbound, mgr>>
    BY <1>3 DEF DisconnectCloses, clientVars, managerVars, historyVars
  <2>2. link' = "up" => link = "up" /\ members' = members
    BY <1>3 DEF DisconnectCloses, Closed
  <2> QED
    BY <2>1, <2>2 DEF TruthInv
<1>4. ASSUME LoopBegins
      PROVE  TruthInv'
  BY <1>4 DEF LoopBegins, TruthInv, appVars, clientVars, managerVars, linkVars, historyVars
<1>5. ASSUME HandshakeFails
      PROVE  TruthInv'
  BY <1>5 DEF HandshakeFails, TruthInv, appVars, clientVars, managerVars, linkVars, historyVars
<1>6. ASSUME HandshakeSucceeds
      PROVE  TruthInv'
  <2>1. mgr = "handshake" /\ mgr' = "install" /\ UNCHANGED <<joined, missed>>
    BY <1>6 DEF HandshakeSucceeds, clientVars, historyVars
  <2>2. \A k \in 1 .. Len(inbound') : inbound'[k].kind = "clientIdSet"
    BY <1>6 DEF HandshakeSucceeds
  <2> QED
    BY <2>1, <2>2 DEF TruthInv
<1>7. ASSUME Install
      PROVE  TruthInv'
  <2>1. UNCHANGED <<joined, idOf, missed, removed, inbound>> /\ mgr' = "receiving"
    BY <1>7 DEF Install, clientVars, historyVars
  <2>2. link' = "up" => link = "up" /\ members' = members
    BY <1>7 DEF Install, LinkAfterInstall, Closed
  <2> QED
    BY <2>1, <2>2 DEF TruthInv
<1>8. ASSUME HandleWsPayload
      PROVE  TruthInv'
  <2> DEFINE frame == Head(inbound)
  <2>1. /\ frame \in FromServer
        /\ ManagerIdle
        /\ UNCHANGED <<mgr, members, link>>
        /\ \/ HandleClientIdSet(frame)
           \/ HandleCreate(frame)
           \/ HandleError(frame)
           \/ HandleRoomFrame(frame)
    BY <1>8, HandleCases
  <2>2. InboundPops
    BY <1>8, HandleCases, InboundPopping
  <2>3. 1 \in 1 .. Len(inbound) /\ inbound[1] = frame
    BY <2>2 DEF InboundPops
  <2>4. frame.kind = "create" => frame.obj \in Objs /\ call[frame.obj] = "create" /\ frame.id \in Ids
    BY <2>1, <2>3, ServerFrames DEF CreateInv, CreateOnce, Creates
  <2>5. frame.kind \in {"joinedRoom", "removedFromRoom"} => frame.id \in Ids
    BY <2>1, ServerFrames
  <2>6. mgr' = "receiving"
    BY <2>1 DEF ManagerIdle
  <2>7. removed' = removed /\ missed \subseteq missed'
    BY <2>1 DEF HandleClientIdSet, HandleCreate, HandleError, HandleRoomFrame, historyVars
  <2>8. ASSUME NEW k \in 1 .. Len(inbound'), inbound'[k].kind = "joinedRoom", link = "up"
        PROVE  members[inbound'[k].id] > 0 \/ inbound'[k].id \in removed
    BY <2>2, <2>8 DEF InboundPops, TruthInv
  <2> HIDE DEF frame
  <2>9. ASSUME NEW o \in Objs, o \notin missed', joined'[o], link = "up"
        PROVE  members[idOf'[o]] > 0 \/ idOf'[o] \in removed
    <3>1. o \notin missed
      BY <2>7, <2>9
    <3>2. CASE HandleClientIdSet(frame) \/ HandleError(frame)
      BY <2>9, <3>1, <3>2 DEF HandleClientIdSet, HandleError, TruthInv, clientVars
    <3>3. CASE HandleCreate(frame)
      <4>1. joined[o] /\ idOf' = [idOf EXCEPT ![frame.obj] = frame.id]
        BY <2>9, <3>3 DEF HandleCreate
      <4>2. o # frame.obj
        BY <2>4, <3>3, <4>1, IdsAssumption DEF HandleCreate, ObjectInv
      <4> QED
        BY <2>9, <3>1, <4>1, <4>2 DEF TruthInv, TypeOK
    <3>4. CASE HandleRoomFrame(frame)
      <4>1. idOf' = idOf
        BY <3>4 DEF HandleRoomFrame
      <4>2. CASE handler[frame.id] = o
        <5>1. frame.kind = "joinedRoom"
          BY <2>9, <3>4, <4>2 DEF HandleRoomFrame
        <5>2. idOf[o] = frame.id
          BY <2>5, <4>2, <5>1, ObjsAssumption DEF ObjectInv
        <5> QED
          BY <2>3, <2>9, <4>1, <5>1, <5>2 DEF TruthInv
      <4>3. CASE handler[frame.id] # o
        <5>1. joined[o]
          BY <2>9, <3>4, <4>3 DEF HandleRoomFrame
        <5> QED
          BY <2>9, <3>1, <4>1, <5>1 DEF TruthInv
      <4> QED
        BY <4>2, <4>3
    <3> QED
      BY <2>1, <3>2, <3>3, <3>4
  <2> QED
    BY <2>1, <2>6, <2>7, <2>8, <2>9 DEF TruthInv
<1>9. ASSUME RecvLoopEnds
      PROVE  TruthInv'
  BY <1>9 DEF RecvLoopEnds, TruthInv
<1>10. ASSUME LoopEnds
      PROVE  TruthInv'
  <2>1. mgr = "lost" /\ link' = link
    BY <1>10 DEF LoopEnds, linkVars
  <2>2. link' # "up"
    BY <2>1 DEF PhaseInv
  <2>3. mgr' \in {"top", "handshake", "install"} => \A o \in Objs : joined'[o] => o \in missed'
    BY <1>10 DEF LoopEnds, JoinedAfterLoss
  <2> QED
    BY <2>2, <2>3 DEF TruthInv
<1>11. ASSUME ServerAnswers
      PROVE  TruthInv'
  <2>1. /\ UNCHANGED <<joined, idOf, missed, removed, link, mgr>>
        /\ \/ \E i \in Ids : AnswersJoin(i) \/ AnswersError(i)
           \/ \E o \in Objs, i \in Ids : AnswersCreate(o, i)
           \/ \E o \in Objs : AnswersCreateError(o)
    BY <1>11, ServerAnswersCases DEF clientVars, managerVars
  <2>2. \A i \in Ids : members[i] > 0 => members'[i] > 0
    <3>1. (\E i \in Ids : AnswersJoin(i)) \/ members' = members
      BY <2>1 DEF AnswersError, AnswersCreate, AnswersCreateError
    <3>2. ASSUME NEW i \in Ids, NEW j \in Ids, AnswersJoin(j), members[i] > 0
          PROVE  members'[i] > 0
      <4>1. members[i] \in Nat /\ members'[i] \in {members[i], members[i] + 1}
        BY <3>2 DEF AnswersJoin, TypeOK
      <4> QED
        BY <3>2, <4>1
    <3> QED
      BY <3>1, <3>2
  <2>3. PICK frame : InboundGrows(frame) /\ (frame.kind = "joinedRoom" => members'[frame.id] > 0)
    <3>1. ASSUME NEW i \in Ids, AnswersJoin(i)
          PROVE  \E frame : InboundGrows(frame) /\ (frame.kind = "joinedRoom" => members'[frame.id] > 0)
      <4>1. InboundGrows([kind |-> "joinedRoom", id |-> i])
        BY <1>11, <3>1, AnswerFrames
      <4>2. members'[i] > 0
        BY <3>1 DEF AnswersJoin, TypeOK
      <4> QED
        BY <4>1, <4>2
    <3>2. ASSUME NEW i \in Ids, AnswersError(i)
          PROVE  \E frame : InboundGrows(frame) /\ (frame.kind = "joinedRoom" => members'[frame.id] > 0)
      <4>1. InboundGrows([kind |-> "error", id |-> i])
        BY <1>11, <3>2, AnswerFrames
      <4> QED
        BY <4>1
    <3>3. ASSUME NEW o \in Objs, NEW i \in Ids, AnswersCreate(o, i)
          PROVE  \E frame : InboundGrows(frame) /\ (frame.kind = "joinedRoom" => members'[frame.id] > 0)
      <4>1. InboundGrows([kind |-> "create", obj |-> o, id |-> i])
        BY <1>11, <3>3, AnswerFrames
      <4> QED
        BY <4>1
    <3>4. ASSUME NEW o \in Objs, AnswersCreateError(o)
          PROVE  \E frame : InboundGrows(frame) /\ (frame.kind = "joinedRoom" => members'[frame.id] > 0)
      <4>1. InboundGrows([kind |-> "createError", obj |-> o])
        BY <1>11, <3>4, AnswerFrames
      <4> QED
        BY <4>1
    <3> QED
      BY <2>1, <3>1, <3>2, <3>3, <3>4
  <2>4. SUFFICES ASSUME link = "up"
                 PROVE  TruthInv'
    BY <2>1 DEF TruthInv
  <2>5. ASSUME NEW o \in Objs, o \notin missed, joined[o]
        PROVE  members'[idOf[o]] > 0 \/ idOf[o] \in removed
    BY <2>2, <2>4, <2>5 DEF TruthInv, ObjectInv
  <2>6. ASSUME NEW k \in 1 .. Len(inbound'), inbound'[k].kind = "joinedRoom"
        PROVE  members'[inbound'[k].id] > 0 \/ inbound'[k].id \in removed
    <3>1. CASE k = Len(inbound) + 1
      BY <2>3, <2>6, <3>1 DEF InboundGrows
    <3>2. CASE k # Len(inbound) + 1
      <4>1. k \in 1 .. Len(inbound) /\ inbound'[k] = inbound[k]
        BY <2>3, <3>2 DEF InboundGrows
      <4>2. inbound[k] \in FromServer
        BY <4>1 DEF TypeOK
      <4>3. inbound[k].id \in Ids
        BY <2>6, <4>1, <4>2, ServerFrames
      <4> QED
        BY <2>2, <2>4, <2>6, <4>1, <4>3 DEF TruthInv
    <3> QED
      BY <3>1, <3>2
  <2> QED
    BY <2>1, <2>5, <2>6 DEF TruthInv
<1>12. ASSUME NEW i \in Ids, ServerRemoves(i)
      PROVE  TruthInv'
  <2>1. /\ UNCHANGED <<joined, idOf, missed, link, mgr>>
        /\ members' = [members EXCEPT ![i] = @ - 1]
        /\ removed' = removed \cup {i}
        /\ link = "up"
    BY <1>12 DEF ServerRemoves, clientVars, managerVars
  <2>2. \A j \in Ids : members[j] > 0 \/ j \in removed => members'[j] > 0 \/ j \in removed'
    BY <2>1 DEF TypeOK
  <2>3. InboundGrows([kind |-> "removedFromRoom", id |-> i])
    BY <1>12, RemovalFrames
  <2>4. ASSUME NEW o \in Objs, o \notin missed, joined[o]
        PROVE  members'[idOf[o]] > 0 \/ idOf[o] \in removed'
    BY <2>1, <2>2, <2>4 DEF TruthInv, ObjectInv
  <2>5. ASSUME NEW k \in 1 .. Len(inbound'), inbound'[k].kind = "joinedRoom"
        PROVE  members'[inbound'[k].id] > 0 \/ inbound'[k].id \in removed'
    <3>1. k # Len(inbound) + 1
      BY <2>3, <2>5 DEF InboundGrows
    <3>2. k \in 1 .. Len(inbound) /\ inbound'[k] = inbound[k]
      BY <2>3, <3>1 DEF InboundGrows
    <3>3. inbound[k] \in FromServer
      BY <3>2 DEF TypeOK
    <3>4. inbound[k].id \in Ids
      BY <2>5, <3>2, <3>3, ServerFrames
    <3> QED
      BY <2>1, <2>2, <2>5, <3>2, <3>4 DEF TruthInv
  <2> QED
    BY <2>1, <2>4, <2>5 DEF TruthInv
<1>13. ASSUME ConnectionDies
      PROVE  TruthInv'
  <2>1. UNCHANGED <<joined, missed, mgr>> /\ link' = "dead"
    BY <1>13 DEF ConnectionDies, clientVars, managerVars, historyVars
  <2> QED
    BY <2>1 DEF TruthInv
<1>14. CASE UNCHANGED vars
  <2>1. UNCHANGED <<joined, idOf, missed, members, removed, inbound, link, mgr>>
    BY <1>14 DEF vars, appVars, clientVars, managerVars, linkVars, historyVars
  <2> QED
    BY <2>1 DEF TruthInv
<1> QED
  BY <1>1, <1>2, <1>3, <1>4, <1>5, <1>6, <1>7, <1>8, <1>9, <1>10, <1>11,
     <1>12, <1>13, <1>14
  DEF Next, CallStep, ManagerStep, ServerStep, Quiet

-------------------------------------------------------------------------------
(***************************************************************************)
(* joined is what the server says.                                         *)
(***************************************************************************)

LEMMA ViewInit == ASSUME Init PROVE ViewInv
BY DEF Init, ViewInv

LEMMA NewsKeptSame ==
  ASSUME inbound' = inbound, NEW i \in Ids
  PROVE  News(i)' = News(i)
BY DEF News, IsNews

(* A frame that says nothing about room i is added, or taken.              *)
LEMMA NewsKeptByGrowth ==
  ASSUME NEW frame, InboundGrows(frame), NEW i \in Ids, ~IsNews(frame, i)
  PROVE  News(i)' = News(i) /\ \A k \in News(i) : inbound'[k] = inbound[k]
<1>1. ASSUME NEW k \in 1 .. Len(inbound'), IsNews(inbound'[k], i)
      PROVE  k \in 1 .. Len(inbound) /\ IsNews(inbound[k], i)
  BY <1>1 DEF InboundGrows
<1>2. ASSUME NEW k \in 1 .. Len(inbound), IsNews(inbound[k], i)
      PROVE  k \in 1 .. Len(inbound') /\ IsNews(inbound'[k], i) /\ inbound'[k] = inbound[k]
  BY <1>2 DEF InboundGrows
<1> QED
  BY <1>1, <1>2 DEF News, IsNews

LEMMA NewsPop ==
  ASSUME InboundPops, NEW i \in Ids
  PROVE  /\ \A k \in News(i)' : k \in Nat /\ k + 1 \in News(i) /\ inbound'[k] = inbound[k + 1]
         /\ \A k \in News(i) : k \in Nat /\ (k = 1 \/ k - 1 \in News(i)')
         /\ 1 \in News(i) <=> IsNews(Head(inbound), i)
<1>1. ASSUME NEW k \in 1 .. Len(inbound'), IsNews(inbound'[k], i)
      PROVE  k \in Nat /\ k + 1 \in 1 .. Len(inbound) /\ IsNews(inbound[k + 1], i) /\ inbound'[k] = inbound[k + 1]
  BY <1>1 DEF InboundPops
<1>2. ASSUME NEW k \in 1 .. Len(inbound), IsNews(inbound[k], i), k # 1
      PROVE  k - 1 \in 1 .. Len(inbound') /\ IsNews(inbound'[k - 1], i)
  <2>1. k - 1 \in 1 .. Len(inbound') /\ (k - 1) + 1 = k
    BY <1>2 DEF InboundPops
  <2>2. inbound'[k - 1] = inbound[(k - 1) + 1]
    BY <2>1 DEF InboundPops
  <2> QED
    BY <1>2, <2>1, <2>2
<1>3. 1 \in 1 .. Len(inbound) /\ inbound[1] = Head(inbound)
  BY DEF InboundPops
<1>4. \A k \in News(i)' : k \in Nat /\ k + 1 \in News(i) /\ inbound'[k] = inbound[k + 1]
  BY <1>1 DEF News, IsNews
<1>5. \A k \in News(i) : k \in Nat /\ (k = 1 \/ k - 1 \in News(i)')
  BY <1>2 DEF News, IsNews, InboundPops
<1> QED
  BY <1>3, <1>4, <1>5 DEF News

(* The last news under way stays the last.                                 *)
LEMMA LastNewsPops ==
  ASSUME InboundPops, NEW i \in Ids, LastNews(i), members'[i] = members[i]
  PROVE  LastNews(i)'
<1> SUFFICES ASSUME NEW m \in News(i)'
             PROVE  \E k \in News(i)' : /\ \A l \in News(i)' : l <= k
                                         /\ (inbound'[k].kind = "joinedRoom") = (members'[i] > 0)
  BY DEF LastNews
<1>1. m \in Nat /\ m + 1 \in News(i)
  BY NewsPop
<1>2. PICK k \in News(i) : /\ \A l \in News(i) : l <= k
                           /\ (inbound[k].kind = "joinedRoom") = (members[i] > 0)
  BY <1>1 DEF LastNews
<1>3. k \in Nat /\ m + 1 <= k
  BY <1>1, <1>2, NewsPop
<1>4. k # 1 /\ m \in Nat \ {0}
  BY <1>3, NewsPop DEF News
<1>5. k - 1 \in News(i)' /\ (k - 1) + 1 = k
  BY <1>2, <1>3, <1>4, NewsPop
<1>6. inbound'[k - 1] = inbound[(k - 1) + 1]
  BY <1>5, NewsPop
<1>7. ASSUME NEW l \in News(i)'
      PROVE  l <= k - 1
  <2>1. l \in Nat /\ l + 1 \in News(i)
    BY NewsPop
  <2> QED
    BY <1>2, <1>3, <2>1
<1> QED
  BY <1>2, <1>5, <1>6, <1>7

(* A frame handled that says nothing about room i.                         *)
LEMMA ViewKeptByPop ==
  ASSUME InboundPops, NEW i \in Ids, LastNews(i), HandlerView(i), ~IsNews(Head(inbound), i),
         members'[i] = members[i], missed \subseteq missed', handler'[i] = handler[i],
         handler[i] \in Objs => /\ joined'[handler[i]] = joined[handler[i]]
                                /\ call'[handler[i]] = call[handler[i]]
  PROVE  LastNews(i)' /\ HandlerView(i)'
<1>1. News(i)' = {} => News(i) = {}
  BY NewsPop
<1> QED
  BY <1>1, LastNewsPops DEF HandlerView

(* The handlers and what they know, when nothing is said.                  *)
LEMMA ViewKept ==
  ASSUME UNCHANGED <<inbound, handler, joined, missed>>, NEW i \in Ids, LastNews(i), HandlerView(i),
         members'[i] = members[i],
         \/ handler[i] \notin Objs
         \/ call'[handler[i]] = call[handler[i]]
         \/ call'[handler[i]] \notin {"check", "send", "sending"} /\ (members[i] > 0 => joined[handler[i]])
         \/ call[handler[i]] \notin {"check", "send", "sending"}
  PROVE  LastNews(i)' /\ HandlerView(i)'
BY NewsKeptSame DEF LastNews, HandlerView

(* News of room i comes last when it is sent.                              *)
LEMMA NewsAdded ==
  ASSUME NEW i \in Ids, NEW kind \in {"joinedRoom", "removedFromRoom"},
         InboundGrows([kind |-> kind, id |-> i]),
         (kind = "joinedRoom") = (members'[i] > 0)
  PROVE  LastNews(i)' /\ HandlerView(i)'
<1> DEFINE last == Len(inbound) + 1
           frame == [kind |-> kind, id |-> i]
<1>1. inbound'[last] = frame /\ last \in 1 .. Len(inbound') /\ Len(inbound') = last /\ last \in Nat
  BY DEF InboundGrows
<1>2. IsNews(frame, i) /\ frame.kind = kind
  BY DEF IsNews
<1> HIDE DEF last, frame
<1>3. last \in News(i)'
  BY <1>1, <1>2 DEF News, IsNews
<1>4. \A k \in News(i)' : k \in Nat /\ k <= last
  BY <1>1 DEF News
<1>5. (inbound'[last].kind = "joinedRoom") = (members'[i] > 0)
  BY <1>1, <1>2
<1> QED
  BY <1>3, <1>4, <1>5 DEF LastNews, HandlerView

LEMMA ViewStep ==
  ASSUME TypeOK, PhaseInv, ObjectInv, CreateInv, UsedInv, OnceInv, TruthInv, ViewInv, [Next]_vars, ~Quiet
  PROVE  ViewInv'
<1> SUFFICES ASSUME NEW i \in Ids, i \notin asked', link' = "up"
             PROVE  LastNews(i)' /\ HandlerView(i)'
  BY DEF ViewInv
<1>1. ASSUME \/ DisconnectBegins
             \/ DisconnectJoins
             \/ LoopBegins
             \/ HandshakeFails
             \/ \E o \in Objs : ManagerRejoins(o)
             \/ ManagerChecks
             \/ ManagerSends
             \/ ManagerPushes
      PROVE  LastNews(i)' /\ HandlerView(i)'
  <2>1. UNCHANGED <<inbound, members, handler, joined, missed, call, link, asked>>
    BY <1>1
       DEF DisconnectBegins, DisconnectJoins, LoopBegins, HandshakeFails, ManagerRejoins,
           ManagerChecks, ManagerSends, ManagerPushes,
           appVars, clientVars, managerVars, linkVars, historyVars
  <2>2. LastNews(i) /\ HandlerView(i)
    BY <2>1 DEF ViewInv
  <2> QED
    BY <2>1, <2>2, ViewKept
<1>2. ASSUME NEW o \in Objs, NEW j \in Ids, JoinRoom(o, j)
      PROVE  LastNews(i)' /\ HandlerView(i)'
  <2>1. /\ UNCHANGED <<inbound, members, joined, missed, link, asked>>
        /\ call[o] = "new" /\ call' = [call EXCEPT ![o] = "check"]
        /\ handler' = [handler EXCEPT ![j] = o]
    BY <1>2 DEF JoinRoom, IsNextRoom, managerVars, linkVars, historyVars
  <2>2. LastNews(i) /\ HandlerView(i)
    BY <2>1 DEF ViewInv
  <2>3. idOf[o] = NoId /\ ~joined[o]
    BY <2>1, IdsAssumption DEF ObjectInv
  <2>4. CASE i = j
    <3>1. handler'[i] = o /\ call'[o] = "check"
      BY <2>1, <2>4 DEF TypeOK
    <3> QED
      BY <2>1, <2>2, <2>3, <3>1, NewsKeptSame DEF LastNews, HandlerView
  <2>5. CASE i # j
    <3>1. handler'[i] = handler[i]
      BY <2>1, <2>5 DEF TypeOK
    <3>2. handler[i] # o
      BY <2>3, IdsAssumption, ObjsAssumption DEF ObjectInv
    <3>3. handler[i] \in Objs => call'[handler[i]] = call[handler[i]]
      BY <2>1, <3>2 DEF TypeOK
    <3> QED
      BY <2>1, <2>2, <3>1, <3>3, NewsKeptSame DEF LastNews, HandlerView
  <2> QED
    BY <2>4, <2>5
<1>3. ASSUME NEW o \in Objs, CreateSends(o)
      PROVE  LastNews(i)' /\ HandlerView(i)'
  <2>1. /\ UNCHANGED <<inbound, members, handler, joined, missed, link, asked>>
        /\ call[o] = "creating" /\ call' = [call EXCEPT ![o] = "create"]
    BY <1>3 DEF CreateSends, clientVars, historyVars
  <2>2. LastNews(i) /\ HandlerView(i)
    BY <2>1 DEF ViewInv
  <2>3. call[handler[i]] = call'[handler[i]] \/ handler[i] = o
    BY <2>1 DEF TypeOK
  <2> QED
    BY <2>1, <2>2, <2>3, ViewKept
<1>4. ASSUME NEW o \in Objs, CallChecks(o)
      PROVE  LastNews(i)' /\ HandlerView(i)'
  <2>1. /\ UNCHANGED <<inbound, members, handler, joined, missed, link, asked>>
        /\ call[o] = "check" /\ call' = [call EXCEPT ![o] = IF joined[o] THEN "push" ELSE "send"]
    BY <1>4 DEF CallChecks, AfterCheck, clientVars, linkVars, historyVars
  <2>2. LastNews(i) /\ HandlerView(i)
    BY <2>1 DEF ViewInv
  <2>3. CASE handler[i] # o
    <3>1. handler[i] \in Objs => call'[handler[i]] = call[handler[i]]
      BY <2>1, <2>3 DEF TypeOK
    <3> QED
      BY <2>1, <2>2, <3>1, ViewKept
  <2>4. CASE handler[i] = o /\ joined[o]
    <3>1. call'[o] = "push"
      BY <2>1, <2>4 DEF TypeOK
    <3> QED
      BY <2>1, <2>2, <2>4, <3>1, ViewKept
  <2>5. CASE handler[i] = o /\ ~joined[o]
    <3>1. call'[o] = "send"
      BY <2>1, <2>5 DEF TypeOK
    <3> QED
      BY <2>1, <2>2, <2>5, <3>1, NewsKeptSame DEF LastNews, HandlerView
  <2> QED
    BY <2>3, <2>4, <2>5
<1>5. ASSUME NEW o \in Objs, CallSends(o)
      PROVE  LastNews(i)' /\ HandlerView(i)'
  <2>1. /\ UNCHANGED <<inbound, members, handler, joined, missed, link>>
        /\ call[o] = "sending" /\ call' = [call EXCEPT ![o] = "push"]
        /\ i = idOf[o] => ~ws \/ (greeted /\ Using(i) = {o})
        /\ i \notin asked
    BY <1>5 DEF CallSends, clientVars
  <2>2. LastNews(i) /\ HandlerView(i)
    BY <2>1 DEF ViewInv
  <2>3. CASE handler[i] # o
    <3>1. handler[i] \in Objs => call'[handler[i]] = call[handler[i]]
      BY <2>1, <2>3 DEF TypeOK
    <3> QED
      BY <2>1, <2>2, <3>1, ViewKept
  <2>4. CASE handler[i] = o
    <3>1. idOf[o] = i
      BY <2>4, ObjsAssumption DEF ObjectInv
    <3>2. members[i] = 0
      <4>1. CASE ~ws
        BY <4>1 DEF PhaseInv
      <4>2. CASE Using(i) = {o}
        <5>1. CallAsks(i)
          BY <2>1, <4>2 DEF CallAsks
        <5> QED
          BY <2>1, <5>1 DEF OnceInv, EntryOnce
      <4> QED
        BY <2>1, <3>1, <4>1, <4>2
    <3>3. call'[o] = "push"
      BY <2>1 DEF TypeOK
    <3> QED
      BY <2>1, <2>2, <2>4, <3>2, <3>3, ViewKept
  <2> QED
    BY <2>3, <2>4
<1>6. ASSUME NEW o \in Objs, CallPushes(o)
      PROVE  LastNews(i)' /\ HandlerView(i)'
  <2>1. /\ UNCHANGED <<inbound, members, handler, joined, missed, link, asked>>
        /\ call[o] = "push" /\ call' = [call EXCEPT ![o] = "done"]
    BY <1>6 DEF CallPushes, linkVars, historyVars
  <2>2. LastNews(i) /\ HandlerView(i)
    BY <2>1 DEF ViewInv
  <2>3. call[handler[i]] = call'[handler[i]] \/ handler[i] = o
    BY <2>1 DEF TypeOK
  <2> QED
    BY <2>1, <2>2, <2>3, ViewKept
<1>7. ASSUME DisconnectCloses
      PROVE  LastNews(i)' /\ HandlerView(i)'
  <2>1. UNCHANGED <<inbound, members, handler, joined, missed, call, link, asked>>
    BY <1>7 DEF DisconnectCloses, Closed, clientVars, historyVars
  <2>2. LastNews(i) /\ HandlerView(i)
    BY <2>1 DEF ViewInv
  <2> QED
    BY <2>1, <2>2, ViewKept
<1>8. ASSUME HandshakeSucceeds
      PROVE  LastNews(i)' /\ HandlerView(i)'
  <2>1. mgr = "handshake" /\ UNCHANGED <<handler, joined, missed, members>>
    BY <1>8 DEF HandshakeSucceeds, clientVars, historyVars
  <2>2. members[i] = 0
    BY <2>1 DEF PhaseInv
  <2>3. \A k \in 1 .. Len(inbound') : inbound'[k].kind = "clientIdSet"
    BY <1>8 DEF HandshakeSucceeds
  <2>4. News(i)' = {}
    BY <2>3 DEF News, IsNews
  <2>5. \A o \in Objs : joined[o] => o \in missed
    BY <2>1 DEF TruthInv
  <2> QED
    BY <2>1, <2>2, <2>4, <2>5 DEF LastNews, HandlerView
<1>9. ASSUME Install
      PROVE  LastNews(i)' /\ HandlerView(i)'
  <2>1. UNCHANGED <<inbound, members, handler, joined, missed, call, link, asked>>
    BY <1>9 DEF Install, LinkAfterInstall, Closed, appVars, clientVars, historyVars
  <2>2. LastNews(i) /\ HandlerView(i)
    BY <2>1 DEF ViewInv
  <2> QED
    BY <2>1, <2>2, ViewKept
<1>10. ASSUME HandleWsPayload
      PROVE  LastNews(i)' /\ HandlerView(i)'
  <2> DEFINE frame == Head(inbound)
  <2>1. /\ frame \in FromServer
        /\ UNCHANGED <<members, link>>
        /\ \/ HandleClientIdSet(frame)
           \/ HandleCreate(frame)
           \/ HandleError(frame)
           \/ HandleRoomFrame(frame)
    BY <1>10, HandleCases
  <2>2. InboundPops
    BY <1>10, HandleCases, InboundPopping
  <2>3. 1 \in 1 .. Len(inbound) /\ inbound[1] = frame
    BY <2>2 DEF InboundPops
  <2>4. /\ frame.kind \in {"create", "createError"} => frame.obj \in Objs /\ call[frame.obj] = "create"
        /\ frame.kind = "create" => frame.id \in Ids
    BY <2>1, <2>3, ServerFrames DEF CreateInv, CreateOnce, Creates
  <2>5. frame.kind \in {"joinedRoom", "removedFromRoom"} => frame.id \in Ids
    BY <2>1, ServerFrames
  <2>6. i \notin asked /\ missed \subseteq missed'
    BY <2>1 DEF HandleClientIdSet, HandleCreate, HandleError, HandleRoomFrame, historyVars
  <2>7. LastNews(i) /\ HandlerView(i)
    BY <2>1, <2>6 DEF ViewInv
  <2>8. handler[i] \in Objs => idOf[handler[i]] = i
    BY ObjsAssumption DEF ObjectInv
  <2>9. ASSUME NEW o \in Objs, call[o] = "create"
        PROVE  handler[i] # o /\ ~joined[o]
    BY <2>8, <2>9, IdsAssumption DEF ObjectInv
  <2>10. \A o \in Objs : call'[o] = call[o] \/ call[o] = "create"
    BY <2>1, <2>4 DEF HandleClientIdSet, HandleCreate, HandleError, HandleRoomFrame, TypeOK, clientVars
  <2>11. handler[i] \in Objs => call'[handler[i]] = call[handler[i]]
    BY <2>9, <2>10
  <2>12. ~IsNews(frame, i) => ~IsNews(Head(inbound), i)
    OBVIOUS
  <2> HIDE DEF frame
  <2>13. CASE HandleClientIdSet(frame) \/ HandleError(frame)
    <3>1. UNCHANGED <<handler, joined>> /\ ~IsNews(frame, i)
      BY <2>13 DEF HandleClientIdSet, HandleError, IsNews, clientVars
    <3> QED
      BY <2>1, <2>2, <2>6, <2>7, <2>11, <2>12, <3>1, ViewKeptByPop
  <2>14. CASE HandleCreate(frame)
    <3>1. /\ joined' = joined /\ ~IsNews(frame, i)
          /\ handler' = [handler EXCEPT ![frame.id] = frame.obj]
          /\ frame.id = i => Using(i) = {}
          /\ frame.kind = "create"
      BY <1>10, <2>14 DEF HandleCreate, IsNews
    <3>2. CASE frame.id # i
      <4>1. handler'[i] = handler[i]
        BY <3>1, <3>2 DEF TypeOK
      <4> QED
        BY <2>1, <2>2, <2>6, <2>7, <2>11, <2>12, <3>1, <4>1, ViewKeptByPop
    <3>3. CASE frame.id = i
      <4>1. ~ (members[i] > 0)
        BY <3>1, <3>3 DEF UsedInv
      <4>2. handler'[i] = frame.obj /\ ~joined'[frame.obj]
        BY <2>4, <2>9, <3>1, <3>3 DEF TypeOK
      <4>3. HandlerView(i)'
        BY <2>1, <4>1, <4>2 DEF HandlerView
      <4> QED
        BY <2>1, <2>2, <2>7, <4>3, LastNewsPops
    <3> QED
      BY <3>2, <3>3
  <2>15. CASE HandleRoomFrame(frame)
    <3>1. /\ UNCHANGED <<handler, missed>>
          /\ joined' = [o \in Objs |-> IF handler[frame.id] = o THEN frame.kind = "joinedRoom" ELSE joined[o]]
          /\ frame.kind \in {"joinedRoom", "removedFromRoom"}
      BY <2>15 DEF HandleRoomFrame, historyVars
    <3>2. CASE frame.id # i
      <4>1. ~IsNews(frame, i)
        BY <3>2 DEF IsNews
      <4>2. handler[i] \in Objs => handler[frame.id] # handler[i]
        BY <2>5, <2>8, <3>1, <3>2, ObjsAssumption DEF ObjectInv
      <4>3. handler[i] \in Objs => joined'[handler[i]] = joined[handler[i]]
        BY <3>1, <4>2
      <4> QED
        BY <2>1, <2>2, <2>6, <2>7, <2>11, <2>12, <3>1, <4>1, <4>3, ViewKeptByPop
    <3>3. CASE frame.id = i
      <4>1. LastNews(i)'
        BY <2>1, <2>2, <2>7, LastNewsPops
      <4>2. ASSUME News(i)' = {}, handler[i] \in Objs
            PROVE  joined'[handler[i]] = (members[i] > 0)
        <5>1. 1 \in News(i)
          BY <2>3, <3>1, <3>3 DEF News, IsNews
        <5>2. \A l \in News(i) : l = 1
          BY <2>2, <4>2, NewsPop
        <5>3. (frame.kind = "joinedRoom") = (members[i] > 0)
          BY <2>3, <2>7, <5>1, <5>2 DEF LastNews
        <5> QED
          BY <3>1, <3>3, <4>2, <5>3
      <4>3. HandlerView(i)'
        BY <2>1, <3>1, <4>2 DEF HandlerView
      <4> QED
        BY <4>1, <4>3
    <3> QED
      BY <3>2, <3>3
  <2> QED
    BY <2>1, <2>13, <2>14, <2>15
<1>11. ASSUME RecvLoopEnds
      PROVE  LastNews(i)' /\ HandlerView(i)'
  BY <1>11 DEF RecvLoopEnds
<1>12. ASSUME LoopEnds
      PROVE  LastNews(i)' /\ HandlerView(i)'
  <2>1. mgr = "lost" /\ link = "up"
    BY <1>12 DEF LoopEnds, linkVars
  <2> QED
    BY <2>1 DEF PhaseInv
<1>13. ASSUME ServerAnswers
      PROVE  LastNews(i)' /\ HandlerView(i)'
  <2>1. /\ UNCHANGED <<handler, joined, missed, call, link, asked>>
        /\ \/ \E j \in Ids : AnswersJoin(j) \/ AnswersError(j)
           \/ \E o \in Objs, j \in Ids : AnswersCreate(o, j)
           \/ \E o \in Objs : AnswersCreateError(o)
    BY <1>13, ServerAnswersCases DEF appVars, clientVars
  <2>2. LastNews(i) /\ HandlerView(i)
    BY <2>1 DEF ViewInv
  <2>3. CASE AnswersJoin(i)
    <3>1. InboundGrows([kind |-> "joinedRoom", id |-> i])
      BY <1>13, <2>3, AnswerFrames
    <3>2. members'[i] > 0
      BY <2>3 DEF AnswersJoin, TypeOK
    <3> QED
      BY <3>1, <3>2, NewsAdded
  <2>4. ASSUME NEW frame, InboundGrows(frame), ~IsNews(frame, i), members'[i] = members[i]
        PROVE  LastNews(i)' /\ HandlerView(i)'
    BY <2>1, <2>2, <2>4, NewsKeptByGrowth DEF LastNews, HandlerView
  <2>5. ASSUME NEW j \in Ids, AnswersJoin(j), j # i
        PROVE  LastNews(i)' /\ HandlerView(i)'
    <3>1. InboundGrows([kind |-> "joinedRoom", id |-> j]) /\ ~IsNews([kind |-> "joinedRoom", id |-> j], i)
      BY <1>13, <2>5, AnswerFrames DEF IsNews
    <3>2. members'[i] = members[i]
      BY <2>5 DEF AnswersJoin, TypeOK
    <3> QED
      BY <2>4, <3>1, <3>2
  <2>6. ASSUME NEW j \in Ids, AnswersError(j)
        PROVE  LastNews(i)' /\ HandlerView(i)'
    <3>1. InboundGrows([kind |-> "error", id |-> j]) /\ ~IsNews([kind |-> "error", id |-> j], i)
      BY <1>13, <2>6, AnswerFrames DEF IsNews
    <3> QED
      BY <2>4, <2>6, <3>1 DEF AnswersError
  <2>7. ASSUME NEW o \in Objs, NEW j \in Ids, AnswersCreate(o, j)
        PROVE  LastNews(i)' /\ HandlerView(i)'
    <3>1. /\ InboundGrows([kind |-> "create", obj |-> o, id |-> j])
          /\ ~IsNews([kind |-> "create", obj |-> o, id |-> j], i)
      BY <1>13, <2>7, AnswerFrames DEF IsNews
    <3> QED
      BY <2>4, <2>7, <3>1 DEF AnswersCreate
  <2>8. ASSUME NEW o \in Objs, AnswersCreateError(o)
        PROVE  LastNews(i)' /\ HandlerView(i)'
    <3>1. /\ InboundGrows([kind |-> "createError", obj |-> o])
          /\ ~IsNews([kind |-> "createError", obj |-> o], i)
      BY <1>13, <2>8, AnswerFrames DEF IsNews
    <3> QED
      BY <2>4, <2>8, <3>1 DEF AnswersCreateError
  <2> QED
    BY <2>1, <2>3, <2>5, <2>6, <2>7, <2>8
<1>14. ASSUME NEW j \in Ids, ServerRemoves(j)
      PROVE  LastNews(i)' /\ HandlerView(i)'
  <2>1. /\ UNCHANGED <<handler, joined, missed, call, link, asked>>
        /\ members[j] > 0 /\ members' = [members EXCEPT ![j] = @ - 1]
    BY <1>14 DEF ServerRemoves, appVars, clientVars
  <2>2. LastNews(i) /\ HandlerView(i)
    BY <2>1 DEF ViewInv
  <2>3. InboundGrows([kind |-> "removedFromRoom", id |-> j])
    BY <1>14, RemovalFrames
  <2>4. CASE i = j
    <3>1. members[i] <= 1
      BY <2>1 DEF OnceInv, EntryOnce
    <3>2. ~ (members'[i] > 0)
      BY <2>1, <2>4, <3>1 DEF TypeOK
    <3>3. ("removedFromRoom" = "joinedRoom") = (members'[i] > 0)
      BY <3>2
    <3>4. InboundGrows([kind |-> "removedFromRoom", id |-> i])
      BY <2>3, <2>4
    <3> QED
      BY <3>3, <3>4, NewsAdded
  <2>5. CASE i # j
    <3>1. ~IsNews([kind |-> "removedFromRoom", id |-> j], i) /\ members'[i] = members[i]
      BY <2>1, <2>5 DEF IsNews, TypeOK
    <3>2. News(i)' = News(i) /\ \A k \in News(i) : inbound'[k] = inbound[k]
      BY <2>3, <3>1, NewsKeptByGrowth
    <3> QED
      BY <2>1, <2>2, <3>1, <3>2 DEF LastNews, HandlerView
  <2> QED
    BY <2>4, <2>5
<1>15. ASSUME ConnectionDies
      PROVE  LastNews(i)' /\ HandlerView(i)'
  BY <1>15 DEF ConnectionDies
<1>16. CASE UNCHANGED vars
  <2>1. UNCHANGED <<inbound, members, handler, joined, missed, call, link, asked>>
    BY <1>16 DEF vars, appVars, clientVars, managerVars, linkVars, historyVars
  <2>2. LastNews(i) /\ HandlerView(i)
    BY <2>1 DEF ViewInv
  <2> QED
    BY <2>1, <2>2, ViewKept
<1> QED
  BY <1>1, <1>2, <1>3, <1>4, <1>5, <1>6, <1>7, <1>8, <1>9, <1>10, <1>11,
     <1>12, <1>13, <1>14, <1>15, <1>16
  DEF Next, CallStep, ManagerStep, ServerStep, Quiet

-------------------------------------------------------------------------------
(***************************************************************************)
(* Every room is entered again.                                            *)
(***************************************************************************)

LEMMA RejoinInit == ASSUME Init PROVE RejoinInv
BY DEF Init, RejoinInv

LEMMA RejoinOf ==
  ASSUME RejoinInv, link = "up", greeted, NEW o \in Objs, o \notin missed, Asked(o),
         NEW i \in Ids, idOf[o] = i, i \notin removed, i \notin refused
  PROVE  members[i] > 0 \/ Asking(i)
BY DEF RejoinInv

(* A frame that is on its way stays so while frames are added.             *)
LEMMA AskingStays ==
  ASSUME TypeOK, NEW frame \in FromClient, SendFrame(frame), NEW i \in Ids
  PROVE  /\ Asking(i) => Asking(i)'
         /\ ws /\ link = "up" /\ frame = JoinFrame(i) => Asking(i)'
<1>1. CASE ws /\ link = "up"
  <2>1. OutboundGrows(frame)
    BY <1>1, OutboundGrowth
  <2>2. \A k \in 1 .. Len(outbound) : k \in 1 .. Len(outbound') /\ outbound'[k] = outbound[k]
    BY <2>1 DEF OutboundGrows
  <2>3. Len(outbound) + 1 \in 1 .. Len(outbound') /\ outbound'[Len(outbound) + 1] = frame
    BY <2>1 DEF OutboundGrows
  <2> QED
    BY <2>2, <2>3 DEF Asking, JoinFrame
<1>2. CASE ~ (ws /\ link = "up")
  <2>1. outbound' = outbound
    BY <1>2, OutboundGrowth
  <2> QED
    BY <1>2, <2>1 DEF Asking, JoinFrame
<1> QED
  BY <1>1, <1>2

LEMMA AskingPops ==
  ASSUME OutboundPops, NEW i \in Ids, Asking(i), Head(outbound) # JoinFrame(i)
  PROVE  Asking(i)'
<1>1. PICK k \in 1 .. Len(outbound) : outbound[k] = JoinFrame(i)
  BY DEF Asking
<1>2. k # 1
  BY <1>1 DEF OutboundPops
<1>3. k - 1 \in 1 .. Len(outbound') /\ (k - 1) + 1 = k
  BY <1>2 DEF OutboundPops
<1>4. outbound'[k - 1] = outbound[(k - 1) + 1]
  BY <1>3 DEF OutboundPops
<1> QED
  BY <1>1, <1>3, <1>4 DEF Asking, JoinFrame

LEMMA AskingSame ==
  ASSUME outbound' = outbound, NEW i \in Ids
  PROVE  Asking(i)' = Asking(i)
BY DEF Asking, JoinFrame

LEMMA RejoinStep ==
  ASSUME TypeOK, PhaseInv, ObjectInv, CreateInv, TruthInv, RejoinInv, [Next]_vars, ~Quiet
  PROVE  RejoinInv'
<1> SUFFICES ASSUME NEW o \in Objs, NEW i \in Ids, idOf'[o] = i, o \notin missed', Asked(o)',
                    i \notin removed', i \notin refused', link' = "up", greeted'
             PROVE  members'[i] > 0 \/ Asking(i)'
  <2>1. \A o \in Objs : Asked(o)' => idOf'[o] \in Ids
    BY TypeStep, ObjectStep, ObjsAssumption DEF Asked, ObjectInv, TypeOK, Steps
  <2>2. SUFFICES ASSUME link' = "up", greeted', NEW o \in Objs, o \notin missed', Asked(o)',
                        idOf'[o] \notin removed', idOf'[o] \notin refused'
                 PROVE  members'[idOf'[o]] > 0 \/ Asking(idOf[o])'
    BY DEF RejoinInv
  <2>3. PICK i \in Ids : i = idOf'[o]
    BY <2>1, <2>2
  <2>4. Asking(idOf[o])' = Asking(i)'
    BY <2>3 DEF Asking, JoinFrame
  <2> QED
    BY <2>2, <2>3, <2>4
<1>1. ASSUME \/ DisconnectBegins
             \/ DisconnectJoins
             \/ LoopBegins
             \/ HandshakeFails
      PROVE  members'[i] > 0 \/ Asking(i)'
  <2>1. UNCHANGED <<outbound, members, rooms, idOf, call, todo, joining, link, greeted, removed, refused, missed>>
    BY <1>1
       DEF DisconnectBegins, DisconnectJoins, LoopBegins, HandshakeFails,
           appVars, clientVars, managerVars, linkVars, historyVars
  <2>2. Asked(o)
    BY <2>1 DEF Asked
  <2> QED
    BY <2>1, <2>2, RejoinOf, AskingSame
<1>2. ASSUME NEW p \in Objs, NEW j \in Ids, JoinRoom(p, j)
      PROVE  members'[i] > 0 \/ Asking(i)'
  <2>1. /\ call[p] = "new" /\ call' = [call EXCEPT ![p] = "check"]
        /\ idOf' = [idOf EXCEPT ![p] = j]
        /\ UNCHANGED <<outbound, members, rooms, todo, joining, link, greeted, removed, refused, missed>>
    BY <1>2 DEF JoinRoom, IsNextRoom, managerVars, linkVars, historyVars
  <2>2. p \notin rooms /\ joining.obj # p
    BY <2>1, ObjsAssumption DEF ObjectInv
  <2>3. o # p /\ Asked(o) /\ idOf[o] = i
    BY <2>1, <2>2 DEF Asked, TypeOK
  <2> QED
    BY <2>1, <2>3, RejoinOf, AskingSame
<1>3. ASSUME NEW p \in Objs, CreateSends(p)
      PROVE  members'[i] > 0 \/ Asking(i)'
  <2>1. /\ call[p] = "creating" /\ call' = [call EXCEPT ![p] = "create"]
        /\ UNCHANGED <<idOf, members, rooms, todo, joining, link, greeted, removed, refused, missed>>
        /\ SendFrame(CreateFrame(p))
    BY <1>3 DEF CreateSends, CreateFrame, clientVars, managerVars, historyVars
  <2>2. Asked(o)
    BY <2>1 DEF Asked, TypeOK
  <2> QED
    BY <2>1, <2>2, RejoinOf, AskingStays, ClientFrames
<1>4. ASSUME NEW p \in Objs, CallChecks(p)
      PROVE  members'[i] > 0 \/ Asking(i)'
  <2>1. /\ call[p] = "check" /\ call' = [call EXCEPT ![p] = IF joined[p] THEN "push" ELSE "send"]
        /\ UNCHANGED <<idOf, outbound, members, rooms, todo, joining, link, greeted, removed, refused, missed>>
    BY <1>4 DEF CallChecks, AfterCheck, clientVars, managerVars, linkVars, historyVars
  <2>2. CASE Asked(o)
    BY <2>1, <2>2, RejoinOf, AskingSame
  <2>3. CASE ~Asked(o)
    <3>1. o = p /\ joined[o]
      BY <2>1, <2>3 DEF Asked, TypeOK
    <3> QED
      BY <2>1, <3>1 DEF TruthInv
  <2> QED
    BY <2>2, <2>3
<1>5. ASSUME NEW p \in Objs, CallSends(p)
      PROVE  members'[i] > 0 \/ Asking(i)'
  <2>1. /\ call[p] = "sending" /\ call' = [call EXCEPT ![p] = "push"]
        /\ UNCHANGED <<idOf, members, rooms, todo, joining, link, greeted, removed, refused, missed>>
        /\ SendFrame(JoinFrame(idOf[p]))
    BY <1>5 DEF CallSends, JoinFrame, clientVars, managerVars
  <2>2. idOf[p] \in Ids
    BY <2>1 DEF ObjectInv, Steps
  <2>3. CASE o = p
    BY <2>1, <2>2, <2>3, AskingStays, ClientFrames DEF PhaseInv
  <2>4. CASE o # p
    <3>1. Asked(o)
      BY <2>1, <2>4 DEF Asked, TypeOK
    <3> QED
      BY <2>1, <2>2, <3>1, RejoinOf, AskingStays, ClientFrames
  <2> QED
    BY <2>3, <2>4
<1>6. ASSUME NEW p \in Objs, CallPushes(p)
      PROVE  members'[i] > 0 \/ Asking(i)'
  <2>1. /\ call[p] = "push" /\ call' = [call EXCEPT ![p] = "done"]
        /\ rooms' \subseteq rooms \cup {p}
        /\ UNCHANGED <<idOf, outbound, members, todo, joining, link, greeted, removed, refused, missed>>
    BY <1>6 DEF CallPushes, Push, managerVars, linkVars, historyVars
  <2>2. Asked(o)
    BY <2>1 DEF Asked, TypeOK
  <2> QED
    BY <2>1, <2>2, RejoinOf, AskingSame
<1>7. ASSUME DisconnectCloses
      PROVE  members'[i] > 0 \/ Asking(i)'
  <2>1. UNCHANGED <<outbound, members, rooms, idOf, call, todo, joining, link, greeted, removed, refused, missed>>
    BY <1>7 DEF DisconnectCloses, Closed, clientVars, managerVars, historyVars
  <2>2. Asked(o)
    BY <2>1 DEF Asked
  <2> QED
    BY <2>1, <2>2, RejoinOf, AskingSame
<1>8. ASSUME HandshakeSucceeds
      PROVE  members'[i] > 0 \/ Asking(i)'
  <2>1. mgr = "handshake" /\ greeted
    BY <1>8 DEF HandshakeSucceeds, historyVars
  <2> QED
    BY <2>1 DEF PhaseInv
<1>9. ASSUME Install
      PROVE  members'[i] > 0 \/ Asking(i)'
  <2>1. mgr = "install" /\ greeted
    BY <1>9 DEF Install, historyVars
  <2> QED
    BY <2>1 DEF PhaseInv
<1>10. ASSUME HandleWsPayload
      PROVE  members'[i] > 0 \/ Asking(i)'
  <2> DEFINE frame == Head(inbound)
  <2>1. /\ frame \in FromServer
        /\ ManagerIdle
        /\ UNCHANGED <<members, link, outbound>>
        /\ \/ HandleClientIdSet(frame)
           \/ HandleCreate(frame)
           \/ HandleError(frame)
           \/ HandleRoomFrame(frame)
    BY <1>10, HandleCases
  <2>2. 1 \in 1 .. Len(inbound) /\ inbound[1] = frame
    BY <1>10, HandleCases, InboundPopping DEF InboundPops
  <2>3. frame.kind \in {"create", "createError"} => frame.obj \in Objs /\ call[frame.obj] = "create"
    BY <2>1, <2>2, ServerFrames DEF CreateInv, CreateOnce, Creates
  <2>4. joining = NoJoin /\ todo = {}
    BY <2>1 DEF ManagerIdle
  <2>5. joining.obj # o
    BY <2>4, ObjsAssumption DEF NoJoin
  <2>6. o \notin missed /\ i \notin removed /\ i \notin refused
    BY <2>1 DEF HandleClientIdSet, HandleCreate, HandleError, HandleRoomFrame, historyVars
  <2> HIDE DEF frame
  <2>7. CASE HandleClientIdSet(frame)
    <3>1. /\ todo' = rooms /\ missed' = missed \cup {p \in Objs : call[p] = "push"}
          /\ UNCHANGED <<rooms, joining, call>>
      BY <2>7 DEF HandleClientIdSet, RoomsSnapshot, clientVars
    <3> QED
      BY <2>5, <3>1 DEF Asked
  <2>8. CASE HandleCreate(frame)
    <3>1. /\ idOf' = [idOf EXCEPT ![frame.obj] = frame.id]
          /\ joining' = [obj |-> frame.obj, step |-> "check"]
          /\ call' = [call EXCEPT ![frame.obj] = "done"]
          /\ UNCHANGED <<rooms, todo, greeted>>
          /\ frame.obj \in Objs /\ call[frame.obj] = "create"
      BY <2>3, <2>8 DEF HandleCreate
    <3>2. o # frame.obj
      BY <3>1 DEF Asked, TypeOK
    <3>3. Asked(o) /\ idOf[o] = i
      BY <2>5, <3>1, <3>2 DEF Asked, TypeOK
    <3> QED
      BY <2>1, <2>6, <3>1, <3>3, RejoinOf, AskingSame
  <2>9. CASE HandleError(frame) \/ HandleRoomFrame(frame)
    <3>1. UNCHANGED <<rooms, idOf, todo, joining, greeted>>
      BY <2>9 DEF HandleError, HandleRoomFrame, clientVars, historyVars
    <3>2. \A p \in Objs : call'[p] = "push" => call[p] = "push"
      BY <2>3, <2>9 DEF HandleError, HandleRoomFrame, TypeOK
    <3>3. Asked(o)
      BY <3>1, <3>2 DEF Asked
    <3> QED
      BY <2>1, <2>6, <3>1, <3>3, RejoinOf, AskingSame
  <2> QED
    BY <2>1, <2>7, <2>8, <2>9
<1>11. ASSUME NEW p \in Objs, ManagerRejoins(p)
      PROVE  members'[i] > 0 \/ Asking(i)'
  <2>1. /\ joining = NoJoin /\ p \in todo /\ todo' = todo \ {p}
        /\ joining' = [obj |-> p, step |-> "check"]
        /\ UNCHANGED <<idOf, call, outbound, members, rooms, link, greeted, removed, refused, missed>>
    BY <1>11 DEF ManagerRejoins, appVars, clientVars, linkVars, historyVars
  <2>2. call[p] = "done"
    BY <2>1 DEF ObjectInv
  <2>3. Asked(o)
    BY <2>1, <2>2, ObjsAssumption DEF Asked, NoJoin
  <2> QED
    BY <2>1, <2>3, RejoinOf, AskingSame
<1>12. ASSUME ManagerChecks
      PROVE  members'[i] > 0 \/ Asking(i)'
  <2>1. /\ joining' = [joining EXCEPT !.step = IF joined[joining.obj] THEN "push" ELSE "send"]
        /\ UNCHANGED <<idOf, call, outbound, members, rooms, todo, link, greeted, removed, refused, missed>>
    BY <1>12 DEF ManagerChecks, AfterCheck, appVars, clientVars, linkVars, historyVars
  <2>2. CASE Asked(o)
    BY <2>1, <2>2, RejoinOf, AskingSame
  <2>3. CASE ~Asked(o)
    <3>1. joining.obj = o /\ joined[o]
      BY <2>1, <2>3 DEF Asked, TypeOK
    <3> QED
      BY <2>1, <3>1 DEF TruthInv
  <2> QED
    BY <2>2, <2>3
<1>13. ASSUME ManagerSends
      PROVE  members'[i] > 0 \/ Asking(i)'
  <2>1. /\ joining.step = "sending" /\ joining' = [joining EXCEPT !.step = "push"]
        /\ UNCHANGED <<idOf, call, members, rooms, todo, link, greeted, removed, refused, missed>>
        /\ SendFrame(JoinFrame(idOf[joining.obj]))
    BY <1>13 DEF ManagerSends, JoinFrame, appVars, clientVars, historyVars
  <2>2. idOf[joining.obj] \in Ids
    BY <2>1 DEF ObjectInv, NoJoin
  <2>3. CASE o = joining.obj
    BY <2>1, <2>2, <2>3, AskingStays, ClientFrames DEF PhaseInv
  <2>4. CASE o # joining.obj
    <3>1. Asked(o)
      BY <2>1, <2>4 DEF Asked, TypeOK
    <3> QED
      BY <2>1, <2>2, <3>1, RejoinOf, AskingStays, ClientFrames
  <2> QED
    BY <2>3, <2>4
<1>14. ASSUME ManagerPushes
      PROVE  members'[i] > 0 \/ Asking(i)'
  <2>1. /\ joining.step = "push" /\ joining' = NoJoin
        /\ rooms' \subseteq rooms \cup {joining.obj}
        /\ UNCHANGED <<idOf, call, outbound, members, todo, link, greeted, removed, refused, missed>>
    BY <1>14 DEF ManagerPushes, Push, appVars, linkVars, historyVars
  <2>2. Asked(o)
    BY <2>1, ObjsAssumption DEF Asked, NoJoin
  <2> QED
    BY <2>1, <2>2, RejoinOf, AskingSame
<1>15. ASSUME RecvLoopEnds
      PROVE  members'[i] > 0 \/ Asking(i)'
  BY <1>15 DEF RecvLoopEnds
<1>16. ASSUME LoopEnds
      PROVE  members'[i] > 0 \/ Asking(i)'
  <2>1. mgr = "lost" /\ link = "up"
    BY <1>16 DEF LoopEnds, linkVars
  <2> QED
    BY <2>1 DEF PhaseInv
<1>17. ASSUME ServerAnswers
      PROVE  members'[i] > 0 \/ Asking(i)'
  <2>1. /\ UNCHANGED <<rooms, idOf, call, todo, joining, link, greeted, removed, missed>>
        /\ \/ \E j \in Ids : AnswersJoin(j) \/ AnswersError(j)
           \/ \E p \in Objs, j \in Ids : AnswersCreate(p, j)
           \/ \E p \in Objs : AnswersCreateError(p)
    BY <1>17, ServerAnswersCases DEF appVars, clientVars, managerVars
  <2>2. OutboundPops
    BY <1>17, AnswerFrames
  <2>3. Asked(o)
    BY <2>1 DEF Asked
  <2>4. i \notin refused
    BY <2>1 DEF AnswersJoin, AnswersError, AnswersCreate, AnswersCreateError
  <2>5. ASSUME Head(outbound) # JoinFrame(i), members'[i] = members[i]
        PROVE  members'[i] > 0 \/ Asking(i)'
    BY <2>1, <2>2, <2>3, <2>4, <2>5, RejoinOf, AskingPops
  <2>6. ASSUME NEW j \in Ids, AnswersJoin(j)
        PROVE  members'[i] > 0 \/ Asking(i)'
    <3>1. CASE i = j
      BY <2>6, <3>1 DEF AnswersJoin, TypeOK
    <3>2. CASE i # j
      <4>1. Head(outbound) # JoinFrame(i) /\ members'[i] = members[i]
        BY <2>6, <3>2, ClientFrames DEF AnswersJoin, TypeOK
      <4> QED
        BY <2>5, <4>1
    <3> QED
      BY <3>1, <3>2
  <2>7. ASSUME NEW j \in Ids, AnswersError(j)
        PROVE  members'[i] > 0 \/ Asking(i)'
    <3>1. i # j
      BY <2>7 DEF AnswersError
    <3>2. Head(outbound) # JoinFrame(i) /\ members'[i] = members[i]
      BY <2>7, <3>1, ClientFrames DEF AnswersError
    <3> QED
      BY <2>5, <3>2
  <2>8. ASSUME NEW p \in Objs, AnswersCreateError(p) \/ \E j \in Ids : AnswersCreate(p, j)
        PROVE  members'[i] > 0 \/ Asking(i)'
    <3>1. Head(outbound) # JoinFrame(i) /\ members'[i] = members[i]
      BY <2>8, ClientFrames DEF AnswersCreate, AnswersCreateError
    <3> QED
      BY <2>5, <3>1
  <2> QED
    BY <2>1, <2>6, <2>7, <2>8
<1>18. ASSUME NEW j \in Ids, ServerRemoves(j)
      PROVE  members'[i] > 0 \/ Asking(i)'
  <2>1. /\ UNCHANGED <<outbound, rooms, idOf, call, todo, joining, link, greeted, refused, missed>>
        /\ removed' = removed \cup {j} /\ members' = [members EXCEPT ![j] = @ - 1]
    BY <1>18 DEF ServerRemoves, appVars, clientVars, managerVars
  <2>2. i # j /\ i \notin removed
    BY <2>1
  <2>3. members'[i] = members[i] /\ Asked(o)
    BY <2>1, <2>2 DEF Asked, TypeOK
  <2> QED
    BY <2>1, <2>2, <2>3, RejoinOf, AskingSame
<1>19. ASSUME ConnectionDies
      PROVE  members'[i] > 0 \/ Asking(i)'
  BY <1>19 DEF ConnectionDies
<1>20. CASE UNCHANGED vars
  <2>1. UNCHANGED <<outbound, members, rooms, idOf, call, todo, joining, link, greeted, removed, refused, missed>>
    BY <1>20 DEF vars, appVars, clientVars, managerVars, linkVars, historyVars
  <2>2. Asked(o)
    BY <2>1 DEF Asked
  <2> QED
    BY <2>1, <2>2, RejoinOf, AskingSame
<1> QED
  BY <1>1, <1>2, <1>3, <1>4, <1>5, <1>6, <1>7, <1>8, <1>9, <1>10, <1>11,
     <1>12, <1>13, <1>14, <1>15, <1>16, <1>17, <1>18, <1>19, <1>20
  DEF Next, CallStep, ManagerStep, ServerStep, Quiet

-------------------------------------------------------------------------------
(***************************************************************************)
(* The theorems.                                                           *)
(***************************************************************************)

LEMMA ClientInvInit == ASSUME Init PROVE ClientInv
BY TypeInit, PhaseInit, ObjectInit, CreateInit, UsedInit, OnceInit, TruthInit, ViewInit, RejoinInit
   DEF ClientInv

(* What a quiet step may change.                                           *)
LEMMA QuietChanges ==
  ASSUME TypeOK, Quiet
  PROVE  /\ UNCHANGED <<mgr, ws, rooms, handler, idOf, joined, todo, link, inbound, outbound, connections,
                        members, greeted, removed, refused, asked, missed>>
         /\ \/ joining' = joining
            \/ joining.step = "send" /\ joining' = [joining EXCEPT !.step = "sending"]
         /\ \A o \in Objs : \/ call'[o] = call[o]
                            \/ call[o] = "send" /\ call'[o] = "sending"
                            \/ call[o] = "new" /\ call'[o] = "creating"
         /\ TypeOK'
<1>1. ASSUME NEW o \in Objs, CreateRoom(o) \/ CallLocks(o)
      PROVE  /\ UNCHANGED <<running, stopper, clientVars, managerVars, members, linkVars, historyVars>>
             /\ \/ call[o] = "send" /\ call' = [call EXCEPT ![o] = "sending"]
                \/ call[o] = "new" /\ call' = [call EXCEPT ![o] = "creating"]
  BY <1>1 DEF CreateRoom, CallLocks, IsNextRoom
<1>2. ASSUME ManagerLocks
      PROVE  /\ UNCHANGED <<running, appVars, clientVars, mgr, ws, todo, members, linkVars, historyVars>>
             /\ joining.step = "send" /\ joining' = [joining EXCEPT !.step = "sending"]
  BY <1>2 DEF ManagerLocks
<1>3. ASSUME DisconnectLocks
      PROVE  /\ UNCHANGED <<running, call, clientVars, managerVars, members, linkVars, historyVars>>
             /\ stopper' \in {stopper, "closing"}
  BY <1>3 DEF DisconnectLocks, appVars, TypeOK
<1> QED
  <2>1. CASE \E o \in Objs : CreateRoom(o) \/ CallLocks(o)
    BY <2>1, <1>1 DEF TypeOK, Steps, clientVars, managerVars, linkVars, historyVars
  <2>2. CASE ManagerLocks
    BY <2>2, <1>2 DEF TypeOK, Steps, appVars, clientVars, linkVars, historyVars
  <2>3. CASE DisconnectLocks
    BY <2>3, <1>3 DEF TypeOK, clientVars, managerVars, linkVars, historyVars
  <2> QED
    BY <2>1, <2>2, <2>3 DEF Quiet

LEMMA QuietStep == ASSUME ClientInv, Quiet PROVE ClientInv'
<1>1. TypeOK /\ PhaseInv /\ ObjectInv /\ CreateInv /\ UsedInv /\ OnceInv /\ TruthInv /\ ViewInv /\ RejoinInv
  BY DEF ClientInv
<1>2. TypeOK'
  BY <1>1, QuietChanges
<1>3. UNCHANGED <<mgr, ws, rooms, handler, idOf, joined, todo, link, inbound, outbound, connections,
                  members, greeted, removed, refused, asked, missed>>
  BY <1>1, QuietChanges
<1>4. /\ joining'.obj = joining.obj
      /\ joining'.step = "push" <=> joining.step = "push"
      /\ joining = NoJoin => joining' = NoJoin
  BY <1>1, QuietChanges DEF TypeOK, NoJoin
<1>5. \A o \in Objs : \/ call'[o] = call[o]
                      \/ call[o] = "send" /\ call'[o] = "sending"
                      \/ call[o] = "new" /\ call'[o] = "creating"
  BY <1>1, QuietChanges
<1>6. PhaseInv'
  BY <1>1, <1>3, <1>4 DEF PhaseInv
<1>7. ObjectInv'
  <2>1. joining.obj = NoObj => joining' = NoJoin
    BY <1>1, <1>4 DEF ObjectInv
  <2>2. \A o \in Objs : call[o] = "done" => call'[o] = "done"
    BY <1>5
  <2>3. \A o \in Objs : /\ call'[o] \in {"new", "creating", "create"} => idOf[o] = NoId
                        /\ call'[o] \in Steps => idOf[o] \in Ids
    BY <1>1, <1>5 DEF ObjectInv, Steps
  <2>4. joining.obj # NoObj => joining.obj \in Objs
    BY <1>1 DEF TypeOK
  <2>5. rooms \subseteq Objs
    BY <1>1 DEF TypeOK
  <2> QED
    BY <1>1, <1>3, <1>4, <2>1, <2>2, <2>3, <2>4, <2>5 DEF ObjectInv
<1>8. CreateInv'
  BY <1>1, <1>3, <1>5, CreateKept
<1>9. UsedInv'
  BY <1>1, <1>3 DEF UsedInv, Asking, JoinFrame, Using
<1>10. OnceInv'
  <2>1. SUFFICES ASSUME NEW i \in Ids, i \notin asked, link = "up"
                 PROVE  EntryOnce(i)'
    BY <1>3 DEF OnceInv
  <2>2. EntryOnce(i) /\ members[i] \in Nat
    BY <1>1, <2>1 DEF OnceInv, TypeOK
  <2>3. ManagerAsks(i)' = ManagerAsks(i) /\ WalkAsks(i)' = WalkAsks(i) /\ (CallAsks(i)' => CallAsks(i))
    BY <1>3, <1>4, <1>5 DEF ManagerAsks, WalkAsks, CallAsks, Using
  <2> QED
    BY <1>1, <1>2, <1>3, <2>2, <2>3, FramesKeptSame, OnceKept
<1>11. TruthInv'
  BY <1>1, <1>3 DEF TruthInv
<1>12. ViewInv'
  <2>1. SUFFICES ASSUME NEW i \in Ids, i \notin asked, link = "up"
                 PROVE  LastNews(i)' /\ HandlerView(i)'
    BY <1>3 DEF ViewInv
  <2>2. LastNews(i) /\ HandlerView(i)
    BY <1>1, <2>1 DEF ViewInv
  <2>3. handler[i] \in Objs /\ call'[handler[i]] \notin {"check", "send", "sending"}
          => call[handler[i]] \notin {"check", "send", "sending"}
    BY <1>5
  <2> QED
    BY <1>3, <2>2, <2>3, NewsKeptSame DEF LastNews, HandlerView
<1>13. RejoinInv'
  <2>1. \A o \in Objs : Asked(o)' => Asked(o)
    BY <1>3, <1>4, <1>5 DEF Asked
  <2> QED
    BY <1>1, <1>3, <2>1 DEF RejoinInv, Asking, JoinFrame
<1> QED
  BY <1>2, <1>6, <1>7, <1>8, <1>9, <1>10, <1>11, <1>12, <1>13 DEF ClientInv

LEMMA ClientInvStep == ASSUME ClientInv, [Next]_vars PROVE ClientInv'
BY QuietStep, TypeStep, PhaseStep, ObjectStep, CreateStep, UsedStep, OnceStep, TruthStep, ViewStep, RejoinStep
   DEF ClientInv

LEMMA ClientInvariant == Spec => []ClientInv
<1>1. Init => ClientInv
  BY ClientInvInit
<1>2. ClientInv /\ [Next]_vars => ClientInv'
  BY ClientInvStep
<1> QED
  BY <1>1, <1>2, PTL DEF Spec

(* The number of joinRoom frames under way, as far as it matters.          *)
LEMMA CountOfFrames ==
  ASSUME TypeOK, NEW i \in Ids
  PROVE  /\ JoinsUnderWay(i) \in Nat
         /\ JoinsUnderWay(i) = 0 <=> ~Asking(i)
         /\ (\A k, l \in 1 .. Len(outbound) : outbound[k] = JoinFrame(i) /\ outbound[l] = JoinFrame(i) => k = l)
              => JoinsUnderWay(i) <= 1
<1> DEFINE F == {k \in 1 .. Len(outbound) : outbound[k] = JoinFrame(i)}
<1>1. Len(outbound) \in Nat
  BY DEF TypeOK
<1>2. IsFiniteSet(1 .. Len(outbound))
  BY <1>1, FS_Interval
<1>3. IsFiniteSet(F)
  BY <1>2, FS_Subset
<1>4. JoinsUnderWay(i) = Cardinality(F)
  BY DEF JoinsUnderWay, JoinFrame
<1>5. F = {} <=> ~Asking(i)
  BY DEF Asking
<1>6. \A k \in F : k \in 1 .. Len(outbound) /\ outbound[k] = JoinFrame(i)
  OBVIOUS
<1> HIDE DEF F
<1>7. Cardinality(F) \in Nat /\ (Cardinality(F) = 0 <=> F = {})
  BY <1>3, FS_CardinalityType, FS_EmptySet
<1>8. ASSUME \A k, l \in 1 .. Len(outbound) : outbound[k] = JoinFrame(i) /\ outbound[l] = JoinFrame(i) => k = l
      PROVE  Cardinality(F) <= 1
  <2>1. CASE F = {}
    BY <1>7, <2>1
  <2>2. CASE F # {}
    <3>1. PICK k : k \in F
      BY <2>2
    <3>2. F = {k}
      BY <1>6, <1>8, <3>1
    <3>3. Cardinality({k}) = 1
      BY FS_Singleton
    <3> QED
      BY <3>2, <3>3
  <2> QED
    BY <2>1, <2>2
<1> QED
  BY <1>4, <1>5, <1>7, <1>8

(* The types hold for every set of objects, ids and connections.           *)
THEOREM TypeCorrect == Spec => []TypeOK
<1>1. ClientInv => TypeOK
  BY DEF ClientInv
<1> QED
  BY <1>1, ClientInvariant, PTL

(* A connection enters a room once, although join_room and the walk after  *)
(* clientIdSet both ask for rooms: an entry, a frame under way and the one *)
(* who has still to ask exclude each other (OnceInv), for any number of    *)
(* rooms, ids and connections.                                             *)
THEOREM EntersARoomOnce == Spec => []EntersOnce
<1>1. ASSUME ClientInv
      PROVE  EntersOnce
  <2>1. TypeOK /\ OnceInv
    BY <1>1 DEF ClientInv
  <2>2. SUFFICES ASSUME NEW i \in Ids, i \notin asked, link = "up"
                 PROVE  members[i] + JoinsUnderWay(i) <= 1
    BY DEF EntersOnce
  <2>3. EntryOnce(i)
    BY <2>1, <2>2 DEF OnceInv
  <2>4. members[i] \in Nat
    BY <2>1 DEF TypeOK
  <2>5. /\ members[i] <= 1
        /\ members[i] > 0 => ~Asking(i)
        /\ \A k, l \in 1 .. Len(outbound) : outbound[k] = JoinFrame(i) /\ outbound[l] = JoinFrame(i) => k = l
    BY <2>3 DEF EntryOnce
  <2>6. /\ JoinsUnderWay(i) \in Nat /\ JoinsUnderWay(i) <= 1
        /\ ~Asking(i) => JoinsUnderWay(i) = 0
    BY <2>1, <2>5, CountOfFrames
  <2> QED
    BY <2>4, <2>5, <2>6
<1> QED
  BY <1>1, ClientInvariant, PTL

(* After clientIdSet every room that the manager's walk covers is entered  *)
(* again or about to be (handle_client_id_set), because joined is true only*)
(* for a reason of this connection (TruthInv): the check in                *)
(* join_room_shared never skips a room that the server has forgotten.      *)
THEOREM RejoinsRooms == Spec => []RejoinsEveryRoom
<1>1. ASSUME ClientInv
      PROVE  RejoinsEveryRoom
  <2>1. TypeOK /\ ObjectInv /\ RejoinInv
    BY <1>1 DEF ClientInv
  <2>2. SUFFICES ASSUME NEW o \in rooms, link = "up", greeted, o \notin missed, o \notin todo, joining.obj # o,
                        idOf[o] \notin removed \cup refused
                 PROVE  members[idOf[o]] + JoinsUnderWay(idOf[o]) > 0
    BY DEF RejoinsEveryRoom
  <2>3. o \in Objs /\ idOf[o] \in Ids /\ members[idOf[o]] \in Nat
    BY <2>1, <2>2 DEF TypeOK, ObjectInv
  <2>4. members[idOf[o]] > 0 \/ Asking(idOf[o])
    BY <2>1, <2>2, <2>3 DEF RejoinInv, Asked
  <2>5. JoinsUnderWay(idOf[o]) \in Nat /\ (Asking(idOf[o]) => JoinsUnderWay(idOf[o]) # 0)
    BY <2>1, <2>3, CountOfFrames
  <2> QED
    BY <2>3, <2>4, <2>5
<1> QED
  BY <1>1, ClientInvariant, PTL

(* joined agrees with the server once the frames under way are handled     *)
(* (register_room_events, the reset when the connection is lost): the last *)
(* news of the room is right, and without any joined itself is (ViewInv).  *)
THEOREM ViewAlwaysRight == Spec => []ViewIsRight
<1>1. ASSUME ClientInv
      PROVE  ViewIsRight
  <2>1. TypeOK /\ ObjectInv /\ ViewInv
    BY <1>1 DEF ClientInv
  <2>2. SUFFICES ASSUME NEW o \in rooms, link = "up", handler[idOf[o]] = o, idOf[o] \notin asked, o \notin missed
                 PROVE  WillBeJoined(o) = (members[idOf[o]] > 0)
    BY DEF ViewIsRight
  <2>3. o \in Objs /\ idOf[o] \in Ids /\ call[o] = "done" /\ joined[o] \in BOOLEAN
    BY <2>1 DEF TypeOK, ObjectInv
  <2>4. PICK i \in Ids : i = idOf[o]
    BY <2>3
  <2>5. LastNews(i) /\ HandlerView(i)
    BY <2>1, <2>2, <2>4 DEF ViewInv
  <2>6. WillBeJoined(o) = IF News(i) = {} THEN joined[o]
                          ELSE \E k \in News(i) : /\ inbound[k].kind = "joinedRoom"
                                                  /\ \A l \in News(i) : l <= k
    BY <2>4 DEF WillBeJoined, News, IsNews
  <2>7. CASE News(i) = {}
    <3>1. joined[o] <=> members[i] > 0
      BY <2>2, <2>3, <2>4, <2>5, <2>7 DEF HandlerView
    <3> QED
      BY <2>3, <2>4, <2>6, <2>7, <3>1
  <2>8. CASE News(i) # {}
    <3>1. PICK k \in News(i) : /\ \A l \in News(i) : l <= k
                               /\ (inbound[k].kind = "joinedRoom") = (members[i] > 0)
      BY <2>5, <2>8 DEF LastNews
    <3>2. \A l \in News(i) : l \in Int
      BY DEF News
    <3>3. ASSUME NEW l \in News(i), \A m \in News(i) : m <= l
          PROVE  l = k
      BY <3>1, <3>2, <3>3
    <3> QED
      BY <2>4, <2>6, <2>8, <3>1, <3>3
  <2> QED
    BY <2>7, <2>8
<1> QED
  BY <1>1, ClientInvariant, PTL

===============================================================================
