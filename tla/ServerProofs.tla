----------------------------- MODULE ServerProofs -----------------------------
(***************************************************************************)
(* Proofs about four parts of the server that stand beside the rooms, one  *)
(* after the other, for every value of their constants: the life of the    *)
(* Server object (ServerLifecycle), the admin interface's questions        *)
(* (AdminInfo), hooks that throw (RoomFailures) and the keep-alive         *)
(* (KeepAlive).  The parts share no state; each has an inductive           *)
(* invariant of its own.                                                   *)
(***************************************************************************)
EXTENDS ServerLifecycle, AdminInfo, RoomFailures, KeepAlive, TLAPS

-------------------------------------------------------------------------------
(* ServerLifecycle.                                                        *)

(* shutdown() has joined the accept thread.                                *)
Joined == sd \in {"walk", "callback", "notify", "done"}

(* shutdown() has walked over connections_.                                *)
Walked == sd \in {"callback", "notify", "done"}

(* The flag is set by whoever calls shutdown(), who can only do so after   *)
(* listen(); an accept thread that has been joined does not come back.     *)
PhasesInv ==
  /\ flag <=> sd # "idle"
  /\ main = "new" => sd = "idle"
  /\ Joined => acceptor = "ended"

(* After the walk no thread starts, so who registers late was seen late,   *)
(* and every other entry has been shut.                                    *)
ReachedInv ==
  Walked =>
    /\ \A c \in Conns : conn[c] = "started" => c \in late
    /\ \A c \in Conns : conn[c] = "served" /\ c \in entries => c \in shut \cup late

LifeInv == TypeOK /\ PhasesInv /\ ReachedInv

(* The main thread and shutdown(): only the walk adds to what is shut, and *)
(* it shuts all that is registered.                                        *)
LEMMA LifeMain ==
  ASSUME LifeInv,
         \/ Listen \/ EnterRunForever \/ TestFlag \/ StartWaiting \/ WakeSpuriously
         \/ Destroy \/ FinishDestroying
  PROVE  LifeInv'
<1> USE DEF LifeInv, PhasesInv, ReachedInv, Joined, Walked
<1>1. CASE Listen
  BY <1>1 DEF Listen, TypeOK, stopVars, connVars
<1>2. CASE EnterRunForever \/ StartWaiting \/ WakeSpuriously \/ FinishDestroying
  BY <1>2 DEF EnterRunForever, StartWaiting, WakeSpuriously, FinishDestroying,
              TypeOK, stopVars, acceptVars, connVars
<1>3. CASE TestFlag
  BY <1>3 DEF TestFlag, TypeOK, stopVars, acceptVars, connVars
<1>4. CASE Destroy
  BY <1>4 DEF Destroy, DestructorShutsDown, TypeOK, acceptVars, connVars
<1> QED
  BY <1>1, <1>2, <1>3, <1>4

LEMMA LifeShutdown ==
  ASSUME LifeInv,
         \/ CallShutdown \/ CloseListening \/ JoinAcceptThread \/ CloseConnections
         \/ CallOnDispose \/ NotifyMain
  PROVE  LifeInv'
<1> USE DEF LifeInv, PhasesInv, ReachedInv, Joined, Walked
<1>1. CASE CallShutdown
  BY <1>1 DEF CallShutdown, TypeOK, mainVars, acceptVars, connVars
<1>2. CASE CloseListening
  <2>1. sd = "socket" /\ sd' = "join" /\ listening' = "shut"
    BY <1>2 DEF CloseListening, ListeningAfterwards
  <2>2. conn' \in [Conns -> {"away", "backlog", "handshake", "started", "served", "ending", "gone"}]
    BY <1>2 DEF CloseListening, TypeOK
  <2> QED
    BY <1>2, <2>1, <2>2 DEF CloseListening, TypeOK, mainVars
<1>3. CASE JoinAcceptThread
  BY <1>3 DEF JoinAcceptThread, AcceptThreadEnded, TypeOK, mainVars, acceptVars, connVars
<1>4. CASE CloseConnections
  BY <1>4 DEF CloseConnections, TypeOK, mainVars, acceptVars
<1>5. CASE CallOnDispose
  BY <1>5 DEF CallOnDispose, TypeOK, mainVars, acceptVars, connVars
<1>6. CASE NotifyMain
  BY <1>6 DEF NotifyMain, MainAfterNotify, TypeOK, acceptVars, connVars
<1> QED
  BY <1>1, <1>2, <1>3, <1>4, <1>5, <1>6

(* The accept thread starts threads only before it has been joined.        *)
LEMMA LifeAccept ==
  ASSUME LifeInv,
         TestBeforeAccept \/ AcceptFails \/ \E c \in Conns : Accept(c) \/ EndHandshake(c)
  PROVE  LifeInv'
<1> USE TlsAssumption DEF LifeInv, PhasesInv, ReachedInv, Joined, Walked
<1>1. CASE TestBeforeAccept \/ AcceptFails
  BY <1>1 DEF TestBeforeAccept, AcceptFails, TypeOK, stopVars, mainVars, connVars
<1>2. ASSUME NEW c \in Conns, Accept(c) \/ EndHandshake(c)
      PROVE  LifeInv'
  <2>1. /\ acceptor \in {"accept", "handshake"} /\ acceptor' \in {"handshake", "test"}
        /\ conn' \in [Conns -> {"away", "backlog", "handshake", "started", "served", "ending", "gone"}]
        /\ UNCHANGED <<stopVars, mainVars, listening, entries, shut>>
    BY <1>2 DEF Accept, EndHandshake, TypeOK
  <2>2. ~Joined
    BY <2>1
  <2> QED
    BY <2>1, <2>2 DEF TypeOK, stopVars, mainVars
<1> QED
  BY <1>1, <1>2

(* A connection moves on; a thread that was started after the walk does    *)
(* not exist, and one that registers then was found late.                  *)
LEMMA LifeConnection ==
  ASSUME LifeInv, NEW c \in Conns,
         \/ Connect(c) \/ Register(c) \/ Refuse(c)
         \/ DisconnectPacket(c) \/ LeaveRecvLoop(c) \/ EndConnection(c)
  PROVE  LifeInv'
<1> USE DEF LifeInv, PhasesInv, ReachedInv, Joined, Walked
<1>1. /\ UNCHANGED <<stopVars, mainVars, acceptVars, shut>>
      /\ conn' = conn \/ \E s \in {"backlog", "served", "gone", "ending"} : conn' = [conn EXCEPT ![c] = s]
      /\ entries' \in {entries, entries \cup {c}, entries \ {c}}
      /\ entries' = entries \cup {c} => conn[c] = "started" \/ entries' = entries
      /\ conn'[c] = "served" => conn[c] \in {"started", "served"}
  BY DEF Connect, Register, Refuse, DisconnectPacket, LeaveRecvLoop, EndConnection, TypeOK
<1>2. TypeOK'
  BY <1>1 DEF TypeOK, stopVars, mainVars, acceptVars
<1>3. ASSUME Walked', NEW d \in Conns
      PROVE  /\ conn'[d] = "started" => d \in late'
             /\ conn'[d] = "served" /\ d \in entries' => d \in shut' \cup late'
  <2>1. Walked /\ UNCHANGED <<late, shut>>
    BY <1>1, <1>3 DEF stopVars
  <2>2. CASE d = c
    BY <1>1, <2>1, <2>2 DEF TypeOK
  <2>3. CASE d # c
    <3>1. conn'[d] = conn[d] /\ (d \in entries' => d \in entries)
      BY <1>1, <2>3 DEF TypeOK
    <3> QED
      BY <2>1, <3>1
  <2> QED
    BY <2>2, <2>3
<1>4. PhasesInv'
  BY <1>1 DEF stopVars, mainVars, acceptVars
<1> QED
  BY <1>2, <1>3, <1>4

LEMMA LifeStep == LifeInv /\ [Next]_vars => LifeInv'
<1> SUFFICES ASSUME LifeInv, [Next]_vars
             PROVE  LifeInv'
  OBVIOUS
<1>1. CASE UNCHANGED vars
  BY <1>1 DEF vars, stopVars, mainVars, acceptVars, connVars,
              LifeInv, TypeOK, PhasesInv, ReachedInv, Joined, Walked
<1> QED
  BY <1>1, LifeMain, LifeShutdown, LifeAccept, LifeConnection DEF Next

LEMMA LifeStart == Init => LifeInv
BY DEF Init, LifeInv, TypeOK, PhasesInv, ReachedInv, Joined, Walked

(* Whatever happens while shutdown() runs, after its walk every served     *)
(* connection is shut, but those without an entry and those whose thread   *)
(* had started and not registered.                                         *)
THEOREM ShutdownReaches == Spec => []ShutdownReachesConnections
<1>1. LifeInv => ShutdownReachesConnections
  BY DEF LifeInv, ReachedInv, Walked, ShutdownReachesConnections
<1> QED
  BY <1>1, LifeStart, LifeStep, PTL DEF Spec

(* The types hold for every set of connections, with TLS and without.      *)
THEOREM LifeTypeCorrect == Spec => []TypeOK
<1>1. LifeInv => TypeOK
  BY DEF LifeInv
<1> QED
  BY <1>1, LifeStart, LifeStep, PTL DEF Spec

-------------------------------------------------------------------------------
(* AdminInfo.                                                              *)

(* A request listens from its question until its wait is over.             *)
ListeningInv == \A q \in Requests : q \in listeners <=> at[q] \in {"waiting", "awake"}

(* What a request has heard: nothing before it asks, the answer of its     *)
(* room at once if there is one, another room's only if their questions    *)
(* crossed, and a message only if one came while it listened.              *)
HeardAnswersInv ==
  \A q \in Requests :
    /\ at[q] = "idle" => result[q] = None /\ q \notin present
    /\ q \in present => result[q] # None
    /\ result[q] # None =>
         result[q] = wanted[q] \/ q \in crossed \/ (result[q] = Channel /\ q \in disturbed)

(* What was sent is what had been heard by then.                           *)
SentInv ==
  \A q \in Requests :
    /\ at[q] # "done" => response[q] = None
    /\ at[q] = "done" => response[q] = IF result[q] = None THEN NotFound ELSE result[q]

InfoInv == InfoTypeOK /\ ListeningInv /\ HeardAnswersInv /\ SentInv

(* A question is heard by its request and by all that listen; those of     *)
(* them that asked for another room are crossed by it.                     *)
LEMMA InfoAsk ==
  ASSUME InfoInv, NEW q \in Requests, NEW r \in Names, Ask(q, r)
  PROVE  InfoInv'
<1> USE DEF InfoInv
<1>1. /\ at[q] = "idle" /\ at' = [at EXCEPT ![q] = "waiting"]
      /\ wanted' = [wanted EXCEPT ![q] = r]
      /\ listeners' = listeners \cup {q}
      /\ result' = [p \in Requests |-> IF IsHeard(r) /\ (p \in listeners \/ p = q) THEN r ELSE result[p]]
      /\ present' = IF r \in live THEN present \cup {q} ELSE present
      /\ crossed' = crossed \cup {p \in listeners : wanted[p] # r}
      /\ UNCHANGED <<live, response, disturbed>>
  BY DEF Ask, Hearing
<1>2. InfoTypeOK'
  BY <1>1 DEF InfoTypeOK
<1>3. ListeningInv'
  BY <1>1 DEF InfoTypeOK, ListeningInv
<1>4. r # None /\ (r \in live => IsHeard(r))
  BY NoneAssumption DEF IsHeard
<1>5. ASSUME NEW p \in Requests
      PROVE  /\ at'[p] = "idle" => result'[p] = None /\ p \notin present'
             /\ p \in present' => result'[p] # None
             /\ result'[p] # None =>
                  result'[p] = wanted'[p] \/ p \in crossed' \/ (result'[p] = Channel /\ p \in disturbed')
  <2>1. CASE p = q
    <3>1. at'[p] = "waiting" /\ wanted'[p] = r /\ result[p] = None /\ p \notin present
      BY <1>1, <2>1 DEF InfoTypeOK, HeardAnswersInv
    <3>2. result'[p] = IF IsHeard(r) THEN r ELSE None
      BY <1>1, <2>1, <3>1
    <3> QED
      BY <1>1, <1>4, <2>1, <3>1, <3>2
  <2>2. CASE p # q
    <3>1. at'[p] = at[p] /\ wanted'[p] = wanted[p] /\ (p \in present' <=> p \in present)
      BY <1>1, <2>2 DEF InfoTypeOK
    <3>2. CASE IsHeard(r) /\ p \in listeners
      BY <1>1, <1>4, <3>1, <3>2 DEF ListeningInv
    <3>3. CASE ~(IsHeard(r) /\ p \in listeners)
      <4>1. result'[p] = result[p]
        BY <1>1, <2>2, <3>3
      <4> QED
        BY <1>1, <3>1, <4>1 DEF HeardAnswersInv
    <3> QED
      BY <3>2, <3>3
  <2> QED
    BY <2>1, <2>2
<1>6. ASSUME NEW p \in Requests
      PROVE  /\ at'[p] = "done" <=> at[p] = "done"
             /\ at[p] = "done" => result'[p] = result[p]
  BY <1>1 DEF InfoTypeOK, ListeningInv
<1>7. SentInv'
  BY <1>1, <1>6 DEF SentInv
<1> QED
  BY <1>2, <1>3, <1>5, <1>7 DEF HeardAnswersInv

(* The rest of a request.                                                  *)
LEMMA InfoRequest ==
  ASSUME InfoInv, NEW q \in Requests, RequestStep(q)
  PROVE  InfoInv'
<1> USE DEF InfoInv
<1>1. CASE StopWaiting(q)
  BY <1>1 DEF StopWaiting, InfoTypeOK, ListeningInv, HeardAnswersInv, SentInv
<1>2. CASE Unsubscribe(q)
  BY <1>2 DEF Unsubscribe, ListenersWithout, InfoTypeOK, ListeningInv, HeardAnswersInv, SentInv
<1>3. CASE Respond(q)
  <2>1. /\ at[q] = "answering" /\ at' = [at EXCEPT ![q] = "done"]
        /\ response' = [response EXCEPT ![q] = IF result[q] = None THEN NotFound ELSE result[q]]
        /\ UNCHANGED <<live, wanted, listeners, result, present, crossed, disturbed>>
    BY <1>3 DEF Respond
  <2>2. InfoTypeOK'
    BY <2>1 DEF InfoTypeOK
  <2>3. ListeningInv' /\ HeardAnswersInv'
    BY <2>1 DEF InfoTypeOK, ListeningInv, HeardAnswersInv
  <2>4. SentInv'
    BY <2>1 DEF InfoTypeOK, SentInv
  <2> QED
    BY <2>2, <2>3, <2>4
<1> QED
  BY <1>1, <1>2, <1>3 DEF RequestStep

(* A message changes what those that listen have heard, and marks them.    *)
LEMMA InfoMessage ==
  ASSUME InfoInv, PublishMessage
  PROVE  InfoInv'
<1> USE DEF InfoInv
<1>1. /\ result' = [p \in Requests |-> IF p \in listeners THEN Channel ELSE result[p]]
      /\ disturbed' = disturbed \cup listeners
      /\ UNCHANGED <<live, at, wanted, listeners, response, present, crossed>>
  BY DEF PublishMessage
<1>2. Channel # None /\ Channel \in Names
  BY NoneAssumption DEF Names
<1>3. InfoTypeOK' /\ ListeningInv'
  BY <1>1, <1>2 DEF InfoTypeOK, ListeningInv
<1>4. HeardAnswersInv'
  BY <1>1, <1>2 DEF ListeningInv, HeardAnswersInv
<1>5. SentInv'
  BY <1>1 DEF ListeningInv, SentInv
<1> QED
  BY <1>3, <1>4, <1>5

LEMMA InfoStep == InfoInv /\ [InfoNext]_infoVars => InfoInv'
<1> SUFFICES ASSUME InfoInv, [InfoNext]_infoVars
             PROVE  InfoInv'
  OBVIOUS
<1>1. CASE UNCHANGED requestVars /\ live' \subseteq RoomIds
  BY <1>1 DEF requestVars, InfoInv, InfoTypeOK, ListeningInv, HeardAnswersInv, SentInv
<1>2. ASSUME NEW r \in RoomIds, OpenRoom(r) \/ DisposeRoom(r)
      PROVE  InfoInv'
  BY <1>1, <1>2 DEF OpenRoom, DisposeRoom, InfoInv, InfoTypeOK
<1>3. CASE UNCHANGED infoVars
  BY <1>1, <1>3 DEF infoVars, InfoInv, InfoTypeOK
<1> QED
  BY <1>2, <1>3, InfoAsk, InfoRequest, InfoMessage DEF InfoNext

LEMMA InfoStart == InfoInit => InfoInv
BY DEF InfoInit, InfoInv, InfoTypeOK, ListeningInv, HeardAnswersInv, SentInv

(* "No room found" is sent only if there was no such room when the request *)
(* asked, and an answer is that of the room asked for, unless a question   *)
(* for another one crossed the request or a message to the channel's name  *)
(* came in its way.                                                        *)
THEOREM AnswersAreRight == InfoSpec => []AnswerIsRight
<1>1. InfoInv => AnswerIsRight
  BY NoneAssumption DEF InfoInv, InfoTypeOK, HeardAnswersInv, SentInv, AnswerIsRight
<1> QED
  BY <1>1, InfoStart, InfoStep, PTL DEF InfoSpec

(* A listener is gone before the locals it refers to.                      *)
THEOREM ListenersEndInTime == InfoSpec => []NoListenerOutlivesItsRequest
<1>1. InfoInv => NoListenerOutlivesItsRequest
  BY DEF InfoInv, InfoTypeOK, ListeningInv, NoListenerOutlivesItsRequest
<1> QED
  BY <1>1, InfoStart, InfoStep, PTL DEF InfoSpec

(* The types hold for every set of requests and of rooms.                  *)
THEOREM InfoTypeCorrect == InfoSpec => []InfoTypeOK
<1>1. InfoInv => InfoTypeOK
  BY DEF InfoInv
<1> QED
  BY <1>1, InfoStart, InfoStep, PTL DEF InfoSpec

-------------------------------------------------------------------------------
(* RoomFailures.                                                           *)

RoomRecords ==
  [kept : BOOLEAN, stored : BOOLEAN, heard : BOOLEAN, timer : BOOLEAN,
   disposing : BOOLEAN, members : SUBSET Clients, doubled : SUBSET Clients]

(* What refers to an object refers to one that is kept, so that the        *)
(* history of its dispose() is not forgotten.                              *)
HalfInv == (~room.kept => room = NoObject) /\ FailuresLeaveNoHalfRoom

FailuresInv == FailuresTypeOK /\ HalfInv /\ ErrorMeansOutside

(* What dispose() may have done when it returns or throws: nothing, since  *)
(* it runs already; part of its on_leave hooks, and no more; everything    *)
(* but to destroy the object; or all of it.                                *)
Unfinished(s, o) ==
  /\ o.threw /\ o.aborted
  /\ o.room.kept = s.kept /\ o.room.stored = s.stored
  /\ o.room.heard = s.heard /\ o.room.timer = s.timer
CleanedOnly(s, o) ==
  /\ o.threw /\ ~o.aborted
  /\ o.room.kept = s.kept
  /\ ~o.room.stored /\ ~o.room.heard /\ ~o.room.timer /\ o.room.members = {}

(* Fields of a record that a hook or an entry has changed.                 *)
LEMMA WithoutEntries ==
  ASSUME NEW s \in RoomRecords, NEW gone, NEW halved
  PROVE  /\ Without(s, gone, halved) \in RoomRecords
         /\ Without(s, gone, halved).members = s.members \ gone
         /\ Without(s, gone, halved).kept = s.kept
         /\ Without(s, gone, halved).stored = s.stored
         /\ Without(s, gone, halved).heard = s.heard
         /\ Without(s, gone, halved).timer = s.timer
         /\ Without(s, gone, halved).disposing = s.disposing
BY DEF Without, RoomRecords

LEMMA WithEntry ==
  ASSUME NEW s \in RoomRecords, NEW c \in Clients
  PROVE  /\ Entered(s, c) \in RoomRecords
         /\ Entered(s, c).members = s.members \cup {c}
         /\ Entered(s, c).kept = s.kept
         /\ Entered(s, c).stored = s.stored
         /\ Entered(s, c).heard = s.heard
         /\ Entered(s, c).timer = s.timer
         /\ Entered(s, c).disposing = s.disposing
<1>1. CASE c \in s.members
  BY <1>1 DEF Entered, RoomRecords
<1>2. CASE c \notin s.members
  BY <1>2 DEF Entered, RoomRecords
<1> QED
  BY <1>1, <1>2

(* No object is referred to by nothing.                                    *)
LEMMA Nothing ==
  /\ NoObject \in RoomRecords /\ ~NoObject.kept /\ ~NoObject.stored /\ ~NoObject.heard
  /\ ~NoObject.timer /\ NoObject.members = {}
BY DEF NoObject, RoomRecords

LEMMA Disposed ==
  ASSUME NEW s \in RoomRecords, NEW o \in DisposeOutcomes(s)
  PROVE  /\ o.room \in RoomRecords /\ o.room.members \subseteq s.members
         /\ o.threw \in BOOLEAN /\ o.aborted \in BOOLEAN
         /\ \/ s.disposing /\ o.room = s /\ ~o.threw /\ ~o.aborted
            \/ Unfinished(s, o)
            \/ CleanedOnly(s, o)
            \/ ~o.threw /\ ~o.aborted /\ ~o.room.kept
<1>1. CASE s.disposing
  <2>1. o = Returns(s)
    BY <1>1 DEF DisposeOutcomes
  <2>2. o.room = s /\ o.threw = FALSE /\ o.aborted = FALSE
    BY <2>1 DEF Returns
  <2> QED
    BY <1>1, <2>2 DEF RoomRecords
<1>2. CASE ~s.disposing
  <2> DEFINE entered == [s EXCEPT !.disposing = TRUE]
             left == Without(entered, s.members, s.doubled)
  <2>1. /\ entered \in RoomRecords /\ entered.members = s.members
        /\ entered.kept = s.kept /\ entered.stored = s.stored
        /\ entered.heard = s.heard /\ entered.timer = s.timer
    BY DEF RoomRecords
  <2> HIDE DEF entered
  <2>2. /\ left \in RoomRecords /\ left.members = {}
        /\ left.kept = s.kept /\ left.stored = s.stored
        /\ left.heard = s.heard /\ left.timer = s.timer
    BY <2>1, WithoutEntries
  <2>3. \/ o \in ThrowingOnLeave(entered) \/ o = Throws(left, TRUE)
        \/ o = Throws(AfterFailedOnDispose(left), FALSE) \/ o = Returns(Destroyed(left))
    BY <1>2 DEF DisposeOutcomes, entered
  <2> HIDE DEF left
  <2>4. CASE o \in ThrowingOnLeave(entered)
    <3>1. PICK lost \in [gone : SUBSET entered.members, halved : SUBSET entered.doubled] :
                 o = Throws(Without(entered, lost.gone, lost.halved), TRUE)
      BY <2>4 DEF ThrowingOnLeave
    <3>2. /\ o.room = Without(entered, lost.gone, lost.halved)
          /\ o.threw = TRUE /\ o.aborted = TRUE
      BY <3>1 DEF Throws
    <3>3. /\ o.room \in RoomRecords /\ o.room.members = entered.members \ lost.gone
          /\ o.room.kept = entered.kept /\ o.room.stored = entered.stored
          /\ o.room.heard = entered.heard /\ o.room.timer = entered.timer
      BY <2>1, <3>2, WithoutEntries
    <3> QED
      BY <2>1, <3>2, <3>3 DEF Unfinished
  <2>5. CASE o = Throws(left, TRUE)
    BY <2>2, <2>5 DEF Throws, Unfinished, RoomRecords
  <2>6. CASE o = Throws(AfterFailedOnDispose(left), FALSE)
    BY <2>2, <2>6 DEF Throws, AfterFailedOnDispose, CleanedUp, CleanedOnly, RoomRecords
  <2>7. CASE o = Returns(Destroyed(left))
    BY <2>2, <2>7 DEF Returns, Destroyed, CleanedUp, RoomRecords
  <2> QED
    BY <2>3, <2>4, <2>5, <2>6, <2>7
<1> QED
  BY <1>1, <1>2 DEF RoomRecords

(* What the invariant says of a room with its histories.                   *)
Whole(s, a, u) ==
  /\ ~s.kept => s = NoObject
  /\ ~s.stored => ~s.timer /\ ((~s.heard /\ s.members = {}) \/ a \/ u)
  /\ s.stored => (s.timer /\ ~s.disposing) \/ a \/ u

LEMMA HalfIsWhole == HalfInv <=> Whole(room, aborted, undying) /\ (dangling => replaced)
BY DEF HalfInv, Whole, FailuresLeaveNoHalfRoom

(* A room that has passed dispose() is whole, with the histories that      *)
(* Apply writes.  Only its timer may be missing before: it has run.        *)
LEMMA WholeAfter ==
  ASSUME NEW s \in RoomRecords, NEW o \in DisposeOutcomes(s),
         aborted \in BOOLEAN, undying \in BOOLEAN,
         ~s.stored => ~s.timer /\ ((~s.heard /\ s.members = {}) \/ aborted \/ undying),
         s.stored /\ s.disposing => aborted \/ undying,
         Apply(o)
  PROVE  /\ room' \in RoomRecords /\ room'.members \subseteq s.members
         /\ aborted' \in BOOLEAN /\ undying' \in BOOLEAN
         /\ Whole(room', aborted', undying')
<1> USE Nothing
<1>1. /\ room' = Outlived(o.room)
      /\ aborted' = (room'.kept /\ (aborted \/ o.aborted))
      /\ undying' = (room'.kept /\ undying)
  BY DEF Apply
<1>2. CASE ~o.room.kept
  <2>1. room' = NoObject
    BY <1>1, <1>2 DEF Outlived
  <2> QED
    BY <1>1, <2>1 DEF Whole
<1>3. CASE o.room.kept
  <2>1. room' = o.room /\ room' \in RoomRecords /\ room'.members \subseteq s.members
    BY <1>1, <1>3, Disposed DEF Outlived
  <2>2. room'.kept
    BY <1>3, <2>1
  <2>3. aborted' = (aborted \/ o.aborted) /\ undying' = undying /\ o.aborted \in BOOLEAN
    BY <1>1, <2>2, Disposed
  <2>4. \/ s.disposing /\ o.room = s
        \/ Unfinished(s, o)
        \/ CleanedOnly(s, o)
    BY <1>3, Disposed
  <2>5. CASE s.disposing /\ o.room = s
    BY <2>1, <2>2, <2>3, <2>5 DEF Whole
  <2>6. CASE Unfinished(s, o)
    BY <2>1, <2>2, <2>3, <2>6 DEF Unfinished, Whole
  <2>7. CASE CleanedOnly(s, o)
    BY <2>1, <2>2, <2>3, <2>7 DEF CleanedOnly, Whole
  <2> QED
    BY <2>1, <2>3, <2>4, <2>5, <2>6, <2>7
<1> QED
  BY <1>2, <1>3

(* What the invariant says before a step.                                  *)
LEMMA Before ==
  ASSUME FailuresInv
  PROVE  /\ room \in RoomRecords
         /\ aborted \in BOOLEAN /\ undying \in BOOLEAN /\ crashed \in BOOLEAN
         /\ dangling \in BOOLEAN /\ replaced \in BOOLEAN
         /\ errorInside \subseteq Clients
         /\ told \in [Clients -> {"nothing", "joined", "removed", "error"}]
         /\ Whole(room, aborted, undying) /\ (dangling => replaced)
BY HalfIsWhole DEF FailuresInv, FailuresTypeOK, RoomRecords

(* A step after which the members are some of those before and nobody is   *)
(* newly told of an error keeps the last part of the invariant.            *)
LEMMA OutsideKept ==
  ASSUME FailuresInv, room'.members \subseteq room.members,
         errorInside \cap room'.members \subseteq errorInside',
         \A c \in Clients : told'[c] = "error" => told[c] = "error"
  PROVE  ErrorMeansOutside'
BY DEF FailuresInv, ErrorMeansOutside

(* The room is created, or its on_create throws: what is destroyed while   *)
(* it is subscribed was aborted or undying.                                *)
LEMMA FailuresCreate ==
  ASSUME FailuresInv, CreateRoom \/ CreateRoomFails
  PROVE  FailuresInv'
<1>1. ~room.stored /\ (room.heard => aborted \/ undying)
  BY Before DEF CreateRoom, CreateRoomFails, Whole
<1>2. ASSUME DestroyLeftover
      PROVE  /\ dangling' \in BOOLEAN /\ replaced' \in BOOLEAN
             /\ dangling' => replaced'
  BY <1>1, <1>2, Before DEF DestroyLeftover, RoomRecords
<1>3. CASE CreateRoom
  <2>1. PICK disposed \in BOOLEAN :
               /\ room' = [kept |-> TRUE, stored |-> TRUE, heard |-> TRUE, timer |-> TRUE,
                           disposing |-> disposed, members |-> {}, doubled |-> {}]
               /\ undying' = disposed
    BY <1>3 DEF CreateRoom
  <2>2. /\ room' \in RoomRecords /\ room'.members = {}
        /\ room'.kept /\ room'.stored /\ room'.timer /\ room'.disposing = disposed
    BY <2>1 DEF RoomRecords
  <2>3. aborted' = FALSE /\ errorInside' = {} /\ UNCHANGED <<told, crashed>> /\ DestroyLeftover
    BY <1>3 DEF CreateRoom
  <2>4. FailuresTypeOK'
    BY <1>2, <2>1, <2>2, <2>3, Before DEF FailuresTypeOK, RoomRecords
  <2>5. Whole(room', aborted', undying')
    BY <2>1, <2>2 DEF Whole
  <2>6. HalfInv'
    BY <1>2, <2>3, <2>5 DEF HalfInv, Whole, FailuresLeaveNoHalfRoom
  <2>7. ErrorMeansOutside'
    BY <2>2 DEF ErrorMeansOutside
  <2> QED
    BY <2>4, <2>6, <2>7 DEF FailuresInv
<1>4. CASE CreateRoomFails
  <2>1. CASE UNCHANGED <<room, dangling, pastVars>>
    <3>1. UNCHANGED <<room, dangling, aborted, undying, replaced, errorInside, told, crashed>>
      BY <1>4, <2>1 DEF CreateRoomFails, pastVars
    <3> QED
      BY <3>1 DEF FailuresInv, FailuresTypeOK, HalfInv, FailuresLeaveNoHalfRoom, ErrorMeansOutside
  <2>2. CASE ~UNCHANGED <<room, dangling, pastVars>>
    <3>1. /\ room' = NoObject /\ DestroyLeftover
          /\ aborted' = FALSE /\ undying' = FALSE /\ errorInside' = {} /\ UNCHANGED <<told, crashed>>
      BY <1>4, <2>2 DEF CreateRoomFails
    <3>2. FailuresTypeOK'
      BY <1>2, <3>1, Before, Nothing DEF FailuresTypeOK, RoomRecords
    <3>3. HalfInv' /\ ErrorMeansOutside'
      BY <1>2, <3>1, Nothing DEF HalfInv, FailuresLeaveNoHalfRoom, ErrorMeansOutside
    <3> QED
      BY <3>2, <3>3 DEF FailuresInv
  <2> QED
    BY <2>1, <2>2
<1> QED
  BY <1>3, <1>4

(* Only the snapshot of a room without a timer expires, and such a room    *)
(* was aborted or is undying.                                              *)
LEMMA FailuresExpire ==
  ASSUME FailuresInv, SnapshotExpires \/ MessageReachesDestroyed
  PROVE  FailuresInv'
<1>1. CASE SnapshotExpires
  <2>1. /\ room.stored /\ ~room.timer /\ room' = [room EXCEPT !.stored = FALSE]
        /\ UNCHANGED <<told, dangling, crashed, aborted, undying, replaced, errorInside>>
    BY <1>1 DEF SnapshotExpires, TimerIsOver, pastVars
  <2>2. /\ room' \in RoomRecords /\ room'.members = room.members /\ room'.kept = room.kept
        /\ ~room'.stored /\ ~room'.timer
    BY <2>1, Before DEF RoomRecords
  <2>3. FailuresTypeOK'
    BY <2>1, <2>2, Before DEF FailuresTypeOK, RoomRecords
  <2>4. room.kept /\ (aborted \/ undying)
    BY <2>1, Before, Nothing DEF Whole
  <2>5. HalfInv'
    BY <2>1, <2>2, <2>4, Before DEF HalfInv, FailuresLeaveNoHalfRoom
  <2>6. ErrorMeansOutside'
    BY <2>1, <2>2, OutsideKept
  <2> QED
    BY <2>3, <2>5, <2>6 DEF FailuresInv
<1>2. CASE MessageReachesDestroyed
  BY <1>2 DEF MessageReachesDestroyed, pastVars, FailuresInv, FailuresTypeOK, HalfInv,
              FailuresLeaveNoHalfRoom, ErrorMeansOutside
<1> QED
  BY <1>1, <1>2

(* A removal or a disposal, whatever became of it: Apply and TellRemoved.  *)
LEMMA FailuresApply ==
  ASSUME FailuresInv, NEW s \in RoomRecords, s.members \subseteq room.members,
         s.kept = room.kept, s.stored = room.stored, s.heard = room.heard,
         s.disposing = room.disposing, s.timer \in {room.timer, FALSE},
         NEW o, Apply(o), TellRemoved(room), crashed' \in BOOLEAN,
         \/ o \in DisposeOutcomes(s)
         \/ o.room = s /\ o.aborted = FALSE /\ s.timer = room.timer /\ s.kept
  PROVE  FailuresInv'
<1>1. UNCHANGED <<dangling, replaced>> /\ errorInside' = errorInside \cap room'.members
  BY DEF Apply, TellRemoved
<1>2. told' = [c \in Clients |-> IF c \in Losers(room) THEN "removed" ELSE told[c]]
  BY DEF TellRemoved
<1>3. /\ ~s.stored => ~s.timer /\ ((~s.heard /\ s.members = {}) \/ aborted \/ undying)
      /\ s.stored /\ s.disposing => aborted \/ undying
  BY Before DEF Whole
<1>4. /\ room' \in RoomRecords /\ room'.members \subseteq s.members
      /\ aborted' \in BOOLEAN /\ undying' \in BOOLEAN /\ Whole(room', aborted', undying')
  <2>1. CASE o \in DisposeOutcomes(s)
    BY <1>3, <2>1, Before, WholeAfter
  <2>2. CASE o.room = s /\ o.aborted = FALSE /\ s.timer = room.timer /\ s.kept
    <3>1. room' = s
      BY <2>2 DEF Apply, Outlived
    <3>2. aborted' = aborted /\ undying' = undying
      BY <2>2, <3>1, Before DEF Apply
    <3>3. s.stored => (s.timer /\ ~s.disposing) \/ aborted \/ undying
      BY <2>2, Before DEF Whole
    <3> QED
      BY <1>3, <2>2, <3>1, <3>2, <3>3, Before DEF Whole
  <2> QED
    BY <2>1, <2>2
<1>5. FailuresTypeOK'
  <2>1. told' \in [Clients -> {"nothing", "joined", "removed", "error"}]
    BY <1>2, Before
  <2>2. errorInside' \subseteq Clients /\ dangling' \in BOOLEAN /\ replaced' \in BOOLEAN
    BY <1>1, Before
  <2> QED
    BY <1>4, <2>1, <2>2 DEF FailuresTypeOK, RoomRecords
<1>6. HalfInv'
  BY <1>1, <1>4, Before DEF HalfInv, Whole, FailuresLeaveNoHalfRoom
<1>7. ErrorMeansOutside'
  <2>1. room'.members \subseteq room.members
    BY <1>4
  <2>2. \A c \in Clients : told'[c] = "error" => told[c] = "error"
    BY <1>2
  <2> QED
    BY <1>1, <2>1, <2>2, OutsideKept
<1> QED
  BY <1>5, <1>6, <1>7 DEF FailuresInv

(* A member goes, the timer fires, or a message of the admin disposes.     *)
LEMMA FailuresDispose ==
  ASSUME FailuresInv, AutoDispose \/ ExternalMessage \/ \E c \in Clients : Remove(c)
  PROVE  FailuresInv'
<1>1. room \in RoomRecords
  BY Before
<1>2. CASE AutoDispose
  <2> DEFINE s == [room EXCEPT !.timer = FALSE]
  <2>1. /\ s \in RoomRecords /\ s.members = room.members /\ s.kept = room.kept
        /\ s.stored = room.stored /\ s.heard = room.heard /\ s.disposing = room.disposing
        /\ s.timer = FALSE
    BY <1>1 DEF RoomRecords
  <2>2. PICK o \in DisposeOutcomes(s) :
               Apply(o) /\ TellRemoved(room) /\ crashed' = o.threw
    BY <1>2 DEF AutoDispose
  <2> HIDE DEF s
  <2>3. crashed' \in BOOLEAN
    BY <2>1, <2>2, Disposed
  <2> QED
    BY <2>1, <2>2, <2>3, FailuresApply
<1>3. CASE ExternalMessage
  <2>1. PICK o \in DisposeOutcomes(room) : Apply(o) /\ TellRemoved(room)
    BY <1>3 DEF ExternalMessage
  <2>2. crashed' \in BOOLEAN
    BY <1>3, Before DEF ExternalMessage
  <2> QED
    BY <1>1, <2>1, <2>2, FailuresApply
<1>4. ASSUME NEW c \in Clients, Remove(c)
      PROVE  FailuresInv'
  <2> DEFINE s == IF c \in room.doubled THEN Without(room, {}, {c}) ELSE Without(room, {c}, {})
  <2>1. /\ s \in RoomRecords /\ s.members \subseteq room.members /\ s.kept = room.kept
        /\ s.stored = room.stored /\ s.heard = room.heard /\ s.disposing = room.disposing
        /\ s.timer = room.timer
    BY <1>1, WithoutEntries
  <2>2. PICK o \in RemoveOutcomes(room, c) :
               Apply(o) /\ TellRemoved(room) /\ crashed' = o.threw
    BY <1>4 DEF Remove
  <2>3. o \in DisposeOutcomes(s) \/ o = Throws(s, FALSE) \/ o = Returns(s)
    BY <2>2 DEF RemoveOutcomes
  <2>4. room.heard
    BY <1>4 DEF Remove
  <2> HIDE DEF s
  <2>5. s.kept
    BY <2>1, <2>4, Before, Nothing DEF Whole
  <2>6. CASE o \in DisposeOutcomes(s)
    <3>1. crashed' \in BOOLEAN
      BY <2>1, <2>2, <2>6, Disposed
    <3> QED
      BY <2>1, <2>2, <2>6, <3>1, FailuresApply
  <2>7. CASE o = Throws(s, FALSE) \/ o = Returns(s)
    <3>1. o.room = s /\ o.aborted = FALSE /\ (o.threw = TRUE \/ o.threw = FALSE)
      BY <2>7 DEF Throws, Returns
    <3>2. crashed' \in BOOLEAN
      BY <2>2, <3>1
    <3> QED
      BY <2>1, <2>2, <2>5, <3>1, <3>2, FailuresApply
  <2> QED
    BY <2>3, <2>6, <2>7
<1> QED
  BY <1>2, <1>3, <1>4

(* A client is told an error; it is noted if it was inside.                *)
LEMMA FailuresReject ==
  ASSUME FailuresInv, NEW c \in Clients, JoinRejected(c)
  PROVE  FailuresInv'
<1>1. /\ room' = room /\ told' = [told EXCEPT ![c] = "error"]
      /\ errorInside' = IF c \in room.members THEN errorInside \cup {c} ELSE errorInside
      /\ UNCHANGED <<dangling, crashed, aborted, undying, replaced>>
  BY DEF JoinRejected, Rejected
<1>2. FailuresTypeOK'
  BY <1>1, Before DEF FailuresTypeOK, RoomRecords
<1>3. HalfInv'
  BY <1>1 DEF FailuresInv, HalfInv, FailuresLeaveNoHalfRoom
<1>4. ErrorMeansOutside'
  BY <1>1, Before DEF FailuresInv, ErrorMeansOutside
<1> QED
  BY <1>2, <1>3, <1>4 DEF FailuresInv

(* A client is entered, and its on_join hook may throw or dispose.         *)
LEMMA FailuresJoin ==
  ASSUME FailuresInv, NEW c \in Clients, Join(c)
  PROVE  FailuresInv'
<1> DEFINE entered == Entered(room, c)
<1>1. /\ room \in RoomRecords /\ room.stored /\ room.kept /\ UNCHANGED crashed
      /\ (room.timer /\ ~room.disposing) \/ aborted \/ undying
  BY Before, Nothing DEF Join, Whole
<1>2. /\ entered \in RoomRecords /\ entered.members = room.members \cup {c}
      /\ entered.kept = room.kept /\ entered.stored = room.stored /\ entered.heard = room.heard
      /\ entered.disposing = room.disposing /\ entered.timer = room.timer
  BY <1>1, WithEntry
<1>3. PICK o \in {Returns(entered), Throws(entered, FALSE)} \cup DisposeOutcomes(entered) :
        /\ Apply(o)
        /\ errorInside' = (errorInside \cup IF o.threw THEN {c} ELSE {}) \cap room'.members
        /\ told' = [d \in Clients |->
             CASE d = c /\ o.threw -> "error"
               [] d \in Losers(entered) -> "removed"
               [] d = c -> "joined"
               [] OTHER -> told[d]]
  BY DEF Join
<1> HIDE DEF entered
<1>4. o.threw \in BOOLEAN /\ UNCHANGED <<dangling, replaced>>
  <2>1. CASE o \in DisposeOutcomes(entered)
    BY <1>2, <1>3, <2>1, Disposed DEF Apply
  <2>2. CASE o \in {Returns(entered), Throws(entered, FALSE)}
    <3>1. o.threw = TRUE \/ o.threw = FALSE
      BY <2>2 DEF Returns, Throws
    <3> QED
      BY <1>3, <3>1 DEF Apply
  <2> QED
    BY <1>3, <2>1, <2>2
<1>5. /\ room' \in RoomRecords /\ room'.members \subseteq entered.members
      /\ aborted' \in BOOLEAN /\ undying' \in BOOLEAN /\ Whole(room', aborted', undying')
  <2>1. CASE o \in DisposeOutcomes(entered)
    BY <1>1, <1>2, <1>3, <2>1, Before, WholeAfter
  <2>2. CASE o \in {Returns(entered), Throws(entered, FALSE)}
    <3>1. o.room = entered /\ o.aborted = FALSE
      BY <2>2 DEF Returns, Throws
    <3>2. room' = entered
      BY <1>1, <1>2, <1>3, <3>1 DEF Apply, Outlived
    <3>3. aborted' = aborted /\ undying' = undying
      BY <1>1, <1>2, <1>3, <3>1, <3>2, Before DEF Apply
    <3> QED
      BY <1>1, <1>2, <3>2, <3>3, Before DEF Whole
  <2> QED
    BY <1>3, <2>1, <2>2
<1>6. \A d \in Clients : \/ told'[d] = "error" /\ d = c /\ o.threw
                         \/ told'[d] \in {"removed", "joined"}
                         \/ told'[d] = told[d] /\ d # c
  <2> TAKE d \in Clients
  <2>1. told'[d] = CASE d = c /\ o.threw -> "error"
                     [] d \in Losers(entered) -> "removed"
                     [] d = c -> "joined"
                     [] OTHER -> told[d]
    BY <1>3
  <2> QED
    BY <1>4, <2>1
<1>7. FailuresTypeOK'
  <2>1. told' \in [Clients -> {"nothing", "joined", "removed", "error"}]
    <3>1. \A d \in Clients : told'[d] \in {"nothing", "joined", "removed", "error"}
      BY <1>6, Before
    <3>2. told' = [d \in Clients |-> told'[d]]
      BY <1>3
    <3> QED
      BY <3>1, <3>2
  <2>2. errorInside' \subseteq Clients
    BY <1>3, <1>5 DEF RoomRecords
  <2> QED
    BY <1>1, <1>4, <1>5, <2>1, <2>2, Before DEF FailuresTypeOK, RoomRecords
<1>8. HalfInv'
  BY <1>4, <1>5, Before DEF HalfInv, Whole, FailuresLeaveNoHalfRoom
<1>9. ErrorMeansOutside'
  <2> SUFFICES ASSUME NEW d \in Clients, told'[d] = "error", d \in room'.members
               PROVE  d \in errorInside'
    BY DEF ErrorMeansOutside
  <2>1. CASE d = c /\ o.threw
    BY <1>3, <2>1
  <2>2. CASE told[d] = "error" /\ d # c
    <3>1. d \in room.members
      BY <1>2, <1>5, <2>2
    <3>2. d \in errorInside
      BY <2>2, <3>1 DEF FailuresInv, ErrorMeansOutside
    <3> QED
      BY <1>3, <3>2
  <2> QED
    BY <1>6, <2>1, <2>2
<1> QED
  BY <1>7, <1>8, <1>9 DEF FailuresInv

(* Every step keeps the invariant.                                         *)
LEMMA FailuresStep == FailuresInv /\ [FailuresNext]_failuresVars => FailuresInv'
<1> SUFFICES ASSUME FailuresInv, [FailuresNext]_failuresVars
             PROVE  FailuresInv'
  OBVIOUS
<1>1. CASE UNCHANGED failuresVars
  BY <1>1 DEF failuresVars, pastVars, FailuresInv, FailuresTypeOK, HalfInv, FailuresLeaveNoHalfRoom, ErrorMeansOutside
<1> QED
  BY <1>1, FailuresCreate, FailuresExpire, FailuresDispose, FailuresReject, FailuresJoin DEF FailuresNext

(* Before its first object nothing refers to the room.                     *)
LEMMA FailuresStart == FailuresInit => FailuresInv
<1> SUFFICES ASSUME FailuresInit
             PROVE  FailuresInv
  OBVIOUS
<1>1. /\ room = NoObject /\ told = [c \in Clients |-> "nothing"] /\ dangling = FALSE
      /\ crashed = FALSE /\ aborted = FALSE /\ undying = FALSE /\ replaced = FALSE /\ errorInside = {}
  BY DEF FailuresInit
<1>2. FailuresTypeOK
  BY <1>1, Nothing DEF FailuresTypeOK, RoomRecords
<1> QED
  BY <1>1, <1>2, Nothing DEF FailuresInv, HalfInv, FailuresLeaveNoHalfRoom, ErrorMeansOutside

(* The types hold for every set of clients.                                *)
THEOREM FailuresTypeCorrect == FailuresSpec => []FailuresTypeOK
<1>1. FailuresInv => FailuresTypeOK
  BY DEF FailuresInv
<1> QED
  BY <1>1, FailuresStart, FailuresStep, PTL DEF FailuresSpec

(* Whatever hooks throw, an object whose id is free hears nothing, holds   *)
(* nobody and has no timer, and a room whose id is taken can still be      *)
(* ended by its timer, but for a dispose() that an on_leave or             *)
(* before_dispose hook left, or that on_create called; and only of such    *)
(* rooms do subscriptions outlive the object.                              *)
THEOREM NoHalfRoomIsLeft == FailuresSpec => []FailuresLeaveNoHalfRoom
<1>1. FailuresInv => FailuresLeaveNoHalfRoom
  BY DEF FailuresInv, HalfInv
<1> QED
  BY <1>1, FailuresStart, FailuresStep, PTL DEF FailuresSpec

(* Who was last told of an error is not in the room, unless it was when it *)
(* asked, or was entered and its joining threw afterwards.                 *)
THEOREM ErrorsAreTrue == FailuresSpec => []ErrorMeansOutside
<1>1. FailuresInv => ErrorMeansOutside
  BY DEF FailuresInv
<1> QED
  BY <1>1, FailuresStart, FailuresStep, PTL DEF FailuresSpec

-------------------------------------------------------------------------------
(* KeepAlive.                                                              *)

(* A poll by the client leaves its last ping less than an interval back,   *)
(* so that the ping is no older than that and the time since the poll.     *)
PingInv ==
  /\ sincePing < Interval + unpolled
  /\ starved \/ unpolled + 2 * Delay <= Timeout

(* A message is in the socket or read, and its time is not yet stored.     *)
Pending == inbox = "message" \/ reader = "message"

(* The server's time without a message runs with the time since the last   *)
(* ping, a delay ahead at most; while the next ping is under way it is     *)
(* ahead by the ping's age of what it was when the ping was sent.  While a *)
(* message is pending it may be any, and no poll looks at it.              *)
HeardInv ==
  /\ ping # NoPing => ping = sincePing
  /\ ~Pending /\ ping = NoPing => sinceHeard <= sincePing + Delay
  /\ ~Pending /\ ping # NoPing => starved \/ sinceHeard + Delay < Interval + Timeout + ping

(* A poll by the server leaves a connection open that is within the limit; *)
(* before the first poll of a read that data started, nothing is known.    *)
LimitInv ==
  /\ open => sinceHeard < Interval + Timeout + serverQuiet \/ undisturbed <= serverQuiet
  /\ reader # "reading" => undisturbed = 0

KeptInv == alive => PingInv /\ HeardInv /\ (open \/ starved)

AliveInv == KeepAliveTypeOK /\ LimitInv /\ KeptInv

(* What the proofs use of the times.                                       *)
LEMMA Times ==
  /\ Interval \in Nat /\ Timeout \in Nat /\ Poll \in Nat /\ Delay \in Nat
  /\ Poll >= 1 /\ Delay < Interval /\ Poll + 2 * Delay < Timeout
  /\ Cap \in Nat /\ Cap = Interval + Timeout + Poll + 1
BY TimesAssumption DEF Cap

(* Ages grow by a second at most, and are cut off at their bound.          *)
LEMMA Ages ==
  ASSUME NEW bound \in Nat, NEW age \in 0 .. bound
  PROVE  /\ Aged(age, bound) \in 0 .. bound
         /\ Aged(age, bound) <= age + 1
         /\ Aged(age, bound) = age + 1 \/ (age = bound /\ Aged(age, bound) = bound)
BY DEF Aged

(* Arithmetic of the limits and of ages that grow together.                *)
LEMMA NotBelow ==
  ASSUME NEW a \in Nat, NEW i \in Nat, NEW t \in Nat, ~(a >= i + t)
  PROVE  a < i + t
OBVIOUS

LEMMA NotAbove ==
  ASSUME NEW a \in Nat, NEW d \in Nat, NEW t \in Nat, ~(a + 1 + 2 * d > t),
         NEW b \in Nat, b <= a + 1
  PROVE  b + 2 * d <= t
OBVIOUS

LEMMA BothLater ==
  ASSUME NEW a \in Nat, NEW b \in Nat, NEW d \in Nat, NEW i \in Nat, NEW t \in Nat,
         a + d < i + t + b, NEW c \in Nat, c <= a + 1
  PROVE  c + d < i + t + (b + 1)
OBVIOUS

LEMMA LaterTogether ==
  ASSUME NEW cap \in Nat, NEW a \in 0 .. cap, NEW b \in 0 .. cap, NEW d \in Nat,
         NEW c \in 0 .. cap, NEW e \in Nat, c <= a + 1, e = b + 1 \/ e = cap
  PROVE  /\ a <= b + d => c <= e + d
         /\ d >= 1 /\ a < d + b => c < d + e
OBVIOUS

(* Both loops start with frames at most a delay apart.                     *)
LEMMA AliveStart == KeepAliveInit => AliveInv
<1> SUFFICES ASSUME KeepAliveInit
             PROVE  AliveInv
  OBVIOUS
<1>1. KeepAliveTypeOK
  <2>1. sincePing \in 0 .. Cap /\ sinceHeard \in 0 .. Cap
    BY Times DEF KeepAliveInit
  <2>2. unpolled \in 0 .. Cap /\ clientQuiet \in 0 .. Poll /\ serverQuiet \in 0 .. Poll
    BY Times DEF KeepAliveInit
  <2>3. open \in BOOLEAN /\ alive \in BOOLEAN /\ starved \in BOOLEAN /\ ping \in 0 .. Delay \cup {NoPing}
    BY DEF KeepAliveInit
  <2>4. /\ reader \in {"reading", "fragment", "message", "handling"}
        /\ inbox \in {"nothing", "fragment", "message"} /\ undisturbed \in 0 .. (Poll + 1)
    BY Times DEF KeepAliveInit
  <2> QED
    BY <2>1, <2>2, <2>3, <2>4 DEF KeepAliveTypeOK
<1>2. LimitInv
  BY Times DEF KeepAliveInit, LimitInv
<1>3. KeptInv
  BY Times DEF KeepAliveInit, KeptInv, PingInv, HeardInv
<1> QED
  BY <1>1, <1>2, <1>3 DEF AliveInv

(* The client's steps.                                                     *)
LEMMA AliveClient ==
  ASSUME AliveInv, ClientHears \/ ClientPolls \/ ClientDies
  PROVE  AliveInv'
<1>1. KeepAliveTypeOK /\ LimitInv /\ KeptInv
  BY DEF AliveInv
<1>2. CASE ClientHears
  <2>1. KeepAliveTypeOK'
    BY <1>1, <1>2, Times DEF ClientHears, KeepAliveTypeOK, serverVars, readerVars
  <2> QED
    BY <1>1, <1>2, <2>1 DEF ClientHears, AliveInv, LimitInv, KeptInv, PingInv, HeardInv, Pending, serverVars, readerVars
<1>3. CASE ClientPolls
  <2>1. KeepAliveTypeOK'
    BY <1>1, <1>3, Times DEF ClientPolls, KeepAliveTypeOK, serverVars, readerVars
  <2>2. LimitInv'
    BY <1>1, <1>3 DEF ClientPolls, LimitInv, serverVars, readerVars
  <2>3. PingInv'
    BY <1>1, <1>3, Times DEF ClientPolls, KeepAliveTypeOK, PingInv
  <2>4. HeardInv'
    <3>1. PingInv /\ HeardInv /\ sincePing \in Nat /\ sinceHeard \in Nat /\ unpolled \in Nat
      BY <1>1, <1>3 DEF ClientPolls, KeptInv, KeepAliveTypeOK
    <3>2. CASE sincePing < Interval
      BY <1>1, <1>3, <3>1, <3>2, Times DEF ClientPolls, HeardInv, Pending, serverVars, readerVars
    <3>3. CASE ~(sincePing < Interval)
      <4>1. sincePing' = 0 /\ ping' = 0 /\ UNCHANGED <<starved, sinceHeard, Pending>>
        BY <1>3, <3>1, <3>3, Times DEF ClientPolls, Pending, serverVars, readerVars
      <4>2. ping = NoPing
        BY <1>1, <3>1, <3>3, Times, NoPingAssumption DEF HeardInv, KeepAliveTypeOK
      <4>3. Pending \/ sinceHeard <= sincePing + Delay
        BY <3>1, <4>2 DEF HeardInv
      <4>4. Pending \/ starved \/ sinceHeard + Delay < Interval + Timeout
        BY <3>1, <4>3, Times DEF PingInv
      <4> QED
        BY <4>1, <4>4, NoPingAssumption, Times DEF HeardInv
    <3> QED
      BY <3>2, <3>3
  <2> QED
    BY <1>1, <1>3, <2>1, <2>2, <2>3, <2>4 DEF ClientPolls, AliveInv, KeptInv, serverVars
<1>4. CASE ClientDies
  BY <1>1, <1>4 DEF ClientDies, AliveInv, KeepAliveTypeOK, LimitInv, KeptInv, serverVars, readerVars
<1> QED
  BY <1>2, <1>3, <1>4

(* What arrives is in the socket; a ping there is pending.                 *)
LEMMA AliveArrival ==
  ASSUME AliveInv, PingArrives \/ DataArrives
  PROVE  AliveInv'
<1>1. KeepAliveTypeOK /\ LimitInv /\ KeptInv
  BY DEF AliveInv
<1>2. /\ UNCHANGED <<open, sinceHeard, serverQuiet, reader, undisturbed, clientVars>>
      /\ inbox' \in {"fragment", "message"} /\ (Pending => Pending')
      /\ UNCHANGED ping \/ (ping' = NoPing /\ Pending')
  BY <1>1 DEF PingArrives, DataArrives, InboxWith, Pending, KeepAliveTypeOK, readerVars
<1>3. KeepAliveTypeOK' /\ LimitInv'
  BY <1>1, <1>2 DEF KeepAliveTypeOK, LimitInv, clientVars
<1>4. KeptInv'
  BY <1>1, <1>2 DEF KeptInv, PingInv, HeardInv, clientVars
<1> QED
  BY <1>3, <1>4 DEF AliveInv

(* The server's steps: a message that it takes starts its time anew, and a *)
(* poll closes the connection only if the client is starved or dead.       *)
LEMMA AliveServer ==
  ASSUME AliveInv, ServerReads \/ DropFragment \/ TakeMessage \/ HandlerReturns \/ ServerPolls
  PROVE  AliveInv'
<1>1. KeepAliveTypeOK /\ LimitInv /\ KeptInv
  BY DEF AliveInv
<1>2. CASE ServerReads \/ DropFragment \/ HandlerReturns
  <2>1. /\ UNCHANGED <<open, sinceHeard, clientVars, ping>> /\ (Pending' <=> Pending)
        /\ undisturbed' = 0 \/ reader' = "reading"
        /\ UNCHANGED <<serverQuiet, undisturbed>> \/ (serverQuiet' = 0 /\ undisturbed' = 0)
    BY <1>1, <1>2 DEF ServerReads, DropFragment, HandlerReturns, Pending, LimitInv, KeepAliveTypeOK
  <2>2. KeepAliveTypeOK'
    BY <1>1, <1>2, <2>1, Times DEF ServerReads, DropFragment, HandlerReturns, KeepAliveTypeOK, clientVars
  <2>3. LimitInv'
    BY <1>1, <2>1 DEF LimitInv
  <2>4. KeptInv'
    BY <1>1, <2>1 DEF KeptInv, PingInv, HeardInv, clientVars
  <2> QED
    BY <2>2, <2>3, <2>4 DEF AliveInv
<1>3. CASE TakeMessage
  <2>1. KeepAliveTypeOK'
    BY <1>1, <1>3, Times DEF TakeMessage, KeepAliveTypeOK, clientVars
  <2>2. LimitInv'
    BY <1>1, <1>3, Times DEF TakeMessage, LimitInv, KeepAliveTypeOK
  <2>3. KeptInv'
    BY <1>1, <1>3, Times DEF TakeMessage, KeptInv, PingInv, HeardInv, KeepAliveTypeOK, clientVars
  <2> QED
    BY <2>1, <2>2, <2>3 DEF AliveInv
<1>4. CASE ServerPolls
  <2>1. KeepAliveTypeOK'
    BY <1>1, <1>4, Times DEF ServerPolls, KeepAliveTypeOK, clientVars
  <2>2. LimitInv'
    <3>1. open' = ~(sinceHeard >= Interval + Timeout)
      BY <1>4 DEF ServerPolls, TooLongIdle
    <3>2. open' => sinceHeard < Interval + Timeout
      <4> SUFFICES ASSUME open'
                   PROVE  sinceHeard < Interval + Timeout
        OBVIOUS
      <4>1. ~(sinceHeard >= Interval + Timeout)
        BY <3>1
      <4>2. sinceHeard \in Nat
        BY <1>1, Times DEF KeepAliveTypeOK
      <4> QED
        BY <4>1, <4>2, Times, NotBelow
    <3>3. sinceHeard' = sinceHeard /\ serverQuiet' = 0 /\ reader' = "reading"
      BY <1>4 DEF ServerPolls
    <3> QED
      BY <3>2, <3>3, Times DEF LimitInv
  <2>3. UNCHANGED <<sinceHeard, ping, clientVars>> /\ ~Pending /\ ~Pending'
    BY <1>4 DEF ServerPolls, Pending
  <2>4. alive => open' \/ starved
    <3> SUFFICES ASSUME alive, ~starved
                 PROVE  ~TooLongIdle
      BY <1>1, <1>4 DEF ServerPolls
    <3>1. PingInv /\ HeardInv
      BY <1>1 DEF KeptInv
    <3>2. sinceHeard < Interval + Timeout
      <4>1. CASE ping = NoPing
        BY <1>1, <2>3, <3>1, <4>1, Times DEF PingInv, HeardInv, KeepAliveTypeOK
      <4>2. CASE ping # NoPing
        <5>1. ping \in 0 .. Delay
          BY <1>1, <4>2 DEF KeepAliveTypeOK
        <5> QED
          BY <1>1, <2>3, <3>1, <4>2, <5>1, Times DEF HeardInv, KeepAliveTypeOK
      <4> QED
        BY <4>1, <4>2
    <3> QED
      BY <1>1, <3>2, Times DEF TooLongIdle, KeepAliveTypeOK
  <2>5. KeptInv'
    BY <1>1, <2>3, <2>4 DEF KeptInv, PingInv, HeardInv, clientVars
  <2> QED
    BY <2>1, <2>2, <2>5 DEF AliveInv
<1> QED
  BY <1>2, <1>3, <1>4

(* A second passes.                                                        *)
LEMMA AliveTick ==
  ASSUME AliveInv, Tick
  PROVE  AliveInv'
<1>1. KeepAliveTypeOK /\ LimitInv /\ KeptInv
  BY DEF AliveInv
<1>2. /\ sinceHeard' \in 0 .. Cap /\ sinceHeard' <= sinceHeard + 1
      /\ ping' \in 0 .. Delay \cup {NoPing}
      /\ UNCHANGED <<open, alive, reader, inbox>>
  <2>1. sinceHeard' = Aged(sinceHeard, Cap) /\ sinceHeard \in 0 .. Cap
    BY <1>1 DEF Tick, Later, KeepAliveTypeOK
  <2>2. ping' \in 0 .. Delay \cup {NoPing}
    BY <1>1, Times DEF Tick, KeepAliveTypeOK
  <2> QED
    BY <2>1, <2>2, Times, Ages DEF Tick
<1>3. LimitInv' /\ serverQuiet' \in 0 .. Poll /\ undisturbed' \in 0 .. (Poll + 1)
  <2>1. serverQuiet \in 0 .. Poll /\ undisturbed \in 0 .. (Poll + 1)
    BY <1>1 DEF KeepAliveTypeOK
  <2>2. CASE reader = "reading"
    <3>1. /\ serverQuiet' = Aged(serverQuiet, Poll) /\ serverQuiet # Poll
          /\ undisturbed' = Aged(undisturbed, Poll + 1)
      BY <2>2 DEF Tick, ServerReadTimesOut
    <3>2. /\ serverQuiet' = serverQuiet + 1 /\ serverQuiet' \in 0 .. Poll
          /\ undisturbed' \in 0 .. (Poll + 1) /\ undisturbed' <= undisturbed + 1
      BY <2>1, <3>1, Times, Ages
    <3> QED
      BY <1>1, <1>2, <2>1, <2>2, <3>2, Times DEF LimitInv, KeepAliveTypeOK
  <2>3. CASE reader # "reading"
    <3>1. UNCHANGED <<serverQuiet, undisturbed>>
      BY <2>3 DEF Tick
    <3> QED
      BY <1>1, <1>2, <2>1, <2>3, <3>1, Times DEF LimitInv
  <2> QED
    BY <2>2, <2>3
<1>4. CASE ~alive
  <2>1. UNCHANGED <<sincePing, clientQuiet, unpolled, starved>>
    BY <1>4 DEF Tick
  <2>2. KeepAliveTypeOK'
    BY <1>1, <1>2, <1>3, <2>1 DEF KeepAliveTypeOK
  <2> QED
    BY <1>2, <1>3, <1>4, <2>2 DEF AliveInv, KeptInv
<1>5. CASE alive
  <2>1. /\ sincePing' = Aged(sincePing, Cap) /\ unpolled' = Aged(unpolled, Cap)
        /\ clientQuiet' = clientQuiet + 1 /\ clientQuiet < Poll
        /\ starved' = (starved \/ unpolled + 1 + 2 * Delay > Timeout)
    BY <1>5 DEF Tick, Later
  <2>2. sincePing \in 0 .. Cap /\ unpolled \in 0 .. Cap
    BY <1>1 DEF KeepAliveTypeOK
  <2>3. /\ sincePing' \in 0 .. Cap /\ sincePing' <= sincePing + 1
        /\ sincePing' = sincePing + 1 \/ (sincePing = Cap /\ sincePing' = Cap)
        /\ unpolled' \in 0 .. Cap /\ unpolled' <= unpolled + 1
        /\ unpolled' = unpolled + 1 \/ (unpolled = Cap /\ unpolled' = Cap)
    BY <2>1, <2>2, Times, Ages
  <2>4. KeepAliveTypeOK'
    BY <1>1, <1>2, <1>3, <2>1, <2>3, Times DEF KeepAliveTypeOK
  <2>5. PingInv /\ HeardInv
    BY <1>1, <1>5 DEF KeptInv
  <2>6. PingInv'
    <3>1. sincePing' < Interval + unpolled'
      <4>1. sincePing < Interval + unpolled
        BY <2>5 DEF PingInv
      <4>2. Interval >= 1 /\ unpolled' \in Nat /\ (unpolled' = unpolled + 1 \/ unpolled' = Cap)
        BY <2>3, Times
      <4> QED
        BY <2>2, <2>3, <4>1, <4>2, Times, LaterTogether
    <3>2. starved' \/ unpolled' + 2 * Delay <= Timeout
      <4> SUFFICES ASSUME ~starved'
                   PROVE  unpolled' + 2 * Delay <= Timeout
        OBVIOUS
      <4>1. ~(unpolled + 1 + 2 * Delay > Timeout)
        BY <2>1
      <4> QED
        <5>1. unpolled \in Nat /\ unpolled' \in Nat /\ unpolled' <= unpolled + 1
          BY <2>2, <2>3
        <5> QED
          BY <4>1, <5>1, Times, NotAbove
    <3> QED
      BY <3>1, <3>2 DEF PingInv
  <2>7. Pending' <=> Pending
    BY <1>2 DEF Pending
  <2>8. HeardInv'
    <3>1. CASE ping = NoPing
      <4>1. ping' = NoPing
        BY <3>1 DEF Tick
      <4>2. ASSUME ~Pending
            PROVE  sinceHeard' <= sincePing' + Delay
        <5>1. sinceHeard \in 0 .. Cap /\ sinceHeard <= sincePing + Delay
          BY <1>1, <2>5, <3>1, <4>2 DEF HeardInv, KeepAliveTypeOK
        <5>2. sincePing' \in Nat /\ (sincePing' = sincePing + 1 \/ sincePing' = Cap)
          BY <2>3, Times
        <5> QED
          BY <1>2, <2>2, <5>1, <5>2, Times, LaterTogether
      <4> QED
        BY <2>7, <4>1, <4>2 DEF HeardInv
    <3>2. CASE ping # NoPing
      <4>1. ping' = ping + 1 /\ ping \in 0 .. Delay /\ ping < Delay
        BY <1>1, <3>2 DEF Tick, KeepAliveTypeOK
      <4>2. ping = sincePing /\ (Pending \/ starved \/ sinceHeard + Delay < Interval + Timeout + ping)
        BY <2>5, <3>2 DEF HeardInv
      <4>3. sincePing' = sincePing + 1
        BY <2>3, <4>1, <4>2, Times
      <4>4. starved => starved'
        BY <2>1
      <4>5. sinceHeard \in Nat
        BY <1>1 DEF KeepAliveTypeOK
      <4>6. Pending \/ starved' \/ sinceHeard' + Delay < Interval + Timeout + ping'
        <5> SUFFICES ASSUME ~starved', ~Pending
                     PROVE  sinceHeard' + Delay < Interval + Timeout + ping'
          OBVIOUS
        <5>1. sinceHeard + Delay < Interval + Timeout + ping
          BY <4>2, <4>4
        <5> QED
          <6>1. sinceHeard' \in Nat /\ sinceHeard' <= sinceHeard + 1 /\ ping \in Nat
            BY <1>2, <4>1
          <6>2. sinceHeard' + Delay < Interval + Timeout + (ping + 1)
            BY <4>5, <5>1, <6>1, Times, BothLater
          <6> QED
            BY <4>1, <6>2
      <4>7. ping' # NoPing
        BY <4>1, NoPingAssumption, Times
      <4> QED
        BY <2>7, <4>1, <4>2, <4>3, <4>6, <4>7 DEF HeardInv
    <3> QED
      BY <3>1, <3>2
  <2>9. open \/ starved'
    BY DEF Tick
  <2> QED
    BY <1>2, <1>3, <2>4, <2>6, <2>8, <2>9 DEF AliveInv, KeptInv
<1> QED
  BY <1>4, <1>5

(* Every step keeps the invariant.                                         *)
LEMMA AliveStep == AliveInv /\ [KeepAliveNext]_keepAliveVars => AliveInv'
<1> SUFFICES ASSUME AliveInv, [KeepAliveNext]_keepAliveVars
             PROVE  AliveInv'
  OBVIOUS
<1>1. CASE UNCHANGED keepAliveVars
  BY <1>1 DEF keepAliveVars, clientVars, serverVars, readerVars, AliveInv, KeepAliveTypeOK, LimitInv,
              KeptInv, PingInv, HeardInv, Pending
<1> QED
  BY <1>1, AliveClient, AliveArrival, AliveServer, AliveTick DEF KeepAliveNext

(* The types hold for every choice of the times.                           *)
THEOREM KeepAliveTypeCorrect == KeepAliveSpec => []KeepAliveTypeOK
<1>1. AliveInv => KeepAliveTypeOK
  BY DEF AliveInv
<1> QED
  BY <1>1, AliveStart, AliveStep, PTL DEF KeepAliveSpec

(* A client that is there is not closed as idle, unless data of the server *)
(* kept it from its on_idle for longer than Timeout less two delays: the   *)
(* ping it sends at the next poll is heard in time.                        *)
THEOREM LiveClientStays == KeepAliveSpec => []LiveClientIsKept
<1>1. AliveInv => LiveClientIsKept
  BY DEF AliveInv, KeptInv, LiveClientIsKept
<1> QED
  BY <1>1, AliveStart, AliveStep, PTL DEF KeepAliveSpec

(* A connection that has brought no message for the interval and the       *)
(* timeout is closed by the next poll, or by the first one after bytes     *)
(* that complete no message and handlers have ended.                       *)
THEOREM SilentClientGoes == KeepAliveSpec => []SilentClientIsClosed
<1>1. AliveInv => SilentClientIsClosed
  BY Times DEF AliveInv, LimitInv, SilentClientIsClosed, KeepAliveTypeOK
<1> QED
  BY <1>1, AliveStart, AliveStep, PTL DEF KeepAliveSpec
===============================================================================
