------------------------------- MODULE AdminInfo -------------------------------
(***************************************************************************)
(* GET /rooms/<id> of the admin interface (server.cpp, room.cpp and        *)
(* memory_pubsub.cpp).  A request listens on the one REQUEST_INFO channel, *)
(* publishes a question on the channel of the room, waits at most five     *)
(* seconds without the game lock and stops listening.  The room answers on *)
(* the same channel, so every request that listens hears every answer.     *)
(* Others publish there as well: sendMessage and external-message publish  *)
(* under whatever name they are given, and a request may ask for a room of *)
(* the channel's own name.                                                 *)
(*                                                                         *)
(* Each step here is one section under the game lock or one blocking call. *)
(* A publish calls its handlers before it returns, so question and answers *)
(* are one step.  What a room says of its clients is not told apart: an    *)
(* answer is the id of the room that gave it, or Channel if no room did.   *)
(***************************************************************************)
CONSTANTS
  Requests,     \* request threads
  RoomIds,      \* room ids that are asked for
  Channel,      \* the name of the channel, REQUEST_INFO, which no room has for its id
  None,         \* no room, no answer
  NotFound      \* the response "No room found"

Names == RoomIds \cup {Channel}

ASSUME NoneAssumption ==
  Channel \notin RoomIds /\ None \notin Names /\ NotFound \notin Names /\ NotFound # None

VARIABLES
  live,       \* rooms that listen on the channel of their id
  at,         \* where each request stands
  wanted,     \* the name each request asks for
  listeners,  \* requests that listen on REQUEST_INFO
  result,     \* the locals got and result that each listener sets: None, or the answer heard last
  response,   \* what was sent to the peer: None, NotFound or the answer
  present,    \* history: requests whose room existed when they asked
  crossed,    \* history: requests that listened while another one asked for another room
  disturbed   \* history: requests that listened while a message was published to the channel

requestVars == <<at, wanted, listeners, result, response, present, crossed, disturbed>>
infoVars == <<live, requestVars>>

InfoTypeOK ==
  /\ live \subseteq RoomIds
  /\ at \in [Requests -> {"idle", "waiting", "awake", "answering", "done"}]
  /\ wanted \in [Requests -> Names \cup {None}]
  /\ listeners \subseteq Requests
  /\ result \in [Requests -> Names \cup {None}]
  /\ response \in [Requests -> Names \cup {None, NotFound}]
  /\ present \subseteq Requests /\ crossed \subseteq Requests /\ disturbed \subseteq Requests

InfoInit ==
  /\ live = {}
  /\ at = [q \in Requests |-> "idle"] /\ wanted = [q \in Requests |-> None]
  /\ listeners = {} /\ result = [q \in Requests |-> None]
  /\ response = [q \in Requests |-> None]
  /\ present = {} /\ crossed = {} /\ disturbed = {}

-----------------------------------------------------------------------------
(* Plausible bugs. *)

\* The question is published before the request listens.
HeardByEarlierOnes(q) == listeners

\* Only a request that was answered stops listening.
ForgottenAfterTimeout(q) == IF result[q] = None THEN listeners ELSE listeners \ {q}

-----------------------------------------------------------------------------
(* Rooms, under the game lock.  Room ids are used again. *)

OpenRoom(r) ==
  /\ r \notin live /\ live' = live \cup {r}
  /\ UNCHANGED requestVars

DisposeRoom(r) ==
  /\ r \in live /\ live' = live \ {r}
  /\ UNCHANGED requestVars

-----------------------------------------------------------------------------
(* Messages that are no answers. *)

\* A client's sendMessage or the admin's external-message with the channel's name for a room:
\* whoever listens takes it for an answer.
PublishMessage ==
  /\ result' = [p \in Requests |-> IF p \in listeners THEN Channel ELSE result[p]]
  /\ disturbed' = disturbed \cup listeners
  /\ UNCHANGED <<live, at, wanted, listeners, response, present, crossed>>

-----------------------------------------------------------------------------
(* A request. *)

\* A question is heard by its room if there is one; one that is published on the channel
\* itself is taken for an answer.
IsHeard(r) == r \in live \/ r = Channel

\* Those that hear the answer to q: it listens before it asks.
Hearing(q) == listeners \cup {q}

Ask(q, r) ==
  /\ at[q] = "idle" /\ at' = [at EXCEPT ![q] = "waiting"]
  /\ wanted' = [wanted EXCEPT ![q] = r]
  /\ listeners' = listeners \cup {q}
  /\ result' = [p \in Requests |-> IF IsHeard(r) /\ p \in Hearing(q) THEN r ELSE result[p]]
  /\ present' = IF r \in live THEN present \cup {q} ELSE present
  /\ crossed' = crossed \cup {p \in listeners : wanted[p] # r}
  /\ UNCHANGED <<live, response, disturbed>>

\* wait_for returns: there is an answer, or five seconds are over.
MayStopWaiting(q) == TRUE

StopWaiting(q) ==
  /\ at[q] = "waiting" /\ MayStopWaiting(q)
  /\ at' = [at EXCEPT ![q] = "awake"]
  /\ UNCHANGED <<live, wanted, listeners, result, response, present, crossed, disturbed>>

ListenersWithout(q) == listeners \ {q}

Unsubscribe(q) ==
  /\ at[q] = "awake" /\ at' = [at EXCEPT ![q] = "answering"]
  /\ listeners' = ListenersWithout(q)
  /\ UNCHANGED <<live, wanted, result, response, present, crossed, disturbed>>

Respond(q) ==
  /\ at[q] = "answering" /\ at' = [at EXCEPT ![q] = "done"]
  /\ response' = [response EXCEPT ![q] = IF result[q] = None THEN NotFound ELSE result[q]]
  /\ UNCHANGED <<live, wanted, listeners, result, present, crossed, disturbed>>

-----------------------------------------------------------------------------
RequestStep(q) == StopWaiting(q) \/ Unsubscribe(q) \/ Respond(q)

InfoNext ==
  \/ PublishMessage
  \/ \E r \in RoomIds : OpenRoom(r) \/ DisposeRoom(r)
  \/ \E q \in Requests : (\E r \in Names : Ask(q, r)) \/ RequestStep(q)

InfoSpec == InfoInit /\ [][InfoNext]_infoVars

-----------------------------------------------------------------------------
(* Properties. *)

\* server.cpp:466: "No room found" is sent only if there was no such room when the request asked, and an
\* answer is that of the room asked for, unless a question for another one crossed the request or a
\* message to the channel's name came in its way.
AnswerIsRight ==
  \A q \in Requests :
    /\ response[q] = NotFound => q \notin present
    /\ response[q] \notin {None, NotFound} =>
         response[q] = wanted[q] \/ q \in crossed \/ (response[q] = Channel /\ q \in disturbed)

\* server.cpp:486: a listener refers to locals of its request's thread: it is gone before they are.
NoListenerOutlivesItsRequest ==
  \A q \in listeners : at[q] \in {"waiting", "awake"}

=============================================================================
