------------------------------ MODULE RoomFailures ------------------------------
(***************************************************************************)
(* What the hooks of a Room leave behind when they throw (room.cpp,        *)
(* server.cpp).  One room id, whose Room objects follow one another; each  *)
(* step is a handler that holds the game lock from beginning to end.       *)
(* Every hook may return or throw.  Hooks that wait, and what threads see  *)
(* in between, are RoomServer's.                                           *)
(*                                                                         *)
(* An exception stops at the handlers that catch: createNewRoom, joinRoom  *)
(* and the admin interface's external-message.  On a timer, in a message   *)
(* or when a connection has gone nobody catches it and the process ends.   *)
(*                                                                         *)
(* A room that nothing disposes any more outlives its snapshot, which      *)
(* expires after three hours; the next room under its id destroys it while *)
(* it is subscribed.  Nothing is said of what follows the first message    *)
(* that reaches it.                                                        *)
(***************************************************************************)
CONSTANT Clients

VARIABLES
  room,       \* the object in managing_rooms_ and what refers to it
  told,       \* what each client was told last of the room
  dangling,   \* subscriptions are left of an object that has been destroyed
  crashed,    \* an exception has left a thread's function, or a destroyed object was called
  aborted,    \* history: the room's dispose() was left by an exception before it cleaned up
  undying,    \* history: the room's on_create called dispose()
  replaced,   \* history: an aborted or undying room has been destroyed
  errorInside \* history: members told of an error that were inside: rejected when they asked
              \* again, or entered by add_client before their joining threw

pastVars == <<aborted, undying, replaced, errorInside>>
failuresVars == <<room, told, dangling, crashed, pastVars>>

FailuresTypeOK ==
  /\ room \in [kept : BOOLEAN, stored : BOOLEAN, heard : BOOLEAN, timer : BOOLEAN,
               disposing : BOOLEAN, members : SUBSET Clients, doubled : SUBSET Clients]
  /\ told \in [Clients -> {"nothing", "joined", "removed", "error"}]
  /\ dangling \in BOOLEAN /\ crashed \in BOOLEAN
  /\ aborted \in BOOLEAN /\ undying \in BOOLEAN /\ replaced \in BOOLEAN
  /\ errorInside \subseteq Clients

(* kept: in managing_rooms_.  stored: the snapshot in the storage.         *)
(* heard: game_message_sub_ and player_left_sub_.  timer: auto_dispose_timer_. *)
(* members: who is in clients_.  doubled: who is there twice, the bound.   *)
NoObject ==
  [kept |-> FALSE, stored |-> FALSE, heard |-> FALSE, timer |-> FALSE,
   disposing |-> FALSE, members |-> {}, doubled |-> {}]

FailuresInit ==
  /\ room = NoObject
  /\ told = [c \in Clients |-> "nothing"]
  /\ dangling = FALSE /\ crashed = FALSE
  /\ aborted = FALSE /\ undying = FALSE /\ replaced = FALSE /\ errorInside = {}

-----------------------------------------------------------------------------
(* Plausible bugs. *)

\* on_dispose comes before the storage and the subscriptions are told.
HookBeforeCleanUp(s) == s

\* can_client_join is asked after add_client.
EnteredFirst(s, c) == [s EXCEPT !.members = @ \cup {c}]

-----------------------------------------------------------------------------
(* Room::dispose as the set of its outcomes. *)

Returns(s) == [room |-> s, threw |-> FALSE, aborted |-> FALSE]
Throws(s, early) == [room |-> s, threw |-> TRUE, aborted |-> early]

\* What is left without all entries of some clients and without one of two of others.
Without(s, gone, halved) ==
  [s EXCEPT !.members = @ \ gone, !.doubled = @ \ (gone \cup halved)]

\* An on_leave hook throws for one of the entries: those before it have been removed as well.
ThrowingOnLeave(s) ==
  {Throws(Without(s, lost.gone, lost.halved), TRUE) :
     lost \in [gone : SUBSET s.members, halved : SUBSET s.doubled]} \ {Throws(s, TRUE)}

\* The timer is cleared, the snapshot removed and both subscriptions end; then on_dispose is called.
CleanedUp(s) == [s EXCEPT !.timer = FALSE, !.stored = FALSE, !.heard = FALSE]

\* The object as an exception of on_dispose leaves it.
AfterFailedOnDispose(s) == CleanedUp(s)

\* on_room_disposed_ destroys the object.
Destroyed(s) == [CleanedUp(s) EXCEPT !.kept = FALSE]

DisposeOutcomes(s) ==
  IF s.disposing THEN {Returns(s)}
  ELSE LET entered == [s EXCEPT !.disposing = TRUE]
           left == Without(entered, s.members, s.doubled)
       IN ThrowingOnLeave(entered)
          \cup {Throws(left, TRUE), Throws(AfterFailedOnDispose(left), FALSE), Returns(Destroyed(left))}

\* Room::remove_client: on_leave, then the room is disposed if nobody is left.
RemoveOutcomes(s, c) ==
  LET without == IF c \in s.doubled THEN Without(s, {}, {c}) ELSE Without(s, {c}, {})
  IN {Throws(without, FALSE)}
     \cup (IF without.members = {} THEN DisposeOutcomes(without) ELSE {Returns(without)})

-----------------------------------------------------------------------------
(* The handlers. *)

\* An object that dispose() has destroyed has left nothing behind.
Outlived(s) == IF s.kept THEN s ELSE NoObject

\* What is remembered of the object once it is as outcome says.
Apply(outcome) ==
  /\ room' = Outlived(outcome.room)
  /\ aborted' = (room'.kept /\ (aborted \/ outcome.aborted))
  /\ undying' = (room'.kept /\ undying)
  /\ UNCHANGED <<dangling, replaced>>

\* Who has lost an entry is told; the rest of what the clients know stays.
Losers(before) == (before.members \ room'.members) \cup (before.doubled \ room'.doubled)

TellRemoved(before) ==
  /\ told' = [c \in Clients |-> IF c \in Losers(before) THEN "removed" ELSE told[c]]
  /\ errorInside' = errorInside \cap room'.members

\* The leftover object under the id is destroyed, and whatever subscriptions it has stay.
DestroyLeftover ==
  /\ dangling' = (dangling \/ room.heard)
  /\ replaced' = (replaced \/ aborted \/ undying)

\* Server::create_new_room: the id is free if no snapshot has it.  A leftover object
\* under the id is replaced, and so destroyed.
CreateRoom ==
  /\ ~room.stored
  /\ \E disposed \in BOOLEAN :
       /\ room' = [kept |-> TRUE, stored |-> TRUE, heard |-> TRUE, timer |-> TRUE,
                   disposing |-> disposed, members |-> {}, doubled |-> {}]
       /\ undying' = disposed
  /\ DestroyLeftover
  /\ aborted' = FALSE /\ errorInside' = {}
  /\ UNCHANGED <<told, crashed>>

\* on_create throws: initialize disposes the new object and passes the exception on.  The end of
\* dispose() erases whatever managing_rooms_ has under the id; before_dispose may keep it from that.
CreateRoomFails ==
  /\ ~room.stored
  /\ \/ UNCHANGED <<room, dangling, pastVars>>
     \/ /\ room' = NoObject /\ DestroyLeftover
        /\ aborted' = FALSE /\ undying' = FALSE /\ errorInside' = {}
  /\ UNCHANGED <<told, crashed>>

\* Three hours after its room was created a snapshot expires.  The room's timer, of two and a half,
\* is over by then.
TimerIsOver == ~room.timer

SnapshotExpires ==
  /\ room.stored /\ TimerIsOver
  /\ room' = [room EXCEPT !.stored = FALSE]
  /\ UNCHANGED <<told, dangling, crashed, pastVars>>

\* What is published under the id, and every PLAYER_LEFT, reaches the destroyed object as well.
MessageReachesDestroyed ==
  /\ dangling /\ crashed' = TRUE
  /\ UNCHANGED <<room, told, dangling, pastVars>>

\* What a client leaves in the room that can_client_join rejects.
Rejected(s, c) == s

\* There is no such room, or its can_client_join throws, which a member may meet that asks again.
JoinRejected(c) ==
  /\ room.stored => ~dangling
  /\ room' = IF room.stored /\ room.heard THEN Rejected(room, c) ELSE room
  /\ told' = [told EXCEPT ![c] = "error"]
  /\ errorInside' = IF c \in room.members THEN errorInside \cup {c} ELSE errorInside
  /\ UNCHANGED <<dangling, crashed, aborted, undying, replaced>>

\* add_client makes an entry whether or not the client has one.
Entered(s, c) ==
  IF c \in s.members THEN [s EXCEPT !.doubled = @ \cup {c}] ELSE [s EXCEPT !.members = @ \cup {c}]

\* add_client, joinedRoom, then on_join, which returns, throws or disposes the room.
Join(c) ==
  /\ room.stored /\ room.heard /\ ~dangling /\ c \notin room.doubled
  /\ LET entered == Entered(room, c)
     IN \E o \in {Returns(entered), Throws(entered, FALSE)} \cup DisposeOutcomes(entered) :
          /\ Apply(o)
          /\ errorInside' = (errorInside \cup IF o.threw THEN {c} ELSE {}) \cap room'.members
          /\ told' = [d \in Clients |->
               CASE d = c /\ o.threw -> "error"
                 [] d \in Losers(entered) -> "removed"
                 [] d = c -> "joined"
                 [] OTHER -> told[d]]
  /\ UNCHANGED crashed

\* A connection has gone, or a message makes on_message kick a client: nobody catches.
Remove(c) ==
  /\ room.heard /\ ~dangling /\ c \in room.members
  /\ \E o \in RemoveOutcomes(room, c) :
       /\ Apply(o) /\ TellRemoved(room)
       /\ crashed' = o.threw

\* The 2.5 h timer, on the scheduler's worker: nobody catches.
AutoDispose ==
  /\ room.timer
  /\ \E o \in DisposeOutcomes([room EXCEPT !.timer = FALSE]) :
       /\ Apply(o) /\ TellRemoved(room)
       /\ crashed' = o.threw

\* POST /external-message: on_external_message disposes the room; an exception becomes a 500.
ExternalMessage ==
  /\ room.heard /\ ~dangling
  /\ \E o \in DisposeOutcomes(room) : Apply(o) /\ TellRemoved(room)
  /\ UNCHANGED crashed

-----------------------------------------------------------------------------
FailuresNext ==
  /\ ~crashed
  /\ \/ CreateRoom \/ CreateRoomFails \/ SnapshotExpires \/ MessageReachesDestroyed
     \/ AutoDispose \/ ExternalMessage
     \/ \E c \in Clients : JoinRejected(c) \/ Join(c) \/ Remove(c)

FailuresSpec == FailuresInit /\ [][FailuresNext]_failuresVars

-----------------------------------------------------------------------------
(* Properties. *)

\* room.cpp:60: whatever hooks throw, an object whose id is free hears nothing, holds nobody and has no
\* timer, and one whose id is taken can still be ended by its timer, but for a dispose() that an on_leave
\* or before_dispose hook left, or that on_create called.  Of these alone do subscriptions outlive the object.
FailuresLeaveNoHalfRoom ==
  /\ ~room.stored =>
       ~room.timer /\ ((~room.heard /\ room.members = {}) \/ aborted \/ undying)
  /\ room.stored => (room.timer /\ ~room.disposing) \/ aborted \/ undying
  /\ dangling => replaced

\* room.cpp:203: who was last told of an error is not in the room, unless it was when it asked,
\* or was entered and its joining threw afterwards.
ErrorMeansOutside ==
  \A c \in Clients : told[c] = "error" => c \notin room.members \/ c \in errorInside
=============================================================================
