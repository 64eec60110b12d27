-------------------------------- MODULE Storage --------------------------------
(***************************************************************************)
(* MemoryStorage (memory_storage.cpp) and the two classes that keep data   *)
(* in it: RoomFetcher (room_fetcher.cpp), the snapshots of the rooms, and  *)
(* GameValues (game_values.cpp), one entry for all values of the game.     *)
(*                                                                         *)
(* A snapshot expires TTL after it was last written and is not renewed by  *)
(* reading, while the room itself lives by a clock of its own, its         *)
(* auto_dispose_timer_.  The storage's mutex covers one get or one set:    *)
(* GameValues::set is a get, a change and a set.  Hooks and the admin      *)
(* interface do this under the game lock, the application's own threads    *)
(* (Server::game_values()) without it.                                     *)
(***************************************************************************)
EXTENDS Naturals, FiniteSets

CONSTANTS
  RoomIds,     \* room ids
  Metas,       \* room metadata, EmptyMeta among them
  EmptyMeta,
  Keys,        \* names of game values
  Vals,        \* game values, NoVal (no such value) among them
  NoVal,
  Callers,     \* calls of GameValues::set
  Locked,      \* those under the game lock
  TTL,         \* THREE_HOURS
  Lifetime,    \* AUTO_DISPOSE_AFTER, two and a half
  Lateness,    \* how long the timer's callback may be delayed
  MaxTime,     \* bound of the clock
  MaxWrites,   \* bound: writes of game values
  Missing, Never

ASSUME ValuesAssumption ==
  /\ EmptyMeta \in Metas
  /\ NoVal \in Vals
  /\ Locked \subseteq Callers
  /\ Missing \notin [value : Metas \cup [Keys -> Vals], expires : Nat \cup {Never}]
ASSUME TimesAssumption ==
  /\ TTL \in Nat
  /\ Lifetime \in Nat
  /\ Lateness \in Nat
  /\ MaxTime \in Nat
  /\ MaxWrites \in Nat
  /\ Lifetime + Lateness <= TTL

VARIABLES
  now,         \* the steady clock
  snapshots,   \* entries_ under "room:": a metadata value and when it expires
  room,        \* "none", "live", or "undying": its on_create called dispose(),
               \* so that its timer does nothing
  due,         \* when the room's timer is due
  metadata,    \* Room::metadata
  gameValues,  \* the entry of all game values (Missing: no value is set)
  draft,       \* the values that a call of GameValues::set has read
  todo,        \* the value it is to set, <<>> outside the call
  latest,      \* history: what the calls that returned have set
  overlap,     \* history: a call outside the game lock has overlapped another
  writes       \* writes of game values so far

roomVars == <<snapshots, room, due, metadata>>
valueVars == <<gameValues, draft, todo, latest, overlap, writes>>
vars == <<now, roomVars, valueVars>>

Values == [Keys -> Vals]
NoValues == [k \in Keys |-> NoVal]
Snapshot == [value : Metas, expires : Nat]

RoomTypeOK ==
  /\ now \in Nat
  /\ snapshots \in [RoomIds -> Snapshot \cup {Missing}]
  /\ room \in [RoomIds -> {"none", "live", "undying"}]
  /\ due \in [RoomIds -> Nat]
  /\ metadata \in [RoomIds -> Metas]

(* The types of the variables.                                             *)
TypeOK ==
  /\ RoomTypeOK
  /\ gameValues \in [value : Values, expires : Nat \cup {Never}] \cup {Missing}
  /\ draft \in [Callers -> Values]
  /\ todo \in [Callers -> (Keys \X Vals) \cup {<<>>}]
  /\ latest \in Values
  /\ overlap \in BOOLEAN
  /\ writes \in 0 .. MaxWrites

Init ==
  /\ now = 0
  /\ snapshots = [i \in RoomIds |-> Missing]
  /\ room = [i \in RoomIds |-> "none"]
  /\ due = [i \in RoomIds |-> 0]
  /\ metadata = [i \in RoomIds |-> EmptyMeta]
  /\ gameValues = Missing
  /\ draft = [c \in Callers |-> NoValues]
  /\ todo = [c \in Callers |-> <<>>]
  /\ latest = NoValues
  /\ overlap = FALSE
  /\ writes = 0

-------------------------------------------------------------------------------
(***************************************************************************)
(* Plausible bugs: each is a variant of a definition below, none of them   *)
(* is used by the specification, and each breaks a property.               *)
(***************************************************************************)
ExpiredEarly(entry) == entry # Missing /\ entry.expires # Never /\ now >= entry.expires
MayAlwaysEnter(c) == TRUE
AnyIdAtAll == RoomIds

-------------------------------------------------------------------------------
(***************************************************************************)
(* MemoryStorage                                                           *)
(***************************************************************************)

Expired(entry) == entry # Missing /\ entry.expires # Never /\ now > entry.expires

Get(entry) == IF Expired(entry) THEN Missing ELSE entry

ExpiresAt(no_expiration) == IF no_expiration THEN Never ELSE now + TTL

Entry(value, no_expiration) == [value |-> value, expires |-> ExpiresAt(no_expiration)]

(* fetch_keys("room:") lists what is there, and erases what has expired.   *)
FetchKeys == {i \in RoomIds : Get(snapshots[i]) # Missing}
Purged == [i \in RoomIds |-> Get(snapshots[i])]
PurgedValues == Get(gameValues)

UnusedIds == RoomIds \ FetchKeys

-------------------------------------------------------------------------------
(***************************************************************************)
(* Rooms and their snapshots                                               *)
(***************************************************************************)

(* create_new_room: an id that is not listed, a room with its timer, and   *)
(* its snapshot.  (A set_metadata in on_create finds no snapshot yet and   *)
(* throws: the room is not created.)                                       *)
CreateNewRoom(i, state) ==
  /\ i \in UnusedIds
  /\ snapshots' = [Purged EXCEPT ![i] = Entry(EmptyMeta, FALSE)]
  /\ room' = [room EXCEPT ![i] = state]
  /\ due' = [due EXCEPT ![i] = now + Lifetime]
  /\ metadata' = [metadata EXCEPT ![i] = EmptyMeta]
  /\ gameValues' = PurgedValues
  /\ UNCHANGED <<now, draft, todo, latest, overlap, writes>>

(* Room::set_metadata in a hook: the snapshot is written again, and so     *)
(* renewed, if it is found; otherwise it throws and nothing changes.       *)
SetRoomMetadata(i, meta) ==
  /\ room[i] # "none"
  /\ Get(snapshots[i]) # Missing
  /\ snapshots' = [snapshots EXCEPT ![i] = Entry(meta, FALSE)]
  /\ metadata' = [metadata EXCEPT ![i] = meta]
  /\ UNCHANGED <<now, room, due, valueVars>>

(* Room::dispose, by a hook, the last client or the timer.                 *)
Dispose(i) ==
  /\ room[i] = "live"
  /\ snapshots' = [snapshots EXCEPT ![i] = Missing]
  /\ room' = [room EXCEPT ![i] = "none"]
  /\ UNCHANGED <<now, due, metadata, valueVars>>

(* get_rooms, get_room_count: the list alone changes the storage.          *)
GetListOfRooms ==
  /\ snapshots' = Purged
  /\ gameValues' = PurgedValues
  /\ UNCHANGED <<now, room, due, metadata, draft, todo, latest, overlap, writes>>

(* Time passes, but a due timer is not delayed by more than Lateness.      *)
Tick ==
  /\ now < MaxTime
  /\ \A i \in RoomIds : room[i] = "live" => now < due[i] + Lateness
  /\ now' = now + 1
  /\ UNCHANGED <<roomVars, valueVars>>

-------------------------------------------------------------------------------
(***************************************************************************)
(* Game values                                                             *)
(***************************************************************************)

GetAll == IF Get(gameValues) = Missing THEN NoValues ELSE gameValues.value

SetAll(values) == gameValues' = Entry(values, TRUE)

Inside == {c \in Callers : todo[c] # <<>>}

(* A locked call waits for the game lock; one without a lock does not.     *)
MayEnter(c) == c \in Locked => Inside \cap Locked = {}

(* GameValues::set: get_all ...                                            *)
SetReads(c, k, v) ==
  /\ c \notin Inside
  /\ MayEnter(c)
  /\ draft' = [draft EXCEPT ![c] = GetAll]
  /\ todo' = [todo EXCEPT ![c] = <<k, v>>]
  /\ overlap' = (overlap \/ (Inside # {} /\ ~(Inside \cup {c} \subseteq Locked)))
  /\ UNCHANGED <<now, roomVars, gameValues, latest, writes>>

(* ... the change, and set_all.                                            *)
SetWrites(c) ==
  /\ c \in Inside
  /\ writes < MaxWrites
  /\ writes' = writes + 1
  /\ LET k == todo[c][1]
         v == todo[c][2]
     IN /\ SetAll([draft[c] EXCEPT ![k] = v])
        /\ latest' = [latest EXCEPT ![k] = v]
  /\ todo' = [todo EXCEPT ![c] = <<>>]
  /\ draft' = [draft EXCEPT ![c] = NoValues]
  /\ UNCHANGED <<now, roomVars, overlap>>

(* reset(), and the admin's set_all, under the game lock: one write.       *)
SetAllValues(values) ==
  /\ Inside \cap Locked = {}
  /\ writes < MaxWrites
  /\ writes' = writes + 1
  /\ SetAll(values)
  /\ latest' = values
  /\ overlap' = (overlap \/ Inside # {})
  /\ UNCHANGED <<now, roomVars, draft, todo>>

-------------------------------------------------------------------------------

RoomStep ==
  \/ \E i \in RoomIds : \/ CreateNewRoom(i, "live")
                        \/ CreateNewRoom(i, "undying")
                        \/ \E meta \in Metas : SetRoomMetadata(i, meta)
                        \/ Dispose(i)
  \/ GetListOfRooms
  \/ Tick

ValueStep ==
  \/ \E c \in Callers, k \in Keys, v \in Vals \ {NoVal} : SetReads(c, k, v)
  \/ \E c \in Callers : SetWrites(c)
  \/ \E values \in Values : SetAllValues(values)

Next == RoomStep \/ ValueStep

Spec == Init /\ [][Next]_vars

-------------------------------------------------------------------------------
(***************************************************************************)
(* Safety                                                                  *)
(***************************************************************************)

(* The snapshot of a room that lives can be found, however long ago it was *)
(* written, and holds the room's metadata: the room's timer ends the room  *)
(* before the storage forgets it.                                          *)
SnapshotOutlivesRoom ==
  \A i \in RoomIds : room[i] = "live" =>
    Get(snapshots[i]) # Missing /\ Get(snapshots[i]).value = metadata[i]

(* No room replaces one that lives under its id in managing_rooms_: the    *)
(* list that create_new_room reads is complete.                            *)
LiveRoomIsNotReplaced ==
  [][\A i \in RoomIds : room[i] = "live" => room'[i] = "none" \/ due'[i] = due[i]]_vars

(* Every set of a game value takes effect and lasts, whatever else is set  *)
(* meanwhile and however much time passes, unless a call outside the game  *)
(* lock overlapped another one.                                            *)
NoUpdateIsLost == overlap \/ GetAll = latest
===============================================================================
