----------------------------- MODULE StorageProofs -----------------------------
(***************************************************************************)
(* Proofs about Storage: rooms and the expiry of their snapshots.          *)
(*                                                                         *)
(* SnapshotOutlivesRoom speaks of what has not expired and is not          *)
(* inductive.  SnapshotInv says why it has not: every snapshot of a living *)
(* room was written after the room's timer was set, so that it expires     *)
(* after the latest moment at which the timer's callback runs; and the     *)
(* clock has not passed that moment while the room lives.  A renewed       *)
(* snapshot needs the timer to be due within Lifetime.                     *)
(***************************************************************************)
EXTENDS Storage, TLAPS

SnapshotInv ==
  /\ RoomTypeOK
  /\ \A i \in RoomIds : room[i] = "live" =>
       /\ snapshots[i] # Missing
       /\ snapshots[i].value = metadata[i]
       /\ due[i] <= now + Lifetime
       /\ now <= due[i] + Lateness
       /\ due[i] + Lateness <= snapshots[i].expires

(* A snapshot that has not reached its time is found.                      *)
LEMMA NotExpired ==
  ASSUME NEW entry, now \in Nat, entry.expires \in Nat, now <= entry.expires
  PROVE  ~Expired(entry) /\ Get(entry) = entry
BY DEF Expired, Get

(* The invariant implies the property.                                     *)
LEMMA InvGivesSnapshots ==
  ASSUME SnapshotInv
  PROVE  /\ SnapshotOutlivesRoom
         /\ \A i \in RoomIds : room[i] = "live" => Get(snapshots[i]) = snapshots[i]
<1>1. ASSUME NEW i \in RoomIds, room[i] = "live"
      PROVE  /\ Get(snapshots[i]) = snapshots[i]
             /\ snapshots[i] # Missing
             /\ snapshots[i].value = metadata[i]
  <2>1. snapshots[i] # Missing /\ snapshots[i].value = metadata[i]
    BY <1>1 DEF SnapshotInv
  <2>2. snapshots[i].expires \in Nat /\ due[i] \in Nat /\ now \in Nat
    BY <2>1 DEF SnapshotInv, RoomTypeOK, Snapshot
  <2>3. now <= snapshots[i].expires
    BY <1>1, <2>2, TimesAssumption DEF SnapshotInv
  <2> QED
    BY <2>1, <2>2, <2>3, NotExpired
<1> QED
  BY <1>1 DEF SnapshotOutlivesRoom

(* What is written under "room:" is a snapshot that lives for TTL.         *)
LEMMA EntryIsSnapshot ==
  ASSUME now \in Nat, NEW meta \in Metas
  PROVE  /\ Entry(meta, FALSE) \in Snapshot
         /\ Entry(meta, FALSE) # Missing
         /\ Entry(meta, FALSE).value = meta
         /\ Entry(meta, FALSE).expires = now + TTL
BY TimesAssumption, ValuesAssumption DEF Entry, ExpiresAt, Snapshot

(* Erasing what has expired touches no living room's snapshot.             *)
LEMMA PurgeKeepsSnapshots ==
  ASSUME SnapshotInv
  PROVE  /\ Purged \in [RoomIds -> Snapshot \cup {Missing}]
         /\ \A i \in RoomIds : room[i] = "live" => Purged[i] = snapshots[i]
<1>1. \A i \in RoomIds : Get(snapshots[i]) \in Snapshot \cup {Missing}
  BY DEF SnapshotInv, RoomTypeOK, Get
<1> QED
  BY <1>1, InvGivesSnapshots DEF Purged

(* A new room: its snapshot outlasts the timer because the timer is set    *)
(* first and Lifetime + Lateness is at most TTL.                           *)
LEMMA CreateKeepsInv ==
  ASSUME SnapshotInv, NEW i \in RoomIds, NEW state \in {"live", "undying"},
         CreateNewRoom(i, state)
  PROVE  SnapshotInv'
<1> DEFINE e == Entry(EmptyMeta, FALSE)
<1>1. now \in Nat /\ EmptyMeta \in Metas
  BY ValuesAssumption DEF SnapshotInv, RoomTypeOK
<1>2. e \in Snapshot /\ e # Missing /\ e.value = EmptyMeta /\ e.expires = now + TTL
  BY <1>1, EntryIsSnapshot
<1>3. /\ snapshots' = [Purged EXCEPT ![i] = e]
      /\ room' = [room EXCEPT ![i] = state]
      /\ due' = [due EXCEPT ![i] = now + Lifetime]
      /\ metadata' = [metadata EXCEPT ![i] = EmptyMeta]
      /\ now' = now
  BY DEF CreateNewRoom
<1> HIDE DEF e
<1>4. now + Lifetime \in Nat
  BY <1>1, TimesAssumption
<1>5. RoomTypeOK'
  BY <1>1, <1>2, <1>3, <1>4, PurgeKeepsSnapshots DEF SnapshotInv, RoomTypeOK
<1>6. ASSUME NEW j \in RoomIds, room'[j] = "live"
      PROVE  /\ snapshots'[j] # Missing
             /\ snapshots'[j].value = metadata'[j]
             /\ due'[j] <= now' + Lifetime
             /\ now' <= due'[j] + Lateness
             /\ due'[j] + Lateness <= snapshots'[j].expires
  <2>1. CASE j = i
    <3>1. snapshots'[j] = e /\ due'[j] = now + Lifetime /\ metadata'[j] = EmptyMeta
      BY <2>1, <1>3, PurgeKeepsSnapshots DEF SnapshotInv, RoomTypeOK
    <3> QED
      BY <3>1, <1>1, <1>2, <1>3, TimesAssumption
  <2>2. CASE j # i
    <3>1. /\ room[j] = "live"
          /\ snapshots'[j] = snapshots[j]
          /\ due'[j] = due[j]
          /\ metadata'[j] = metadata[j]
      BY <2>2, <1>3, <1>6, PurgeKeepsSnapshots DEF SnapshotInv, RoomTypeOK
    <3> QED
      BY <3>1, <1>3 DEF SnapshotInv
  <2> QED
    BY <2>1, <2>2
<1> QED
  BY <1>5, <1>6 DEF SnapshotInv

(* Metadata is written with a new term, which can only be later.           *)
LEMMA MetadataKeepsInv ==
  ASSUME SnapshotInv, NEW i \in RoomIds, NEW meta \in Metas, SetRoomMetadata(i, meta)
  PROVE  SnapshotInv'
<1> DEFINE e == Entry(meta, FALSE)
<1>1. now \in Nat
  BY DEF SnapshotInv, RoomTypeOK
<1>2. e \in Snapshot /\ e.value = meta /\ e.expires = now + TTL /\ e # Missing
  BY <1>1, EntryIsSnapshot
<1>3. /\ snapshots' = [snapshots EXCEPT ![i] = e]
      /\ metadata' = [metadata EXCEPT ![i] = meta]
      /\ UNCHANGED <<now, room, due>>
  BY DEF SetRoomMetadata
<1> HIDE DEF e
<1>4. RoomTypeOK'
  BY <1>2, <1>3 DEF SnapshotInv, RoomTypeOK
<1>5. ASSUME NEW j \in RoomIds, room'[j] = "live"
      PROVE  /\ snapshots'[j] # Missing
             /\ snapshots'[j].value = metadata'[j]
             /\ due'[j] <= now' + Lifetime
             /\ now' <= due'[j] + Lateness
             /\ due'[j] + Lateness <= snapshots'[j].expires
  <2>1. CASE j = i
    <3>1. snapshots'[j] = e /\ metadata'[j] = meta /\ room[j] = "live" /\ due'[j] = due[j]
      BY <2>1, <1>3, <1>5 DEF SnapshotInv, RoomTypeOK
    <3>2. due[j] \in Nat /\ due[j] <= now + Lifetime
      BY <3>1 DEF SnapshotInv, RoomTypeOK
    <3> QED
      BY <3>1, <3>2, <1>1, <1>2, <1>3, TimesAssumption DEF SnapshotInv
  <2>2. CASE j # i
    BY <2>2, <1>3, <1>5 DEF SnapshotInv, RoomTypeOK
  <2> QED
    BY <2>1, <2>2
<1> QED
  BY <1>4, <1>5 DEF SnapshotInv

(* The other steps of rooms and of the clock.                              *)
LEMMA OtherStepsKeepInv ==
  ASSUME SnapshotInv,
         (\E i \in RoomIds : Dispose(i)) \/ GetListOfRooms \/ Tick \/ ValueStep \/ UNCHANGED vars
  PROVE  SnapshotInv'
<1>1. ASSUME NEW i \in RoomIds, Dispose(i) PROVE SnapshotInv'
  BY <1>1 DEF Dispose, SnapshotInv, RoomTypeOK
<1>2. CASE GetListOfRooms
  <2>1. snapshots' = Purged /\ UNCHANGED <<now, room, due, metadata>>
    BY <1>2 DEF GetListOfRooms
  <2> QED
    BY <2>1, PurgeKeepsSnapshots DEF SnapshotInv, RoomTypeOK
<1>3. CASE Tick
  <2>1. now' = now + 1 /\ UNCHANGED <<snapshots, room, due, metadata>>
    BY <1>3 DEF Tick, roomVars
  <2>2. \A i \in RoomIds : room[i] = "live" => now < due[i] + Lateness
    BY <1>3 DEF Tick
  <2>3. RoomTypeOK'
    BY <2>1 DEF SnapshotInv, RoomTypeOK
  <2>4. ASSUME NEW i \in RoomIds, room'[i] = "live"
        PROVE  due'[i] <= now' + Lifetime /\ now' <= due'[i] + Lateness
    <3>1. now \in Nat /\ due[i] \in Nat /\ due[i] <= now + Lifetime /\ now < due[i] + Lateness
      BY <2>1, <2>2, <2>4 DEF SnapshotInv, RoomTypeOK
    <3> QED
      BY <2>1, <3>1, TimesAssumption
  <2> QED
    BY <2>1, <2>3, <2>4 DEF SnapshotInv
<1>4. CASE ValueStep \/ UNCHANGED vars
  <2>1. UNCHANGED <<now, roomVars>>
    BY <1>4 DEF ValueStep, SetReads, SetWrites, SetAllValues, vars
  <2> QED
    BY <2>1 DEF SnapshotInv, RoomTypeOK, roomVars
<1> QED
  BY <1>1, <1>2, <1>3, <1>4

(* The invariant is inductive.                                             *)
LEMMA SnapshotInvInductive ==
  /\ Init => SnapshotInv
  /\ SnapshotInv /\ [Next]_vars => SnapshotInv'
<1>1. Init => SnapshotInv
  BY ValuesAssumption DEF Init, SnapshotInv, RoomTypeOK
<1>2. SnapshotInv /\ [Next]_vars => SnapshotInv'
  BY CreateKeepsInv, MetadataKeepsInv, OtherStepsKeepInv DEF Next, RoomStep
<1> QED
  BY <1>1, <1>2

(* While a room lives its snapshot is found and holds its metadata, for    *)
(* any times with Lifetime + Lateness <= TTL: the timer of Room::initialize*)
(* comes before the expiry of MemoryStorage::set.                          *)
THEOREM SnapshotsOutliveRooms == Spec => []SnapshotOutlivesRoom
<1>1. SnapshotInv => SnapshotOutlivesRoom
  BY InvGivesSnapshots
<1> QED
  BY <1>1, SnapshotInvInductive, PTL DEF Spec

(* create_new_room never picks the id of a room that lives.                *)
THEOREM LiveRoomsAreNotReplaced == Spec => LiveRoomIsNotReplaced
<1> DEFINE A == \A i \in RoomIds : room[i] = "live" => room'[i] = "none" \/ due'[i] = due[i]
<1>1. SnapshotInv /\ [Next]_vars => A
  <2> SUFFICES ASSUME SnapshotInv, [Next]_vars, NEW i \in RoomIds, room[i] = "live"
               PROVE  room'[i] = "none" \/ due'[i] = due[i]
    OBVIOUS
  <2>1. ASSUME NEW j \in RoomIds, NEW state \in {"live", "undying"}, CreateNewRoom(j, state)
        PROVE  due'[i] = due[i]
    <3>1. i \notin UnusedIds
      BY InvGivesSnapshots DEF UnusedIds, FetchKeys, SnapshotOutlivesRoom
    <3>2. j # i
      BY <2>1, <3>1 DEF CreateNewRoom
    <3> QED
      BY <2>1, <3>2 DEF CreateNewRoom, SnapshotInv, RoomTypeOK
  <2>2. ASSUME ~(\E j \in RoomIds : CreateNewRoom(j, "live") \/ CreateNewRoom(j, "undying"))
        PROVE  UNCHANGED due
    BY <2>2 DEF Next, RoomStep, SetRoomMetadata, Dispose, GetListOfRooms, Tick, roomVars,
                ValueStep, SetReads, SetWrites, SetAllValues, vars
  <2> QED
    BY <2>1, <2>2
<1>2. SnapshotInv /\ [Next]_vars => [A]_vars
  BY <1>1
<1> QED
  BY <1>2, SnapshotInvInductive, PTL DEF Spec, LiveRoomIsNotReplaced

-------------------------------------------------------------------------------
(***************************************************************************)
(* Game values.  Without an overlap at most one call of GameValues::set is *)
(* inside, and what it has read is still what is stored.                   *)
(***************************************************************************)
ValueTypes ==
  /\ gameValues \in [value : Values, expires : {Never}] \cup {Missing}
  /\ draft \in [Callers -> Values]
  /\ todo \in [Callers -> (Keys \X Vals) \cup {<<>>}]
  /\ latest \in Values
  /\ overlap \in BOOLEAN

ValueInv ==
  /\ ValueTypes
  /\ \A c, d \in Inside \cap Locked : c = d
  /\ ~overlap => /\ GetAll = latest
                 /\ \A c, d \in Inside : c = d
                 /\ \A c \in Inside : draft[c] = latest

(* The entry of the game values does not expire.                           *)
LEMMA ValuesDoNotExpire ==
  ASSUME ValueTypes
  PROVE  Get(gameValues) = gameValues /\ PurgedValues = gameValues
BY DEF ValueTypes, Get, Expired, PurgedValues

(* GetAll depends on the entry only.                                       *)
LEMMA SameEntry ==
  ASSUME ValueTypes, ValueTypes', gameValues' = gameValues
  PROVE  GetAll' = GetAll
<1>1. Get(gameValues) = gameValues /\ (Get(gameValues))' = gameValues'
  BY DEF ValueTypes, Get, Expired
<1> QED
  BY <1>1 DEF GetAll, NoValues

(* A call reads.                                                           *)
LEMMA ReadKeepsInv ==
  ASSUME ValueInv, NEW c \in Callers, NEW k \in Keys, NEW v \in Vals, SetReads(c, k, v)
  PROVE  ValueInv'
<1>1. GetAll \in Values
  BY ValuesAssumption, ValuesDoNotExpire DEF GetAll, NoValues, Values, ValueInv, ValueTypes
<1>2. ValueTypes'
  BY <1>1 DEF ValueInv, ValueTypes, SetReads
<1>3. Inside' = Inside \cup {c} /\ c \notin Inside
  BY DEF SetReads, Inside, ValueInv, ValueTypes
<1>4. \A x, y \in Inside' \cap Locked : x = y
  BY <1>3 DEF SetReads, MayEnter, ValueInv
<1>5. GetAll' = GetAll
  BY <1>2, SameEntry DEF ValueInv, SetReads
<1>6. ASSUME ~overlap' PROVE Inside = {} /\ ~overlap
  <2>1. ~overlap /\ (Inside = {} \/ Inside \cup {c} \subseteq Locked)
    BY <1>6 DEF SetReads, ValueInv, ValueTypes
  <2> QED
    BY <2>1, <1>3, <1>4
<1>7. draft'[c] = GetAll /\ latest' = latest
  BY DEF SetReads, ValueInv, ValueTypes
<1> QED
  BY <1>2, <1>3, <1>4, <1>5, <1>6, <1>7 DEF ValueInv

(* A call writes what it has read, with its one change.                    *)
LEMMA WriteKeepsInv ==
  ASSUME ValueInv, NEW c \in Callers, SetWrites(c)
  PROVE  ValueInv'
<1> DEFINE k == todo[c][1]
           v == todo[c][2]
           new == [draft[c] EXCEPT ![k] = v]
<1>1. k \in Keys /\ v \in Vals
  BY DEF SetWrites, Inside, ValueInv, ValueTypes
<1>2. new \in Values
  BY <1>1 DEF Values, ValueInv, ValueTypes
<1>3. /\ gameValues' = [value |-> new, expires |-> Never]
      /\ latest' = [latest EXCEPT ![k] = v]
      /\ todo' = [todo EXCEPT ![c] = <<>>]
      /\ draft' = [draft EXCEPT ![c] = NoValues]
      /\ overlap' = overlap
  BY DEF SetWrites, SetAll, Entry, ExpiresAt
<1>4. c \in Inside
  BY DEF SetWrites
<1> HIDE DEF k, v, new
<1>5. NoValues \in Values
  BY ValuesAssumption DEF NoValues, Values
<1>6. ValueTypes'
  BY <1>1, <1>2, <1>3, <1>5 DEF ValueInv, ValueTypes, Values
<1>7. Inside' = Inside \ {c}
  BY <1>3 DEF Inside, ValueInv, ValueTypes
<1>8. GetAll' = new
  <2>1. (Get(gameValues))' = gameValues'
    BY <1>6 DEF ValueTypes, Get, Expired
  <2>2. gameValues' # Missing
    BY <1>2, <1>3, ValuesAssumption DEF Values
  <2> QED
    BY <2>1, <2>2, <1>3 DEF GetAll
<1>9. ASSUME ~overlap PROVE Inside' = {} /\ new = latest'
  BY <1>3, <1>4, <1>7, <1>9 DEF ValueInv, new
<1> QED
  BY <1>3, <1>6, <1>7, <1>8, <1>9 DEF ValueInv

(* reset() and the admin's set_all replace everything.                     *)
LEMMA SetAllKeepsInv ==
  ASSUME ValueInv, NEW values \in Values, SetAllValues(values)
  PROVE  ValueInv'
<1>1. /\ gameValues' = [value |-> values, expires |-> Never]
      /\ latest' = values
      /\ UNCHANGED <<draft, todo>>
      /\ overlap' = (overlap \/ Inside # {})
  BY DEF SetAllValues, SetAll, Entry, ExpiresAt
<1>2. ValueTypes'
  BY <1>1 DEF ValueInv, ValueTypes
<1>3. Inside' = Inside
  BY <1>1 DEF Inside
<1>4. GetAll' = values
  <2>1. (Get(gameValues))' = gameValues'
    BY <1>2 DEF ValueTypes, Get, Expired
  <2>2. gameValues' # Missing
    BY <1>1, ValuesAssumption DEF Values
  <2> QED
    BY <2>1, <2>2, <1>1 DEF GetAll
<1> QED
  BY <1>1, <1>2, <1>3, <1>4 DEF ValueInv

(* Nothing else touches the game values: purging leaves what never expires.*)
LEMMA RoomStepKeepsInv ==
  ASSUME ValueInv, RoomStep \/ UNCHANGED vars
  PROVE  ValueInv'
<1>1. UNCHANGED valueVars
  BY ValuesDoNotExpire
     DEF ValueInv, RoomStep, CreateNewRoom, SetRoomMetadata, Dispose, GetListOfRooms, Tick, valueVars, vars
<1>2. ValueTypes' /\ Inside' = Inside
  BY <1>1 DEF ValueInv, ValueTypes, Inside, valueVars
<1>3. GetAll' = GetAll
  BY <1>1, <1>2, SameEntry DEF ValueInv, valueVars
<1> QED
  BY <1>1, <1>2, <1>3 DEF ValueInv, valueVars

(* A game value that is set stays set, however many calls under the game   *)
(* lock there are and however late their steps: GameValues::set is safe    *)
(* where calls without the lock do not overlap others.                     *)
THEOREM UpdatesAreNotLost == Spec => []NoUpdateIsLost
<1>1. Init => ValueInv
  <2> SUFFICES ASSUME Init PROVE ValueInv
    OBVIOUS
  <2>1. ValueTypes /\ Inside = {}
    BY ValuesAssumption DEF Init, ValueTypes, Values, NoValues, Inside
  <2>2. GetAll = latest
    BY DEF Init, GetAll, Get, Expired
  <2> QED
    BY <2>1, <2>2 DEF ValueInv
<1>2. ValueInv /\ [Next]_vars => ValueInv'
  BY ReadKeepsInv, WriteKeepsInv, SetAllKeepsInv, RoomStepKeepsInv DEF Next, ValueStep
<1>3. ValueInv => NoUpdateIsLost
  BY DEF ValueInv, NoUpdateIsLost
<1> QED
  BY <1>1, <1>2, <1>3, PTL DEF Spec
===============================================================================
