----------------------------- MODULE RoomService -------------------------------
(***************************************************************************)
(* What the room server promises its clients, without timers, pub/sub or   *)
(* objects: the rooms that are open, who is in each of them, and who may   *)
(* close one.  Sessions enter open rooms only; they leave one room at a    *)
(* time, which moves nobody else; and every closing has its cause:         *)
(*   - the application, the timer or a shutdown closes a room with         *)
(*     everyone in it, but never in the middle of a session's leaving;     *)
(*   - a session that leaves closes the room that it has left empty, or is *)
(*     suspended in it and decides that when it goes on.                   *)
(* A lasting room is one that nothing closes.  It is open for a time only, *)
(* and who is in it when its id is opened again is in no room then.        *)
(***************************************************************************)
CONSTANTS Sessions, RoomIds,
  Nobody   \* no session

VARIABLES
  open,       \* ids of the rooms that can be entered
  lasting,    \* ids of the rooms that nothing closes
  occupants,  \* who is in the room of each id
  leaver,     \* the session that is leaving its rooms, or Nobody
  suspended   \* <<s, i>>: the thread of s waits in room i for a client to come back

vars == <<open, lasting, occupants, leaver, suspended>>

Init ==
  /\ open = {} /\ lasting = {}
  /\ occupants = [i \in RoomIds |-> {}]
  /\ leaver = Nobody /\ suspended = {}

(* The rooms I close with everyone in them.                                *)
CloseAll(I) ==
  /\ open' = open \ I
  /\ occupants' = [i \in RoomIds |-> IF i \in I THEN {} ELSE occupants[i]]
  /\ suspended' = {p \in suspended : p[2] \notin I}
  /\ UNCHANGED lasting

Open(i) ==
  /\ leaver = Nobody /\ i \notin open
  /\ open' = open \cup {i}
  /\ lasting' \in {lasting \ {i}, lasting \cup {i}}
  /\ occupants' = [occupants EXCEPT ![i] = {}]
  /\ suspended' = {p \in suspended : p[2] # i}
  /\ UNCHANGED leaver

Expire(i) ==
  /\ i \in open \cap lasting
  /\ open' = open \ {i}
  /\ UNCHANGED <<lasting, occupants, leaver, suspended>>

Enter(s, i) ==
  /\ leaver = Nobody /\ i \in open /\ s \notin occupants[i]
  /\ occupants' = [occupants EXCEPT ![i] = @ \cup {s}]
  /\ UNCHANGED <<open, lasting, leaver, suspended>>

(* Session c loses a place in room i, on the thread of s: by s leaving, or *)
(* by a hook that s called and that turns c out, as it enters perhaps.     *)
(* The room closes if that leaves it empty, unless s is suspended in it.   *)
Leave(s, c, i) ==
  /\ leaver = Nobody \/ (leaver = s /\ c = s)
  /\ \E rest \in {occupants[i], occupants[i] \ {c}} :
       \/ /\ rest # {} \/ i \in lasting
          /\ occupants' = [occupants EXCEPT ![i] = rest]
          /\ UNCHANGED <<open, lasting, leaver, suspended>>
       \/ /\ rest = {} /\ i \notin lasting
          /\ CloseAll({i})
          /\ UNCHANGED leaver
       \/ /\ i \notin lasting
          /\ occupants' = [occupants EXCEPT ![i] = rest]
          /\ leaver' = Nobody
          /\ suspended' = suspended \cup {<<s, i>>}
          /\ UNCHANGED <<open, lasting>>

StartLeaving(s) ==
  /\ leaver = Nobody /\ leaver' = s
  /\ UNCHANGED <<open, lasting, occupants, suspended>>

(* A suspended session goes on: it closes the room that it waited in if    *)
(* nobody is in it.                                                        *)
GoOn(s, i) ==
  /\ leaver = Nobody /\ leaver' = s
  /\ <<s, i>> \in suspended
  /\ \/ /\ occupants[i] = {} /\ i \notin lasting
        /\ CloseAll({i})
     \/ /\ occupants[i] # {} \/ i \in lasting
        /\ suspended' = suspended \ {<<s, i>>}
        /\ UNCHANGED <<open, lasting, occupants>>

StopLeaving ==
  /\ leaver # Nobody /\ leaver' = Nobody
  /\ UNCHANGED <<open, lasting, occupants, suspended>>

(* A hook, the timer or the shutdown.                                      *)
Close(i) ==
  /\ leaver = Nobody /\ i \in open \ lasting
  /\ CloseAll({i})
  /\ UNCHANGED leaver

Shutdown ==
  /\ leaver = Nobody
  /\ CloseAll(open \ lasting)
  /\ UNCHANGED leaver

Next ==
  \/ \E i \in RoomIds : Open(i) \/ Expire(i) \/ Close(i)
  \/ \E s \in Sessions : StartLeaving(s)
  \/ \E s \in Sessions, i \in RoomIds : Enter(s, i) \/ GoOn(s, i)
  \/ \E s, c \in Sessions, i \in RoomIds : Leave(s, c, i)
  \/ StopLeaving \/ Shutdown

Spec == Init /\ [][Next]_vars
===============================================================================
