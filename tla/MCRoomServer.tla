----------------------------- MODULE MCRoomServer -----------------------------
(***************************************************************************)
(* Instances of RoomServer: sessions a1 and a2 belong to one client (a     *)
(* player who comes back, or has two tabs), b1 to another.                 *)
(***************************************************************************)
EXTENDS RoomServer, TLC

CONSTANTS a1, a2, b1, alice, bob

MCIdOf == [s \in Sessions |-> IF s = b1 THEN bob ELSE alice]

(* Room objects, waits, room ids and the two sessions of one client are    *)
(* interchangeable: nothing in Next or in a property compares them with a  *)
(* constant, and IdOf is the same for both sessions.                       *)
Symmetry ==
  Permutations(Rooms) \cup Permutations(Waits) \cup Permutations(RoomIds)
  \cup Permutations({a1, a2})
===============================================================================
