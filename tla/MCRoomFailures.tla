----------------------------- MODULE MCRoomFailures -----------------------------
(***************************************************************************)
(* An instance of RoomFailures: three clients, so that an on_leave hook    *)
(* may throw after one was removed and before another is.                  *)
(***************************************************************************)
EXTENDS RoomFailures
=============================================================================
