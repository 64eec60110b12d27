------------------------------ MODULE MCKeepAlive ------------------------------
(***************************************************************************)
(* An instance of KeepAlive with the times of the code, in seconds, and    *)
(* frames that are under way for up to a second.                           *)
(***************************************************************************)
EXTENDS KeepAlive
=============================================================================
