------------------------------ MODULE MCHandshake ------------------------------
(***************************************************************************)
(* An instance of Handshake: heads that fill the limit to its last byte,   *)
(* bodies and frames that can be split, and values with every kind of      *)
(* scalar for the packets.                                                 *)
(***************************************************************************)
EXTENDS Handshake

MCNumbers == {-1, 200}
=============================================================================
