--------------------------- MODULE MCServerLifecycle ---------------------------
(***************************************************************************)
(* An instance of ServerLifecycle: three connections, so that one may be   *)
(* served, one be in its TLS handshake and one be waiting for accept.      *)
(***************************************************************************)
EXTENDS ServerLifecycle
=============================================================================
