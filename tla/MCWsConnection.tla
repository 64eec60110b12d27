----------------------------- MODULE MCWsConnection -----------------------------
(* The instances of WsConnection that TLC checks.                          *)
EXTENDS WsConnection, TLC

(* Senders differ in nothing (only for the run without liveness).          *)
Symmetry == Permutations(Senders)

===============================================================================
