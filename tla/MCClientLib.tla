------------------------------ MODULE MCClientLib ------------------------------
(* The instance of ClientLib that TLC checks.                              *)
EXTENDS ClientLib, TLC

===============================================================================
