------------------------------ MODULE MCScheduler ------------------------------
(***************************************************************************)
(* An instance of Scheduler: three timers, delays that tie and that        *)
(* overtake, and time for all of them.                                     *)
(***************************************************************************)
EXTENDS Scheduler

MCDelays == {0, 2}
===============================================================================
