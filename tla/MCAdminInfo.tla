------------------------------ MODULE MCAdminInfo ------------------------------
(***************************************************************************)
(* An instance of AdminInfo: three requests for two rooms, so that one     *)
(* question may cross two that wait.                                       *)
(***************************************************************************)
EXTENDS AdminInfo
=============================================================================
