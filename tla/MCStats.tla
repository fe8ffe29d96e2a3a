------------------------------ MODULE MCStats ------------------------------
(***************************************************************************)
(* Small instances of Stats, with the constants of MCEventGo.              *)
(***************************************************************************)
EXTENDS Stats, MCEventGo
=============================================================================
