----------------------------- MODULE MCMosquitto -----------------------------
(***************************************************************************)
(* Instances of Mosquitto for TLC; its constants are numbers and flags, so *)
(* that the configurations need no definitions.                            *)
(***************************************************************************)
EXTENDS Mosquitto
=============================================================================
