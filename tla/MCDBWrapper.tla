----------------------------- MODULE MCDBWrapper -----------------------------
(***************************************************************************)
(* An instance of DBWrapper for TLC.                                       *)
(***************************************************************************)
EXTENDS DBWrapper
=============================================================================
