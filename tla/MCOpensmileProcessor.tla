------------------------ MODULE MCOpensmileProcessor ------------------------
(***************************************************************************)
(* An instance of OpensmileProcessor for TLC; the configuration gives all  *)
(* the constants their values.                                             *)
(***************************************************************************)
EXTENDS OpensmileProcessor
=============================================================================
