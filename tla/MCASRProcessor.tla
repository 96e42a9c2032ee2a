--------------------------- MODULE MCASRProcessor ---------------------------
(***************************************************************************)
(* Instances of ASRProcessor for TLC: words that follow each other.        *)
(***************************************************************************)
EXTENDS ASRProcessor

MCWindowOf == [w \in 1..Words |-> [from |-> w, to |-> w]]
=============================================================================
