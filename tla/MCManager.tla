------------------------------ MODULE MCManager ------------------------------
(***************************************************************************)
(* Instances of Manager for TLC.                                           *)
(***************************************************************************)
EXTENDS Manager, TLC

CONSTANTS ana, bob

Once == {<<ana>>}
OnceOrTwice == {<<ana>>, <<ana, ana>>}
Pair == {<<ana, bob>>}

Symmetry == Permutations(Trials)
=============================================================================
