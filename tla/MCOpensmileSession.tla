-------------------------- MODULE MCOpensmileSession --------------------------
(***************************************************************************)
(* An instance of OpensmileSession for TLC: chunks of 0, 1, 2, 3, 10 and   *)
(* 15 samples, which are all the cases there are modulo three and twelve.  *)
(***************************************************************************)
EXTENDS OpensmileSession

\* No two bytes in a row alike, and no chunk the beginning of another.
Chunk(samples, first) == [i \in 1..(4 * samples) |-> (first + 37 * i) % 256]

MCAudio == {Chunk(0, 0), Chunk(1, 1), Chunk(1, 90), Chunk(2, 2), Chunk(3, 3),
            Chunk(10, 10), Chunk(15, 15)}
=============================================================================
