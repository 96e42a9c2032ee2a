-------------------------- MODULE MCServerConnections --------------------------
(***************************************************************************)
(* An instance of ServerConnections for TLC: a server with places for the  *)
(* Manager and one of two sessions.                                        *)
(***************************************************************************)
EXTENDS ServerConnections

File(words, newline) == [open |-> TRUE, words |-> words, newline |-> newline]

\* Two pairs and a name that is its own column, as the file of the program has,
\* with and without an end of line; half a pair; nothing; no file.
MCFiles ==
    {File(<<"F0", "f0", "zcr", "zcr", "mfcc(1)", "mfcc_1">>, n) : n \in BOOLEAN}
    \cup {File(<<"F0", "f0", "zcr">>, TRUE), File(<<>>, TRUE),
          [open |-> FALSE, words |-> <<>>, newline |-> FALSE]}
=============================================================================
