--------------------------- MODULE ConnectionPool ---------------------------
(***************************************************************************)
(* What a DBWrapper promises to its callers, with no mutex, no stack and   *)
(* no condition variable: a fixed set of database connections, each either *)
(* idle or lent to exactly one caller.  DBWrapper.tla implements it.       *)
(***************************************************************************)
CONSTANTS Threads,      \* the callers
          Connections,  \* the connections opened by the constructor
          NoConn        \* what a caller that borrows nothing holds

VARIABLES idle,         \* the connections nobody holds
          held          \* held[t]: the connection lent to t, or NoConn

Init == /\ idle = Connections
        /\ held = [t \in Threads |-> NoConn]

\* GetConnection returns some idle connection to a caller that holds none.
Acquire(t) ==
    /\ held[t] = NoConn
    /\ \E c \in idle : /\ idle' = idle \ {c}
                       /\ held' = [held EXCEPT ![t] = c]

\* FreeConnection takes the borrowed connection back.
Release(t) ==
    /\ held[t] # NoConn
    /\ idle' = idle \cup {held[t]}
    /\ held' = [held EXCEPT ![t] = NoConn]

Next == \E t \in Threads : Acquire(t) \/ Release(t)

Spec == Init /\ [][Next]_<<idle, held>>
=============================================================================
