--------------------------- MODULE ServerConnections ---------------------------
(***************************************************************************)
(* How the processes of the program come by their connections to           *)
(* PostgreSQL: the constructor of DBWrapper (src/src/DBWrapper.cpp) in the *)
(* Manager and in every session it forks, each of which reads the column   *)
(* map and opens a pool of connections, against a server that accepts a    *)
(* limited number of them and may restart.                                 *)
(*                                                                         *)
(* Nobody looks at whether a connection was accepted, and nobody opens one *)
(* again.  A process that has one caller uses the connection it opened     *)
(* last and no other (ReusesNewest of DBWrapper).                          *)
(***************************************************************************)
EXTENDS Integers, Sequences, FiniteSets

CONSTANTS Manager,          \* the Manager's process
          Sessions,         \* pids for session processes
          ManagerPool,      \* the connections of the Manager: 30 and 1
          PoolSize,         \* the connections of a session: 100
          MaxConnections,   \* max_connections of the server: 500
          Files,            \* what conf/column_map.txt may be
          MaxStatements,    \* bound: statements of a process
          MaxOutages        \* bound: restarts of the server

ASSUME ConnectionsAssumption ==
    /\ Manager \notin Sessions /\ IsFiniteSet(Sessions)
    /\ ManagerPool \in Nat \ {0} /\ PoolSize \in Nat \ {0}
    /\ MaxConnections \in Nat /\ MaxStatements \in Nat /\ MaxOutages \in Nat
    /\ Files \subseteq [open : BOOLEAN, words : Seq(STRING), newline : BOOLEAN]

Processes == {Manager} \cup Sessions

VARIABLES
    \* The processes.
    pc,             \* where each is in its life
    inherited,      \* the processes whose sockets it got copies of when it was forked
    columnMap,      \* its column_map
    opened,         \* how many connections it has pushed to its pool
    \* The server.
    file,           \* conf/column_map.txt
    up,             \* whether the server runs
    backends,       \* the connections it serves: <<p, i>> is the i-th one of p
    refused,        \* the connections it has refused
    outages,
    \* What became of the statements of each process.
    succeeded, failed,
    \* History: the most sessions at a time that had or were opening connections.
    peak

life == <<pc, inherited>>
server == <<up, backends, refused, outages>>
statements == <<succeeded, failed>>
vars == <<life, columnMap, opened, file, server, statements, peak>>

-----------------------------------------------------------------------------
(* The column map *)

\* A file is whether it can be opened, its words, and whether anything, such as
\* the end of a line, follows the last word.
Words(f) == Len(f.words)

\* eof is seen only by an extraction that reaches the end: after an even number
\* of words with the end of a line behind them the body runs once more.
Rounds(f) == (Words(f) + 1) \div 2 +
             (IF Words(f) % 2 = 0 /\ (f.newline \/ Words(f) = 0) THEN 1 ELSE 0)

\* An extraction that finds no word leaves its string as it is.
LastUpTo(f, i, last) ==
    LET n == IF i <= last THEN i ELSE last
    IN  IF n >= 1 THEN f.words[n] ELSE ""
opensmile_format(f, round) ==
    LET n == Words(f)
    IN  LastUpTo(f, 2 * round - 1, IF n % 2 = 0 THEN n - 1 ELSE n)
postgres_format(f, round) ==
    LET n == Words(f)
    IN  LastUpTo(f, 2 * round, IF n % 2 = 0 THEN n ELSE n - 1)

\* A slip, for the mutants: the way back is left out.
OneWay(m, a, b) == [k \in DOMAIN m \cup {a} |-> IF k = a THEN b ELSE m[k]]

\* column_map[a] = b; column_map[b] = a
BothWays(m, a, b) ==
    [k \in DOMAIN m \cup {a, b} |-> IF k = b THEN a ELSE IF k = a THEN b ELSE m[k]]

MapOf(f) ==
    LET after[i \in 0..Rounds(f)] ==
            IF i = 0 THEN <<>>
            ELSE BothWays(after[i - 1], opensmile_format(f, i), postgres_format(f, i))
    IN  after[Rounds(f)]

\* column_map[in], for names that are there and for others.
format_to_db_string(m, in) == IF in \in DOMAIN m THEN m[in] ELSE ""

NoMap == <<>>

-----------------------------------------------------------------------------

Pool(p) == IF p = Manager THEN ManagerPool ELSE PoolSize

Alive(p) == pc[p] \notin {"absent", "dead"}

Init ==
    /\ pc = [p \in Processes |-> IF p = Manager THEN "map" ELSE "absent"]
    /\ inherited = [p \in Processes |-> {}]
    /\ columnMap = [p \in Processes |-> NoMap]
    /\ opened = [p \in Processes |-> 0]
    /\ file \in Files
    /\ up = TRUE /\ backends = {} /\ refused = {} /\ outages = 0
    /\ succeeded = [p \in Processes |-> 0] /\ failed = [p \in Processes |-> 0]
    /\ peak = 0

-----------------------------------------------------------------------------
(* DBWrapper::DBWrapper *)

\* The sessions that have, or will ask for, a place in the server.
Users == {s \in Sessions : pc[s] = "open" \/ \E i \in 1..PoolSize : <<s, i>> \in backends}

Higher(m, n) == IF m > n THEN m ELSE n

\* If the file can not be opened, the end of it is never reached.
InitializeColumnMap(p) ==
    /\ pc[p] = "map" /\ file.open
    /\ columnMap' = [columnMap EXCEPT ![p] = MapOf(file)]
    /\ pc' = [pc EXCEPT ![p] = "open"]
    /\ peak' = Higher(peak, Cardinality(Users \cup ({p} \cap Sessions)))
    /\ UNCHANGED <<inherited, opened, file, server, statements>>

\* For the mutants: one connection too many.
MoreThan(p) == opened[p] <= Pool(p)
More(p) == opened[p] < Pool(p)

Accepts == up /\ Cardinality(backends) < MaxConnections

\* For the mutants: the connection is tried until it is accepted.
PushedOnlyIf(ok) == ok
Pushed(ok) == TRUE

\* One round of the loop of InitializeConnections.
Open(p) ==
    /\ pc[p] = "open" /\ More(p)
    /\ Pushed(Accepts)
    /\ opened' = [opened EXCEPT ![p] = @ + 1]
    /\ \/ /\ Accepts
          /\ backends' = backends \cup {<<p, opened[p] + 1>>}
          /\ refused' = refused
       \/ /\ ~Accepts
          /\ refused' = refused \cup {<<p, opened[p] + 1>>}
          /\ backends' = backends
    /\ UNCHANGED <<life, columnMap, file, up, outages, statements, peak>>

Constructed(p) ==
    /\ pc[p] = "open" /\ ~More(p)
    /\ pc' = [pc EXCEPT ![p] = "ready"]
    /\ UNCHANGED <<inherited, columnMap, opened, file, server, statements, peak>>

Start(p) == InitializeColumnMap(p) \/ Open(p) \/ Constructed(p)

-----------------------------------------------------------------------------
(* The life of a process *)

\* The Manager forks sessions, and so does a session whose smile_run returned:
\* the child has copies of all sockets its parent has.
Fork(p, s) ==
    /\ pc[s] = "absent"
    /\ pc[p] = IF p = Manager THEN "ready" ELSE "returned"
    /\ pc' = [pc EXCEPT ![s] = "map"]
    /\ inherited' = [inherited EXCEPT ![s] = inherited[p] \cup {p}]
    /\ UNCHANGED <<columnMap, opened, file, server, statements, peak>>

\* For the mutants: a pool that is a queue.
UsedInTurn(p) == <<p, 1 + ((succeeded[p] + failed[p]) % opened[p])>>
Used(p) == <<p, opened[p]>>

\* An INSERT of a session, or a DELETE of the Manager.
Statement(p) ==
    /\ pc[p] = "ready" /\ succeeded[p] + failed[p] < MaxStatements
    /\ \/ /\ Used(p) \in backends
          /\ succeeded' = [succeeded EXCEPT ![p] = @ + 1]
          /\ failed' = failed
       \/ /\ Used(p) \notin backends
          /\ failed' = [failed EXCEPT ![p] = @ + 1]
          /\ succeeded' = succeeded
    /\ UNCHANGED <<life, columnMap, opened, file, server, peak>>

SmileReturns(s) ==
    /\ pc[s] = "ready"
    /\ pc' = [pc EXCEPT ![s] = "returned"]
    /\ UNCHANGED <<inherited, columnMap, opened, file, server, statements, peak>>

\* SIGTERM, or a crash; nothing is closed in order.
Die(s) ==
    /\ Alive(s)
    /\ pc' = [pc EXCEPT ![s] = "dead"]
    /\ UNCHANGED <<inherited, columnMap, opened, file, server, statements, peak>>

-----------------------------------------------------------------------------
(* The server *)

\* It ends a backend when it finds the connection closed: no process is left that
\* has the socket.
Held(c) == \E q \in Processes : Alive(q) /\ c[1] \in inherited[q] \cup {q}

Release(c) ==
    /\ up /\ c \in backends /\ ~Held(c)
    /\ backends' = backends \ {c}
    /\ UNCHANGED <<life, columnMap, opened, file, up, refused, outages, statements, peak>>

GoDown ==
    /\ up /\ outages < MaxOutages
    /\ up' = FALSE /\ backends' = {} /\ outages' = outages + 1
    /\ UNCHANGED <<life, columnMap, opened, file, refused, statements, peak>>

\* restart: always
ComeUp ==
    /\ ~up /\ up' = TRUE
    /\ UNCHANGED <<life, columnMap, opened, file, backends, refused, outages,
                   statements, peak>>

Next ==
    \/ \E p \in Processes : Start(p) \/ Statement(p)
    \/ \E p \in Processes, s \in Sessions : Fork(p, s)
    \/ \E s \in Sessions : SmileReturns(s) \/ Die(s)
    \/ \E c \in backends : Release(c)
    \/ GoDown \/ ComeUp

Spec == Init /\ [][Next]_vars

\* A process goes on with its constructor; connecting takes finite time, since the
\* server answers, if only with a refusal.
FairSpec == Spec /\ \A p \in Processes : WF_vars(Start(p))

-----------------------------------------------------------------------------
(* Properties *)

\* The connections the Manager and the sessions of a set can have.
Places(sessions) == ({Manager} \X (1..ManagerPool)) \cup (sessions \X (1..PoolSize))

\* Every process is at a known point, and the server serves no more than it may.
TypeOK ==
    /\ pc \in [Processes -> {"absent", "map", "open", "ready", "returned", "dead"}]
    /\ inherited \in [Processes -> SUBSET Processes]
    /\ opened \in [Processes -> Nat] /\ \A p \in Processes : opened[p] <= Pool(p)
    /\ up \in BOOLEAN /\ outages \in 0..MaxOutages
    /\ backends \subseteq Places(Sessions)
    /\ refused \subseteq Places(Sessions)
    /\ Cardinality(backends) <= MaxConnections
    /\ succeeded \in [Processes -> Nat] /\ failed \in [Processes -> Nat]
    /\ peak \in 0..Cardinality(Sessions)

\* A file as it should be: pairs of words, each word in one pair.
WellFormed(f) ==
    /\ f.open /\ Words(f) > 0 /\ Words(f) % 2 = 0
    /\ \A i, j \in 1..Words(f) :
           f.words[i] = f.words[j] => (i + 1) \div 2 = (j + 1) \div 2

\* Whatever the end of the file is like, the column a field is stored in is the
\* one the file names, and what is read from that column is given to that field.
MapsBack ==
    WellFormed(file) =>
        \A p \in Processes : pc[p] \in {"open", "ready"} =>
            \A i \in 1..(Words(file) \div 2) :
                LET field == file.words[2 * i - 1]
                    column == file.words[2 * i]
                IN  /\ format_to_db_string(columnMap[p], field) = column
                    /\ format_to_db_string(columnMap[p], column) = field

\* A statement fails only if the server has been restarted, or there have been more
\* sessions at a time, those that have ended but have not been noticed and those
\* whose sockets somebody inherited among them, than the server has places for.
FailsForCause ==
    (\E p \in Processes : failed[p] > 0) =>
        outages > 0 \/ ManagerPool + PoolSize * peak > MaxConnections

\* A process one of whose statements failed never completes one again, although
\* other connections of its pool may work and the server may be back.
FailsForGood ==
    [][\A p \in Processes : failed[p] > 0 => succeeded'[p] = succeeded[p]]_vars

\* Every process that is started is done with its constructor in the end, however
\* many connections are refused, unless it ends or there is no file.
StartsUp ==
    \A p \in Processes :
        pc[p] = "map" ~> pc[p] \in {"ready", "returned", "dead"} \/ ~file.open
=============================================================================
