------------------------------- MODULE Manager -------------------------------
(***************************************************************************)
(* The trial life cycle: the Manager's listener thread                     *)
(* (src/src/Manager.cpp) turns "start" and "stop" messages into openSMILE  *)
(* session processes (the fork and the destructor of                       *)
(* src/src/OpensmileSession.cpp), which write rows to the features table   *)
(* while ClearTrial deletes the rows of the trial that starts.             *)
(*                                                                         *)
(* A session whose smile_run returns is a stray: the thread that runs it   *)
(* is a copy of the Manager's listener thread, which goes on where it was  *)
(* forked, in the loop of InitializeParticipants, and then in loop, on     *)
(* copies of the Manager's sockets.                                        *)
(*                                                                         *)
(* A session process is known by its pid, a number given in the order of   *)
(* the forks.  The Manager never waits for a child, so that no pid is ever *)
(* given twice.  0 stands for the Manager where a process is meant, and    *)
(* for the pid -1 of a fork that failed in a vector of sessions.           *)
(***************************************************************************)
EXTENDS Naturals, Sequences, FiniteSets

CONSTANTS Trials,
          Participants,
          Rosters,          \* the vectors of names client_info may give
          MaxMessages,      \* bound: the trial messages sent
          MaxProcs,         \* the process table: the pids fork can give
          SmileMayReturn,   \* whether smile_run may return (it does on errors)
          ClearMayFail      \* whether the DELETE may fail (nobody checks)

ASSUME ManagerAssumption == /\ Rosters \subseteq Seq(Participants)
                            /\ MaxMessages \in Nat
                            /\ MaxProcs \in Nat
                            /\ SmileMayReturn \in BOOLEAN
                            /\ ClearMayFail \in BOOLEAN

VARIABLES
    inbox,      \* the trial messages on the Manager's connection
    listener,   \* the listener thread of the Manager, and its copy in each session
    procs,      \* procs[p]: the session process with pid p
    killed,     \* the sessions a SIGTERM was sent to
    \* The database.
    inserting,  \* the rows whose INSERT is on its way
    rows,       \* the rows in the features table
    \* History.
    sent,       \* the number of messages sent
    starts,     \* the starts the Manager has handled since its last stop
    named,      \* how often these starts named each participant
    returned,   \* the sessions whose smile_run has returned
    cleared     \* what the last DELETE of each trial met

database == <<inserting, rows>>
history == <<sent, starts, named, returned, cleared>>
vars == <<inbox, listener, procs, killed, database, history>>

Manager == 0
ForkFailed == 0

Pids == 1..Len(procs)
States == {"starting", "running", "stray", "dead"}
Alive(p) == procs[p].state # "dead"
Live == {p \in Pids : Alive(p)}
Strays == {p \in Pids : procs[p].state = "stray"}

\* The processes that run the code of the Manager.
Handlers == {Manager} \cup Strays

Start == [kind : {"start"}, trial : Trials, players : Rosters]
Stop == [kind : {"stop"}]

\* Where a thread is in on_message, with the variables of the calls it is in, and
\* the vector participant_sessions of its process.  The vector is the set of its
\* pids, up to the first session that is the process's own or an ancestor's.
Idle(t, sessions) ==
    [pc |-> "idle", trial |-> t, players |-> <<>>, i |-> 1, sessions |-> sessions]

Init ==
    /\ inbox = <<>>
    /\ \E t \in Trials : listener = [h \in {Manager} |-> Idle(t, {})]
    /\ procs = <<>> /\ killed = {}
    /\ inserting = {} /\ rows = {}
    /\ sent = 0 /\ starts = 0 /\ returned = {}
    /\ named = [q \in Participants |-> 0]
    /\ cleared = [t \in Trials |-> [upTo |-> 0, racing |-> {}]]

-----------------------------------------------------------------------------
(* The topic "trial", and the two branches of on_message *)

\* Testbed software outside this program starts and stops trials as it likes.
Send(m) ==
    /\ sent < MaxMessages
    /\ inbox' = Append(inbox, m)
    /\ sent' = sent + 1
    /\ UNCHANGED <<listener, procs, killed, database, starts, named, returned, cleared>>

\* A message goes to one of the processes that read from the connection.
Receive(h, kind) ==
    /\ h \in Handlers /\ listener[h].pc = "idle"
    /\ inbox # <<>> /\ Head(inbox).kind = kind
    /\ inbox' = Tail(inbox)

\* Two processes that read the packets of one message in turns lose it: the one
\* that stored it never gets its PUBREL.
Lose ==
    /\ Strays # {} /\ inbox # <<>>
    /\ inbox' = Tail(inbox)
    /\ UNCHANGED <<listener, procs, killed, database, history>>

Mentions(players, q) == {j \in 1..Len(players) : players[j] = q}

OnStart(h) ==
    /\ Receive(h, "start")
    /\ listener' = [listener EXCEPT ![h] = [pc       |-> "clear",
                                            trial    |-> Head(inbox).trial,
                                            players  |-> Head(inbox).players,
                                            i        |-> 1,
                                            sessions |-> @.sessions]]
    /\ IF h = Manager
       THEN /\ starts' = starts + 1
            /\ named' = [q \in Participants |->
                            named[q] + Cardinality(Mentions(Head(inbox).players, q))]
       ELSE UNCHANGED <<starts, named>>
    /\ UNCHANGED <<procs, killed, database, sent, returned, cleared>>

\* The old sessions of the trial that the DELETE races with.
Inserting(p) == \E r \in inserting : r.session = p
Racing(t) == {p \in Pids : procs[p].trial = t /\ (Alive(p) \/ Inserting(p))}

\* For the mutants: a DELETE that deletes nothing.
RowsAll(t) == rows

\* WHERE trial_id = $1: rows without ids stay.
RowsKept(t) == {r \in rows : r.tagged => procs[r.session].trial # t}

\* DBWrapper::ClearTrial returns when the server has answered, whatever the
\* answer is.  Strays send their statements over copies of the same connection.
ClearTrial(h) ==
    LET t == listener[h].trial IN
    /\ h \in Handlers /\ listener[h].pc = "clear"
    /\ listener' = [listener EXCEPT ![h].pc = "fork"]
    /\ \/ /\ rows' = RowsKept(t)
          /\ cleared' = [cleared EXCEPT ![t] = [upTo |-> Len(procs), racing |-> Racing(t)]]
       \/ /\ ClearMayFail \/ Strays # {}
          /\ UNCHANGED <<rows, cleared>>
    /\ UNCHANGED <<inbox, procs, killed, inserting, sent, starts, named, returned>>

Child(parent, t, q) ==
    [trial |-> t, participant |-> q, parent |-> parent, tagged |-> FALSE,
     state |-> "starting"]

\* For the mutants: the vector keeps only the latest session.
PushOver(h, l, pid) == IF h = Manager THEN [l EXCEPT !.sessions = {pid}] ELSE l

\* What a stray pushes comes behind its own session in the vector.
PushBack(h, l, pid) == IF h = Manager THEN [l EXCEPT !.sessions = @ \cup {pid}] ELSE l

\* One round of the loop: the constructor of OpensmileSession forks.  The child has
\* a copy of the loop, which it is in until smile_run returns.
InitializeParticipant(h) ==
    LET l == [listener[h] EXCEPT !.i = @ + 1]
        q == listener[h].players[listener[h].i]
        pid == Len(procs) + 1
    IN
    /\ h \in Handlers /\ listener[h].pc = "fork"
    /\ listener[h].i <= Len(listener[h].players)
    /\ \/ /\ Len(procs) < MaxProcs
          /\ procs' = Append(procs, Child(h, l.trial, q))
          /\ listener' = [k \in 0..pid |-> IF k = pid THEN l
                                           ELSE IF k = h THEN PushBack(h, l, pid)
                                           ELSE listener[k]]
       \/ /\ listener' = [listener EXCEPT ![h] = PushBack(h, l, ForkFailed)]
          /\ UNCHANGED procs
    /\ UNCHANGED <<inbox, killed, database, history>>

\* on_message returns, and loop goes on.
InitializeParticipantsDone(h) ==
    /\ h \in Handlers /\ listener[h].pc = "fork"
    /\ listener[h].i > Len(listener[h].players)
    /\ listener' = [listener EXCEPT ![h] = Idle(@.trial, @.sessions)]
    /\ UNCHANGED <<inbox, procs, killed, database, history>>

\* For the mutants: the pid of a failed fork passes for a process; the vector is
\* erased while it is walked, which skips every other session.
SignalledUnchecked(h) == listener[h].sessions
SignalledSkipping(h) ==
    {p \in listener[h].sessions \cap Live : p - 1 \notin listener[h].sessions}

\* kill(pid, SIGTERM) in the destructor of every session; with the pid -1 it
\* signals every process there is but the sender and the Manager, which is the
\* first process of its container.
Signalled(h) == IF ForkFailed \in listener[h].sessions
                THEN Live \ {h} ELSE listener[h].sessions \cap Live

\* ClearParticipants in the Manager, whatever trial the message is about.
OnStop ==
    /\ Receive(Manager, "stop")
    /\ killed' = killed \cup Signalled(Manager)
    /\ listener' = [listener EXCEPT ![Manager].sessions = {}]
    /\ starts' = 0
    /\ named' = [q \in Participants |-> 0]
    /\ UNCHANGED <<procs, database, sent, returned, cleared>>

-----------------------------------------------------------------------------
(* A session process *)

Become(p, state) == procs' = [procs EXCEPT ![p].state = state]

\* Connected, subscribed, processor built: smile_run is running.
Run(p) ==
    /\ procs[p].state = "starting"
    /\ Become(p, "running")
    /\ UNCHANGED <<inbox, listener, killed, database, history>>

\* PublishChunk sends an INSERT and waits for the server.  The ids come into the
\* object after its first time.
SendInsert(p) ==
    /\ procs[p].state = "running" /\ ~Inserting(p)
    /\ inserting' = inserting \cup {[session |-> p, tagged |-> procs[p].tagged]}
    /\ procs' = [procs EXCEPT ![p].tagged = TRUE]
    /\ UNCHANGED <<inbox, listener, killed, rows, history>>

\* The server takes what it received, or refuses it, whether or not the session
\* still lives.
CommitInsert(r) ==
    /\ r \in inserting
    /\ inserting' = inserting \ {r}
    /\ rows' \in {rows, rows \cup {r}}
    /\ UNCHANGED <<inbox, listener, procs, killed, history>>

\* The SIGTERM arrives.
Terminate(p) ==
    /\ p \in killed /\ Alive(p)
    /\ Become(p, "dead")
    /\ UNCHANGED <<inbox, listener, killed, database, history>>

\* An uncaught exception in the session ends its process.
Crash(p) ==
    /\ Alive(p)
    /\ Become(p, "dead")
    /\ UNCHANGED <<inbox, listener, killed, database, history>>

\* smile_run returns, and the constructor with it.
SmileReturns(p) ==
    /\ SmileMayReturn /\ procs[p].state \in {"starting", "running"}
    /\ ~Inserting(p)
    /\ Become(p, "stray")
    /\ returned' = returned \cup {p}
    /\ UNCHANGED <<inbox, listener, killed, database, sent, starts, named, cleared>>

\* ClearParticipants in a stray: it signals the sessions forked before it, and ends
\* when it destroys its own, whose listener_thread can be joined (std::terminate).
StrayStops(p) ==
    /\ p \in Strays /\ Receive(p, "stop")
    /\ killed' = killed \cup Signalled(p)
    /\ Become(p, "dead")
    /\ UNCHANGED <<listener, database, history>>

OnMessage(h) == \/ OnStart(h) \/ ClearTrial(h)
                \/ InitializeParticipant(h) \/ InitializeParticipantsDone(h)
Listener == OnMessage(Manager) \/ OnStop

Next ==
    \/ \E m \in Start \cup Stop : Send(m)
    \/ Lose
    \/ \E h \in Handlers : \/ OnStart(h) \/ ClearTrial(h)
                           \/ InitializeParticipant(h) \/ InitializeParticipantsDone(h)
    \/ OnStop
    \/ \E p \in Pids : \/ Run(p) \/ SendInsert(p) \/ Terminate(p) \/ Crash(p)
                       \/ SmileReturns(p) \/ StrayStops(p)
    \/ \E r \in inserting : CommitInsert(r)

Spec == Init /\ [][Next]_vars

\* The Manager's listener thread handles every message that is left to it (the
\* server answers every DELETE) and the kernel delivers every signal.
FairSpec == /\ Spec
            /\ WF_vars(Listener)
            /\ \A p \in 1..MaxProcs : WF_vars(p \in Pids /\ Terminate(p))

-----------------------------------------------------------------------------
(* Properties *)

Process == [trial : Trials, participant : Participants, parent : 0..MaxProcs,
            tagged : BOOLEAN, state : States]
Thread == [pc : {"idle", "clear", "fork"}, trial : Trials, players : Seq(Participants),
           i : Nat \ {0}, sessions : SUBSET (0..MaxProcs)]
Row == [session : 1..MaxProcs, tagged : BOOLEAN]

\* The threads are at points of on_message, the pids are those of processes.
TypeOK ==
    /\ inbox \in Seq(Start \cup Stop)
    /\ listener \in [{Manager} \cup Pids -> Thread]
    /\ procs \in Seq(Process)
    /\ Len(procs) <= MaxProcs
    /\ killed \subseteq Pids /\ returned \subseteq Pids
    /\ inserting \subseteq Row /\ rows \subseteq Row
    /\ \A r \in inserting \cup rows : r.session \in Pids
    /\ sent \in 0..MaxMessages /\ starts \in Nat /\ named \in [Participants -> Nat]
    /\ cleared \in [Trials -> [upTo : 0..MaxProcs, racing : SUBSET (1..MaxProcs)]]

\* The Manager keeps track of every session it forked until it has told it to
\* stop.  (A session forked by a stray is another matter.)
OwnSessionsTracked ==
    \A p \in Live :
        p \in listener[Manager].sessions \/ p \in killed \/ procs[p].parent # Manager

\* "Recieved trial stop message, shutting down Opensmile sessions": between
\* trials, every session there is has been told to stop.
StopReachesAll == listener[Manager].sessions = {} => Live \subseteq killed

\* The Manager's sessions that have not been told to end.
Own == {p \in Live \ killed : procs[p].parent = Manager}
OwnOf(q) == {p \in Own : procs[p].participant = q}

\* A participant's audio goes to no more sessions of the Manager than the starts
\* since the last stop have named the participant: once, for a trial that is
\* started once by a message that names everybody once.  Sessions of the trials
\* before are about to end.
OneSessionPerName == \A q \in Participants : Cardinality(OwnOf(q)) <= named[q]

\* A row with ids that an earlier session of a trial left behind when the trial
\* starts again comes from a session that the DELETE raced with: one that still
\* lived, or whose last INSERT was still on its way.  (The first row of a session
\* has no ids, and no DELETE ever finds it.)
StaleRowsRaced ==
    \A r \in rows : r.tagged =>
        LET c == cleared[procs[r.session].trial]
        IN  r.session > c.upTo \/ r.session \in c.racing

\* "Ready for next trial", and then "Clear trial in database": after a stop, a
\* trial that starts again finds none of its rows of earlier sessions in the table.
StartsClean ==
    starts <= 1 =>
        \A r \in rows : r.tagged => r.session > cleared[procs[r.session].trial].upTo

\* A stop on the connection ends every session in the vector, as long as no stray
\* has come between, which may take the stop for itself or hold up the Manager's
\* statements for good.
StopQueued == \E i \in 1..Len(inbox) : inbox[i].kind = "stop"
StopEndsSessions ==
    \A p \in 1..MaxProcs :
        StopQueued /\ p \in listener[Manager].sessions
            ~> (p \in Pids /\ ~Alive(p)) \/ returned # {}

\* The Manager implements TrialSessions: a current session is one of its own that
\* lives and has not been sent a SIGTERM.
Service == INSTANCE TrialSessions
               WITH trial   <- listener[Manager].trial,
                    opened  <- [p \in Pids |-> [trial       |-> procs[p].trial,
                                               participant |-> procs[p].participant]],
                    current <- Own,
                    writers <- Live \cup {r.session : r \in inserting},
                    strays  <- Strays,
                    table   <- rows
ImplementsService == Service!Spec
=============================================================================
