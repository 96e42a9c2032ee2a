---------------------------- MODULE ManagerProofs ----------------------------
(***************************************************************************)
(* Proofs about the trial life cycle, for any trials, participants and     *)
(* vectors of names, any number of messages and any size of the process    *)
(* table, whether or not smile_run may return and DELETEs may fail.        *)
(***************************************************************************)
EXTENDS Manager, FiniteSetTheorems, SequenceTheorems, TLAPS

\* The processes that have rows on their way, or may still come to have.
Writes(p) == Alive(p) \/ Inserting(p)

\* The last DELETE of a process's trial came before it or raced with it.
Met(p) == LET c == cleared[procs[p].trial] IN p > c.upTo \/ p \in c.racing

\* StaleRowsRaced, strengthened to the sessions that may still write.
WritersRaced ==
    /\ \A p \in Pids : Writes(p) => Met(p)
    /\ \A r \in rows : r.tagged => Met(r.session)

\* A DELETE looks back at the processes there were.
ClearedPast == \A t \in Trials : cleared[t].upTo <= Len(procs)

\* The mentions of a participant the loop of InitializeParticipants has yet to
\* come to.
Pending(q) ==
    LET l == listener[Manager] IN {j \in l.i..Len(l.players) : l.players[j] = q}

\* OneSessionPerName, strengthened to what the loop needs, and to its end.
PendingNamed ==
    \A q \in Participants : Cardinality(OwnOf(q)) + Cardinality(Pending(q)) <= named[q]
IdleDone == listener[Manager].pc = "idle" => listener[Manager].players = <<>>

Tracked == OwnSessionsTracked /\ PendingNamed /\ IdleDone
Raced == WritersRaced /\ ClearedPast
ManagerInv == TypeOK /\ Tracked /\ Raced

-----------------------------------------------------------------------------
(* The process table and the threads *)

LEMMA ProcsType ==
    ASSUME TypeOK
    PROVE  /\ Len(procs) \in Nat
           /\ \A p \in Pids : procs[p] \in Process
           /\ Pids \subseteq 1..MaxProcs
           /\ MaxProcs \in Nat
  BY LenProperties, ElementOfSeq, ManagerAssumption DEF TypeOK, Pids, ManagerAssumption

LEMMA ThreadsType ==
    ASSUME TypeOK
    PROVE  /\ listener \in [{Manager} \cup Pids -> Thread]
           /\ Handlers \subseteq {Manager} \cup Pids
           /\ Manager \notin Pids
           /\ \A h \in Handlers : listener[h] \in Thread
  BY DEF TypeOK, Handlers, Strays, Manager, Pids

LEMMA BecomeFacts ==
    ASSUME TypeOK, NEW p \in Pids, NEW s \in States, Become(p, s)
    PROVE  /\ procs' \in Seq(Process)
           /\ Len(procs') = Len(procs) /\ Pids' = Pids
           /\ procs'[p].state = s
           /\ \A r \in Pids : /\ procs'[r].trial = procs[r].trial
                              /\ procs'[r].participant = procs[r].participant
                              /\ procs'[r].parent = procs[r].parent
                              /\ r # p => procs'[r] = procs[r]
  <1>1. procs' = [procs EXCEPT ![p] = [procs[p] EXCEPT !.state = s]]
    BY DEF Become
  <1>2. procs[p] \in Process
    BY ProcsType
  <1>3. /\ [procs[p] EXCEPT !.state = s] \in Process
        /\ [procs[p] EXCEPT !.state = s].state = s
        /\ [procs[p] EXCEPT !.state = s].trial = procs[p].trial
        /\ [procs[p] EXCEPT !.state = s].participant = procs[p].participant
        /\ [procs[p] EXCEPT !.state = s].parent = procs[p].parent
    BY <1>2 DEF Process
  <1>4. procs \in Seq(Process) /\ p \in 1..Len(procs)
    BY DEF TypeOK, Pids
  <1>5. /\ procs' \in Seq(Process) /\ Len(procs') = Len(procs)
        /\ \A r \in 1..Len(procs) :
               procs'[r] = IF r = p THEN [procs[p] EXCEPT !.state = s] ELSE procs[r]
    BY <1>1, <1>3, <1>4, ExceptSeq
  <1> QED
    BY <1>3, <1>4, <1>5 DEF Pids

\* The first INSERT of a session leaves its object with the ids.
LEMMA TaggedFacts ==
    ASSUME TypeOK, NEW p \in Pids, procs' = [procs EXCEPT ![p].tagged = TRUE]
    PROVE  /\ procs' \in Seq(Process)
           /\ Len(procs') = Len(procs) /\ Pids' = Pids
           /\ \A r \in Pids : /\ procs'[r].trial = procs[r].trial
                              /\ procs'[r].participant = procs[r].participant
                              /\ procs'[r].parent = procs[r].parent
                              /\ procs'[r].state = procs[r].state
  <1> DEFINE e == [procs[p] EXCEPT !.tagged = TRUE]
             table == [procs EXCEPT ![p] = e]
  <1>1. procs' = table
    OBVIOUS
  <1>2. procs[p] \in Process
    BY ProcsType
  <1>3. /\ e \in Process /\ e.trial = procs[p].trial /\ e.state = procs[p].state
        /\ e.participant = procs[p].participant /\ e.parent = procs[p].parent
    BY <1>2 DEF Process
  <1>4. procs \in Seq(Process) /\ p \in 1..Len(procs)
    BY DEF TypeOK, Pids
  <1> HIDE DEF e
  <1>5. /\ table \in Seq(Process) /\ Len(table) = Len(procs)
        /\ \A r \in 1..Len(procs) : table[r] = IF r = p THEN e ELSE procs[r]
    BY <1>3, <1>4, ExceptSeq
  <1> HIDE DEF table
  <1> QED
    BY <1>1, <1>3, <1>5 DEF Pids

LEMMA AppendFacts ==
    ASSUME TypeOK, Len(procs) < MaxProcs, NEW c \in Process,
           procs' = Append(procs, c)
    PROVE  /\ procs' \in Seq(Process)
           /\ Len(procs') = Len(procs) + 1 /\ Len(procs') <= MaxProcs
           /\ Len(procs') \notin Pids
           /\ Pids' = Pids \cup {Len(procs')}
           /\ procs'[Len(procs')] = c
           /\ \A r \in Pids : procs'[r] = procs[r]
  <1>1. procs \in Seq(Process) /\ Len(procs) \in Nat /\ MaxProcs \in Nat
    BY ProcsType DEF TypeOK
  <1>2. /\ procs' \in Seq(Process) /\ Len(procs') = Len(procs) + 1
        /\ \A r \in 1..Len(procs) : procs'[r] = procs[r]
        /\ procs'[Len(procs) + 1] = c
    BY <1>1, AppendProperties
  <1> QED
    BY <1>1, <1>2 DEF Pids

LEMMA InboxFacts ==
    ASSUME TypeOK, inbox # <<>>
    PROVE  /\ Head(inbox) \in Start \cup Stop
           /\ Tail(inbox) \in Seq(Start \cup Stop)
           /\ Head(inbox).kind = "start" => /\ Head(inbox).trial \in Trials
                                            /\ Head(inbox).players \in Seq(Participants)
  <1>1. Head(inbox) \in Start \cup Stop /\ Tail(inbox) \in Seq(Start \cup Stop)
    BY HeadTailProperties DEF TypeOK
  <1> QED
    BY <1>1, ManagerAssumption DEF Start, Stop, ManagerAssumption

\* A step of one thread.
LEMMA ThreadFacts ==
    ASSUME TypeOK, NEW h \in Handlers, NEW l \in Thread,
           listener' = [listener EXCEPT ![h] = l]
    PROVE  /\ listener' \in [{Manager} \cup Pids -> Thread]
           /\ listener'[h] = l
           /\ h # Manager => listener'[Manager] = listener[Manager]
  BY ThreadsType

-----------------------------------------------------------------------------
(* What keeps the two parts of the invariant *)

LEMMA OwnFacts ==
    /\ OwnSessionsTracked <=> Own \subseteq listener[Manager].sessions
    /\ Own \subseteq Pids
  BY DEF OwnSessionsTracked, Own, Live

LEMMA OwnOfFinite ==
    ASSUME TypeOK, NEW q
    PROVE  IsFiniteSet(OwnOf(q)) /\ Cardinality(OwnOf(q)) \in Nat
  <1>1. OwnOf(q) \subseteq 1..Len(procs) /\ Len(procs) \in Nat
    BY OwnFacts, ProcsType DEF OwnOf, Pids
  <1>2. IsFiniteSet(1..Len(procs))
    BY <1>1, FS_Interval
  <1>3. IsFiniteSet(OwnOf(q))
    BY <1>1, <1>2, FS_Subset
  <1> QED
    BY <1>3, FS_CardinalityType

LEMMA PendingFinite ==
    ASSUME TypeOK, NEW q
    PROVE  IsFiniteSet(Pending(q)) /\ Cardinality(Pending(q)) \in Nat
  <1> DEFINE l == listener[Manager]
  <1>1. l.i \in Nat /\ l.players \in Seq(Participants)
    BY ThreadsType DEF Thread, Handlers
  <1>2. Len(l.players) \in Nat
    BY <1>1, LenProperties
  <1>3. Pending(q) \subseteq l.i..Len(l.players)
    BY DEF Pending
  <1> HIDE DEF l
  <1>4. IsFiniteSet(l.i..Len(l.players))
    BY <1>1, <1>2, FS_Interval
  <1>5. IsFiniteSet(Pending(q))
    BY <1>3, <1>4, FS_Subset
  <1> QED
    BY <1>5, FS_CardinalityType

\* The Manager's sessions become fewer, if anything, and its loop does not move.
LEMMA TrackedKept ==
    ASSUME TypeOK, Tracked, Own' \subseteq Own,
           \A p \in Own : procs'[p].participant = procs[p].participant,
           listener'[Manager].sessions = listener[Manager].sessions,
           listener'[Manager].players = listener[Manager].players,
           listener'[Manager].i = listener[Manager].i,
           IdleDone', named' = named
    PROVE  Tracked'
  <1>1. OwnSessionsTracked'
    <2>1. Own \subseteq listener[Manager].sessions
      BY OwnFacts DEF Tracked
    <2>2. (OwnSessionsTracked <=> Own \subseteq listener[Manager].sessions)'
      BY DEF OwnSessionsTracked, Own, Live
    <2> QED
      BY <2>1, <2>2
  <1>2. ASSUME NEW q \in Participants
        PROVE  (Cardinality(OwnOf(q)) + Cardinality(Pending(q)) <= named[q])'
    <2>1. OwnOf(q)' \subseteq OwnOf(q)
      BY DEF OwnOf
    <2>2. Cardinality(OwnOf(q)') <= Cardinality(OwnOf(q)) /\ Cardinality(OwnOf(q)') \in Nat
      BY <2>1, OwnOfFinite, FS_Subset, FS_CardinalityType
    <2>3. Pending(q)' = Pending(q)
      BY DEF Pending
    <2>4. Cardinality(OwnOf(q)) + Cardinality(Pending(q)) <= named[q] /\ named[q] \in Nat
      BY DEF Tracked, PendingNamed, TypeOK
    <2>5. Cardinality(OwnOf(q)') + Cardinality(Pending(q)) <= named[q]
      BY <2>2, <2>4, OwnOfFinite, PendingFinite
    <2> QED
      BY <2>3, <2>5
  <1> QED
    BY <1>1, <1>2 DEF Tracked, PendingNamed

\* The processes there were come to no new INSERTs; the rows come from INSERTs.
LEMMA RacedKept ==
    ASSUME TypeOK, TypeOK', Raced, cleared' = cleared, Len(procs) <= Len(procs'),
           \A p \in Pids : procs'[p].trial = procs[p].trial,
           \A p \in Pids : Writes(p)' => Writes(p),
           \A r \in rows' : r.tagged =>
                r \in rows \/ (r.session \in Pids /\ Writes(r.session))
    PROVE  Raced'
  <1>1. /\ Len(procs) \in Nat /\ Len(procs') \in Nat
        /\ \A p \in Pids : procs[p].trial \in Trials
        /\ \A p \in Pids' : procs'[p].trial \in Trials
    <2>1. (Len(procs) \in Nat /\ \A p \in Pids : procs[p] \in Process)'
      BY ProcsType, PTL
    <2> QED
      BY <2>1, ProcsType DEF Process
  <1>2. \A t \in Trials : cleared[t].upTo <= Len(procs) /\ cleared[t].upTo \in Nat
    BY DEF Raced, ClearedPast, TypeOK
  <1>3. ClearedPast'
    BY <1>1, <1>2 DEF ClearedPast
  <1>4. \A p \in Pids : Met(p)' <=> Met(p)
    BY DEF Met
  <1>5. \A p \in Pids' : p \in Pids \/ Met(p)'
    BY <1>1, <1>2 DEF Met, Pids
  <1>6. \A r \in rows : r.session \in Pids
    BY DEF TypeOK
  <1>7. ASSUME NEW p \in Pids', Writes(p)'
        PROVE  Met(p)'
    <2>1. CASE p \in Pids
      BY <1>4, <1>7, <2>1 DEF Raced, WritersRaced
    <2> QED
      BY <1>5, <2>1
  <1>8. ASSUME NEW r \in rows', r.tagged
        PROVE  Met(r.session)'
    <2>1. r.session \in Pids /\ Met(r.session)
      BY <1>6, <1>8 DEF Raced, WritersRaced
    <2> QED
      BY <1>4, <2>1
  <1>9. (\A p \in Pids : Writes(p) => Met(p))'
    BY <1>7
  <1>10. (\A r \in rows : r.tagged => Met(r.session))'
    BY <1>8
  <1> QED
    BY <1>3, <1>9, <1>10 DEF Raced, WritersRaced

LEMMA RacedSame ==
    ASSUME Raced, UNCHANGED <<procs, inserting, rows, cleared>> PROVE Raced'
  BY DEF Raced, WritersRaced, ClearedPast, Met, Writes, Inserting, Alive, Pids

\* A step that none of this sees.
LEMMA QuietStep ==
    ASSUME ManagerInv, TypeOK', listener'[Manager] = listener[Manager],
           UNCHANGED <<procs, killed, database, named, cleared>>
    PROVE  ManagerInv'
  <1>1. Own' = Own
    BY DEF Own, Live, Pids, Alive
  <1>2. Tracked'
    <2>1. IdleDone'
      BY DEF ManagerInv, Tracked, IdleDone
    <2> QED
      BY <1>1, <2>1, TrackedKept DEF ManagerInv
  <1>3. Raced'
    BY RacedSame DEF ManagerInv, database
  <1> QED
    BY <1>2, <1>3 DEF ManagerInv

-----------------------------------------------------------------------------
(* The steps of on_message *)

LEMMA InitManagerInv == Init => ManagerInv
  <1> SUFFICES ASSUME Init PROVE ManagerInv
    OBVIOUS
  <1>1. /\ procs = <<>> /\ inbox = <<>> /\ Len(procs) = 0 /\ Pids = {} /\ Live = {}
        /\ <<>> \in Seq(Process) /\ <<>> \in Seq(Start \cup Stop)
        /\ <<>> \in Seq(Participants)
    BY EmptySeq DEF Init, Pids, Live
  <1>2. PICK t \in Trials : listener = [h \in {Manager} |-> Idle(t, {})]
    BY DEF Init
  <1>3. Idle(t, {}) \in Thread
    BY <1>1, ManagerAssumption DEF Idle, Thread, ManagerAssumption
  <1>4. listener \in [{Manager} \cup Pids -> Thread]
    BY <1>1, <1>2, <1>3
  <1>5. cleared \in [Trials -> [upTo : 0..MaxProcs, racing : SUBSET (1..MaxProcs)]]
    BY ManagerAssumption DEF Init, ManagerAssumption
  <1>6. TypeOK
    BY <1>1, <1>4, <1>5, ManagerAssumption DEF Init, TypeOK, ManagerAssumption
  <1>7. /\ listener[Manager].players = <<>> /\ listener[Manager].i = 1
        /\ Len(<<>>) = 0 /\ Own = {}
    BY <1>1, <1>2 DEF Idle, Own
  <1>8. OwnSessionsTracked /\ IdleDone
    BY <1>1, <1>7 DEF OwnSessionsTracked, IdleDone
  <1>9. \A q \in Participants : OwnOf(q) = {} /\ Pending(q) = {} /\ named[q] = 0
    BY <1>7 DEF OwnOf, Pending, Init
  <1>10. PendingNamed
    BY <1>9, FS_EmptySet DEF PendingNamed
  <1>11. WritersRaced /\ ClearedPast
    BY <1>1 DEF WritersRaced, ClearedPast, Init
  <1> QED
    BY <1>6, <1>8, <1>10, <1>11 DEF ManagerInv, Tracked, Raced

LEMMA SendInv == ASSUME ManagerInv, NEW m \in Start \cup Stop, Send(m) PROVE ManagerInv'
  <1>1. inbox' \in Seq(Start \cup Stop)
    BY AppendProperties DEF ManagerInv, TypeOK, Send
  <1>2. sent' \in 0..MaxMessages
    BY ManagerAssumption DEF ManagerInv, TypeOK, Send, ManagerAssumption
  <1>3. TypeOK'
    BY <1>1, <1>2 DEF ManagerInv, TypeOK, Send, database, Pids
  <1> QED
    BY <1>3, QuietStep DEF Send

LEMMA LoseInv == ASSUME ManagerInv, Lose PROVE ManagerInv'
  <1>1. TypeOK'
    BY InboxFacts DEF ManagerInv, TypeOK, Lose, database, history, Pids
  <1> QED
    BY <1>1, QuietStep DEF Lose, history

\* The thread of a process takes a start.
LEMMA StartFacts ==
    ASSUME TypeOK, NEW h \in Handlers, OnStart(h)
    PROVE  \E l \in Thread :
               /\ listener' = [listener EXCEPT ![h] = l]
               /\ l.pc = "clear" /\ l.trial = Head(inbox).trial /\ l.i = 1
               /\ l.players = Head(inbox).players
               /\ l.sessions = listener[h].sessions
  <1> DEFINE l == [pc |-> "clear", trial |-> Head(inbox).trial,
                   players |-> Head(inbox).players, i |-> 1,
                   sessions |-> listener[h].sessions]
  <1>1. /\ Head(inbox).trial \in Trials /\ Head(inbox).players \in Seq(Participants)
    BY InboxFacts DEF OnStart, Receive
  <1>2. listener[h] \in Thread
    BY ThreadsType
  <1>3. l \in Thread
    BY <1>1, <1>2 DEF Thread
  <1>4. listener' = [listener EXCEPT ![h] = l]
    BY DEF OnStart
  <1> QED
    BY <1>3, <1>4

LEMMA OnStartInv ==
    ASSUME ManagerInv, NEW h \in Handlers, OnStart(h) PROVE ManagerInv'
  <1>0. TypeOK /\ Tracked /\ Raced
    BY DEF ManagerInv
  <1>1. PICK l \in Thread :
            /\ listener' = [listener EXCEPT ![h] = l]
            /\ l.pc = "clear" /\ l.i = 1 /\ l.players = Head(inbox).players
            /\ l.sessions = listener[h].sessions
    BY <1>0, StartFacts
  <1>2. /\ listener' \in [{Manager} \cup Pids -> Thread] /\ listener'[h] = l
        /\ h # Manager => listener'[Manager] = listener[Manager]
    BY <1>0, <1>1, ThreadFacts
  <1>3. /\ UNCHANGED <<procs, killed, inserting, rows, sent, returned, cleared>>
        /\ Head(inbox).players \in Seq(Participants)
        /\ inbox' \in Seq(Start \cup Stop)
    BY <1>0, InboxFacts DEF OnStart, Receive, database
  <1>4. \A q : Cardinality(Mentions(Head(inbox).players, q)) \in Nat
    <2> TAKE q
    <2>1. Len(Head(inbox).players) \in Nat
      BY <1>3, LenProperties
    <2>2. IsFiniteSet(1..Len(Head(inbox).players))
      BY <2>1, FS_Interval
    <2>3. IsFiniteSet(Mentions(Head(inbox).players, q))
      BY <2>2, FS_Subset DEF Mentions
    <2> QED
      BY <2>3, FS_CardinalityType
  <1>5. starts' \in Nat /\ named' \in [Participants -> Nat]
    <2>1. CASE h = Manager
      <3>1. \A q \in Participants :
                named[q] + Cardinality(Mentions(Head(inbox).players, q)) \in Nat
        BY <1>0, <1>4 DEF TypeOK
      <3> QED
        BY <1>0, <2>1, <3>1 DEF TypeOK, OnStart
    <2>2. CASE h # Manager
      BY <1>0, <2>2 DEF TypeOK, OnStart
    <2> QED
      BY <2>1, <2>2
  <1>6. TypeOK'
    BY <1>0, <1>2, <1>3, <1>5 DEF TypeOK, Pids
  <1>7. CASE h # Manager
    BY <1>2, <1>6, <1>7, QuietStep DEF OnStart
  <1>8. CASE h = Manager
    <2>1. /\ listener'[Manager] = l
          /\ named' = [q \in Participants |->
                          named[q] + Cardinality(Mentions(Head(inbox).players, q))]
          /\ listener[Manager].pc = "idle"
      BY <1>2, <1>8 DEF OnStart, Receive
    <2>2. Own' = Own
      BY <1>3 DEF Own, Live, Pids, Alive
    <2>3. OwnSessionsTracked' /\ IdleDone'
      <3>1. IdleDone'
        BY <1>1, <2>1 DEF IdleDone
      <3>2. OwnSessionsTracked'
        BY <1>0, <1>1, <1>3, <1>8, <2>1
           DEF Tracked, OwnSessionsTracked, Live, Pids, Alive
      <3> QED
        BY <3>1, <3>2
    <2>4. ASSUME NEW q \in Participants
          PROVE  (Cardinality(OwnOf(q)) + Cardinality(Pending(q)) <= named[q])'
      <3>1. OwnOf(q)' = OwnOf(q)
        BY <1>3, <2>2 DEF OwnOf
      <3>2. Pending(q)' = Mentions(Head(inbox).players, q)
        BY <1>1, <2>1 DEF Pending, Mentions
      <3>3. Cardinality(OwnOf(q)) + Cardinality(Pending(q)) <= named[q]
        BY <1>0 DEF Tracked, PendingNamed
      <3>4. /\ Cardinality(OwnOf(q)) \in Nat /\ Cardinality(Pending(q)) \in Nat
            /\ Cardinality(Mentions(Head(inbox).players, q)) \in Nat /\ named[q] \in Nat
        BY <1>0, <1>4, OwnOfFinite, PendingFinite DEF TypeOK
      <3>5. named'[q] = named[q] + Cardinality(Mentions(Head(inbox).players, q))
        BY <2>1
      <3>6. Cardinality(OwnOf(q)) + Cardinality(Mentions(Head(inbox).players, q))
                <= named'[q]
        BY <3>3, <3>4, <3>5
      <3> QED
        BY <3>1, <3>2, <3>6
    <2>5. Raced'
      BY <1>0, <1>3, RacedSame
    <2> QED
      BY <1>6, <2>3, <2>4, <2>5 DEF ManagerInv, Tracked, PendingNamed
  <1> QED
    BY <1>7, <1>8

LEMMA ClearTrialInv ==
    ASSUME ManagerInv, NEW h \in Handlers, ClearTrial(h) PROVE ManagerInv'
  <1> DEFINE t == listener[h].trial
             l == [listener[h] EXCEPT !.pc = "fork"]
  <1>0. TypeOK /\ Tracked /\ Raced
    BY DEF ManagerInv
  <1>1. listener[h] \in Thread /\ t \in Trials
    BY <1>0, ThreadsType DEF Thread
  <1>2. /\ l \in Thread /\ l.pc = "fork" /\ l.i = listener[h].i
        /\ l.players = listener[h].players /\ l.sessions = listener[h].sessions
    BY <1>1 DEF Thread
  <1>3. listener' = [listener EXCEPT ![h] = l]
    BY DEF ClearTrial
  <1>4. /\ UNCHANGED <<inbox, procs, killed, inserting, sent, starts, named, returned>>
        /\ \/ /\ rows' = RowsKept(t)
              /\ cleared' = [cleared EXCEPT ![t] = [upTo   |-> Len(procs),
                                                    racing |-> Racing(t)]]
           \/ UNCHANGED <<rows, cleared>>
    BY DEF ClearTrial
  <1> HIDE DEF l
  <1>5. /\ listener' \in [{Manager} \cup Pids -> Thread] /\ listener'[h] = l
        /\ h # Manager => listener'[Manager] = listener[Manager]
    BY <1>0, <1>2, <1>3, ThreadFacts
  <1>6. Racing(t) \in SUBSET (1..MaxProcs) /\ Len(procs) \in 0..MaxProcs
    BY <1>0, ProcsType DEF Racing, TypeOK
  <1>7. /\ rows' \subseteq rows
        /\ cleared' \in [Trials -> [upTo : 0..MaxProcs, racing : SUBSET (1..MaxProcs)]]
    BY <1>0, <1>1, <1>4, <1>6 DEF TypeOK, RowsKept
  <1>8. TypeOK'
    BY <1>0, <1>4, <1>5, <1>7 DEF TypeOK, Pids
  <1>9. Tracked'
    <2>1. Own' = Own
      BY <1>4 DEF Own, Live, Pids, Alive
    <2>2. IdleDone'
      BY <1>0, <1>2, <1>5 DEF Tracked, IdleDone
    <2>3. /\ listener'[Manager].sessions = listener[Manager].sessions
          /\ listener'[Manager].players = listener[Manager].players
          /\ listener'[Manager].i = listener[Manager].i
      BY <1>2, <1>5
    <2> QED
      BY <1>0, <1>4, <2>1, <2>2, <2>3, TrackedKept
  <1>10. CASE UNCHANGED <<rows, cleared>>
    BY <1>0, <1>4, <1>8, <1>9, <1>10, RacedSame DEF ManagerInv
  <1>11. CASE /\ rows' = RowsKept(t)
              /\ cleared' = [cleared EXCEPT ![t] = [upTo   |-> Len(procs),
                                                    racing |-> Racing(t)]]
    <2>1. Pids' = Pids /\ \A p \in Pids : Writes(p)' <=> Writes(p)
      BY <1>4 DEF Pids, Writes, Alive, Inserting
    \* What may still write for this trial either lived or had an INSERT under way.
    <2>2. ASSUME NEW p \in Pids, procs[p].trial = t, Writes(p)
          PROVE  Met(p)'
      <3>1. p \in Racing(t)
        BY <2>2 DEF Racing, Writes
      <3>2. cleared'[t].racing = Racing(t)
        BY <1>0, <1>1, <1>11 DEF TypeOK
      <3> QED
        BY <1>4, <2>2, <3>1, <3>2 DEF Met
    <2>3. ASSUME NEW p \in Pids, procs[p].trial # t, Met(p)
          PROVE  Met(p)'
      <3>1. procs[p].trial \in Trials
        BY <1>0, ProcsType DEF Process
      <3>2. cleared'[procs[p].trial] = cleared[procs[p].trial]
        BY <1>0, <1>11, <2>3, <3>1 DEF TypeOK
      <3> QED
        BY <1>4, <2>3, <3>2 DEF Met
    <2>4. ASSUME NEW p \in Pids', Writes(p)'
          PROVE  Met(p)'
      BY <1>0, <2>1, <2>2, <2>3, <2>4 DEF Raced, WritersRaced
    \* The rows of this trial that have ids are gone.
    <2>5. ASSUME NEW r \in rows', r.tagged
          PROVE  Met(r.session)'
      <3>1. r \in rows /\ procs[r.session].trial # t
        BY <1>11, <2>5 DEF RowsKept
      <3>2. r.session \in Pids /\ Met(r.session)
        BY <1>0, <2>5, <3>1 DEF Raced, WritersRaced, TypeOK
      <3> QED
        BY <2>3, <3>1, <3>2
    <2>6. ClearedPast'
      <3>1. \A u \in Trials : cleared[u].upTo <= Len(procs)
        BY <1>0 DEF Raced, ClearedPast
      <3>2. \A u \in Trials : cleared'[u].upTo = IF u = t THEN Len(procs)
                                                 ELSE cleared[u].upTo
        BY <1>0, <1>11 DEF TypeOK
      <3> QED
        BY <1>4, <1>6, <3>1, <3>2 DEF ClearedPast
    <2>7. (\A p \in Pids : Writes(p) => Met(p))'
      BY <2>4
    <2>8. (\A r \in rows : r.tagged => Met(r.session))'
      BY <2>5
    <2> QED
      BY <1>8, <1>9, <2>6, <2>7, <2>8 DEF ManagerInv, Raced, WritersRaced
  <1> QED
    BY <1>4, <1>10, <1>11

LEMMA InitializeParticipantsDoneInv ==
    ASSUME ManagerInv, NEW h \in Handlers, InitializeParticipantsDone(h)
    PROVE  ManagerInv'
  <1> DEFINE l == Idle(listener[h].trial, listener[h].sessions)
  <1>0. TypeOK /\ Tracked /\ Raced
    BY DEF ManagerInv
  <1>1. listener[h] \in Thread
    BY <1>0, ThreadsType
  <1>2. /\ l \in Thread /\ l.pc = "idle" /\ l.i = 1 /\ l.players = <<>>
        /\ l.sessions = listener[h].sessions
    BY <1>1, EmptySeq DEF Idle, Thread
  <1>3. listener' = [listener EXCEPT ![h] = l]
    BY DEF InitializeParticipantsDone
  <1> HIDE DEF l
  <1>4. /\ listener' \in [{Manager} \cup Pids -> Thread] /\ listener'[h] = l
        /\ h # Manager => listener'[Manager] = listener[Manager]
    BY <1>0, <1>2, <1>3, ThreadFacts
  <1>5. UNCHANGED <<inbox, procs, killed, inserting, rows, sent, starts, named,
                    returned, cleared>>
    BY DEF InitializeParticipantsDone, database, history
  <1>6. TypeOK'
    BY <1>0, <1>4, <1>5 DEF TypeOK, Pids
  <1>7. CASE h # Manager
    BY <1>4, <1>5, <1>6, <1>7, QuietStep DEF database
  <1>8. CASE h = Manager
    <2>1. Own' = Own /\ OwnSessionsTracked' /\ IdleDone'
      BY <1>0, <1>2, <1>4, <1>5, <1>8
         DEF Tracked, OwnSessionsTracked, IdleDone, Own, Live, Pids, Alive
    <2>2. ASSUME NEW q \in Participants
          PROVE  (Cardinality(OwnOf(q)) + Cardinality(Pending(q)) <= named[q])'
      <3>1. OwnOf(q)' = OwnOf(q)
        BY <1>5, <2>1 DEF OwnOf
      <3>2. Pending(q)' = {}
        BY <1>2, <1>4, <1>8, EmptySeq DEF Pending
      <3>3. Cardinality(OwnOf(q)) + Cardinality(Pending(q)) <= named[q]
        BY <1>0 DEF Tracked, PendingNamed
      <3>4. /\ Cardinality(OwnOf(q)) \in Nat /\ Cardinality(Pending(q)) \in Nat
            /\ named[q] \in Nat
        BY <1>0, OwnOfFinite, PendingFinite DEF TypeOK
      <3>5. Cardinality(OwnOf(q)) + 0 <= named[q]
        BY <3>3, <3>4
      <3> QED
        BY <1>5, <3>1, <3>2, <3>5, FS_EmptySet
    <2> QED
      BY <1>0, <1>5, <1>6, <2>1, <2>2, RacedSame DEF ManagerInv, Tracked, PendingNamed
  <1> QED
    BY <1>7, <1>8

-----------------------------------------------------------------------------
(* The loop of InitializeParticipants *)

\* One round, in a thread whose vector of names is that of a start.
Advanced(h) == [listener[h] EXCEPT !.i = @ + 1]
Named(h) == listener[h].players[listener[h].i]
Pushed(h, pid) == PushBack(h, Advanced(h), pid)

Forks(h) ==
    /\ Len(procs) < MaxProcs
    /\ procs' = Append(procs, Child(h, listener[h].trial, Named(h)))
    /\ listener' = [k \in 0..(Len(procs) + 1) |->
                        IF k = Len(procs) + 1 THEN Advanced(h)
                        ELSE IF k = h THEN Pushed(h, Len(procs) + 1)
                        ELSE listener[k]]

ForkFails(h) ==
    /\ listener' = [listener EXCEPT ![h] = Pushed(h, ForkFailed)]
    /\ UNCHANGED procs

LEMMA RoundCases ==
    ASSUME TypeOK, NEW h \in Handlers, InitializeParticipant(h)
    PROVE  /\ Forks(h) \/ ForkFails(h)
           /\ listener[h].pc = "fork"
           /\ listener[h].i \in 1..Len(listener[h].players)
           /\ UNCHANGED <<inbox, killed, inserting, rows, sent, starts, named, returned,
                          cleared>>
  <1>1. listener[h] \in Thread
    BY ThreadsType
  <1>2. /\ Advanced(h).trial = listener[h].trial
        /\ listener[h].i \in Nat \ {0} /\ Len(listener[h].players) \in Nat
    BY <1>1, LenProperties DEF Advanced, Thread
  <1>3. Forks(h) \/ ForkFails(h)
    BY <1>2 DEF InitializeParticipant, Forks, ForkFails, Advanced, Pushed, Named
  <1> QED
    BY <1>2, <1>3 DEF InitializeParticipant, database, history

LEMMA RoundTypes ==
    ASSUME TypeOK, NEW h \in Handlers, NEW pid \in 0..MaxProcs,
           listener[h].i \in 1..Len(listener[h].players)
    PROVE  /\ Advanced(h) \in Thread /\ Pushed(h, pid) \in Thread
           /\ Named(h) \in Participants
           /\ Child(h, listener[h].trial, Named(h)) \in Process
           /\ \A l \in {Advanced(h), Pushed(h, pid)} :
                  /\ l.pc = listener[h].pc /\ l.players = listener[h].players
                  /\ l.i = listener[h].i + 1
           /\ Advanced(h).sessions = listener[h].sessions
           /\ Pushed(h, pid).sessions = IF h = Manager
                                        THEN listener[h].sessions \cup {pid}
                                        ELSE listener[h].sessions
  <1>1. listener[h] \in Thread /\ h \in 0..MaxProcs
    BY ThreadsType, ProcsType DEF Manager
  <1>2. Named(h) \in Participants
    BY <1>1, ElementOfSeq DEF Named, Thread
  <1>3. /\ Advanced(h) \in Thread /\ Advanced(h).pc = listener[h].pc
        /\ Advanced(h).players = listener[h].players
        /\ Advanced(h).i = listener[h].i + 1
        /\ Advanced(h).sessions = listener[h].sessions
    BY <1>1 DEF Advanced, Thread
  <1>4. CASE h = Manager
    <2>1. Pushed(h, pid) = [Advanced(h) EXCEPT !.sessions = Advanced(h).sessions \cup {pid}]
      BY <1>4 DEF Pushed, PushBack
    <2>2. /\ Pushed(h, pid) \in Thread /\ Pushed(h, pid).pc = Advanced(h).pc
          /\ Pushed(h, pid).players = Advanced(h).players
          /\ Pushed(h, pid).i = Advanced(h).i
          /\ Pushed(h, pid).sessions = Advanced(h).sessions \cup {pid}
      BY <1>3, <2>1 DEF Thread
    <2>3. Child(h, listener[h].trial, Named(h)) \in Process
      BY <1>1, <1>2 DEF Child, Process, States, Thread
    <2> QED
      BY <1>2, <1>3, <1>4, <2>2, <2>3
  <1>5. CASE h # Manager
    <2>1. Pushed(h, pid) = Advanced(h)
      BY <1>5 DEF Pushed, PushBack
    <2>2. Child(h, listener[h].trial, Named(h)) \in Process
      BY <1>1, <1>2 DEF Child, Process, States, Thread
    <2> QED
      BY <1>2, <1>3, <1>5, <2>1, <2>2
  <1> QED
    BY <1>4, <1>5

\* What a round does to the table and the threads.
LEMMA ForkFacts ==
    ASSUME TypeOK, NEW h \in Handlers, Forks(h),
           listener[h].i \in 1..Len(listener[h].players)
    PROVE  /\ procs' \in Seq(Process)
           /\ Len(procs') = Len(procs) + 1 /\ Len(procs') <= MaxProcs
           /\ Len(procs') \notin Pids /\ Pids' = Pids \cup {Len(procs')}
           /\ procs'[Len(procs')] = Child(h, listener[h].trial, Named(h))
           /\ \A r \in Pids : procs'[r] = procs[r]
           /\ listener' \in [({Manager} \cup Pids)' -> Thread]
           /\ listener'[h] = Pushed(h, Len(procs'))
           /\ h # Manager => listener'[Manager] = listener[Manager]
  <1> DEFINE pid == Len(procs')
  <1>1. Len(procs) \in Nat /\ Len(procs) < MaxProcs /\ MaxProcs \in Nat
    BY ProcsType DEF Forks
  <1>2. /\ Child(h, listener[h].trial, Named(h)) \in Process /\ Advanced(h) \in Thread
        /\ Pushed(h, Len(procs) + 1) \in Thread
    <2>1. Len(procs) + 1 \in 0..MaxProcs
      BY <1>1
    <2> QED
      BY <2>1, RoundTypes
  <1>3. /\ procs' \in Seq(Process) /\ pid = Len(procs) + 1 /\ pid <= MaxProcs
        /\ pid \notin Pids /\ Pids' = Pids \cup {pid}
        /\ procs'[pid] = Child(h, listener[h].trial, Named(h))
        /\ \A r \in Pids : procs'[r] = procs[r]
    BY <1>1, <1>2, AppendFacts DEF Forks
  <1>4. /\ h \in 0..Len(procs) /\ listener \in [0..Len(procs) -> Thread]
        /\ 0..(Len(procs) + 1) = ({Manager} \cup Pids)'
    <2>1. 0..Len(procs) = {Manager} \cup Pids
      BY <1>1 DEF Manager, Pids
    <2>2. ({Manager} \cup Pids)' = 0..(Len(procs) + 1)
      BY <1>1, <1>3 DEF Manager, Pids
    <2> QED
      BY <2>1, <2>2, ThreadsType
  <1>5. \A k \in 0..(Len(procs) + 1) : k = Len(procs) + 1 \/ k \in 0..Len(procs)
    BY <1>1
  <1>6. listener' \in [0..(Len(procs) + 1) -> Thread]
    BY <1>2, <1>4, <1>5 DEF Forks
  <1>7. listener'[h] = Pushed(h, Len(procs) + 1)
    BY <1>1, <1>4 DEF Forks
  <1>8. h # Manager => listener'[Manager] = listener[Manager]
    BY <1>1 DEF Forks, Manager
  <1> QED
    BY <1>3, <1>4, <1>6, <1>7, <1>8

\* A round of the Manager's loop comes to one mention of a participant, with at most
\* one session more.
LEMMA RoundNamed ==
    ASSUME TypeOK, PendingNamed,
           listener[Manager].i \in 1..Len(listener[Manager].players),
           listener'[Manager].players = listener[Manager].players,
           listener'[Manager].i = listener[Manager].i + 1,
           named' = named, NEW pid,
           \A q : OwnOf(q)' \subseteq OwnOf(q) \cup
                                      (IF q = Named(Manager) THEN {pid} ELSE {})
    PROVE  PendingNamed'
  <1> DEFINE l == listener[Manager]
  <1>1. SUFFICES ASSUME NEW q \in Participants
                 PROVE  Cardinality(OwnOf(q)') + Cardinality(Pending(q)') <= named[q]
    BY DEF PendingNamed
  <1>2. /\ Cardinality(OwnOf(q)) + Cardinality(Pending(q)) <= named[q]
        /\ Cardinality(OwnOf(q)) \in Nat /\ Cardinality(Pending(q)) \in Nat
        /\ IsFiniteSet(OwnOf(q)) /\ IsFiniteSet(Pending(q)) /\ named[q] \in Nat
    BY OwnOfFinite, PendingFinite DEF PendingNamed, TypeOK
  <1>3. l.i \in Nat \ {0} /\ Len(l.players) \in Nat
    BY ThreadsType, LenProperties DEF Handlers, Thread
  <1>4. Pending(q)' = {j \in (l.i + 1)..Len(l.players) : l.players[j] = q}
    BY DEF Pending
  <1> HIDE DEF l
  <1>5. CASE q = Named(Manager)
    <2>1. Pending(q)' = Pending(q) \ {l.i} /\ l.i \in Pending(q)
      BY <1>3, <1>4, <1>5 DEF Pending, Named, l
    <2>2. Cardinality(Pending(q)') = Cardinality(Pending(q)) - 1
      BY <1>2, <2>1, FS_RemoveElement
    <2>3. OwnOf(q)' \subseteq OwnOf(q) \cup {pid}
      BY <1>5
    <2>4. /\ IsFiniteSet(OwnOf(q) \cup {pid})
          /\ Cardinality(OwnOf(q) \cup {pid}) \in Nat
          /\ Cardinality(OwnOf(q) \cup {pid}) <= Cardinality(OwnOf(q)) + 1
      <3>1. /\ IsFiniteSet(OwnOf(q) \cup {pid})
            /\ Cardinality(OwnOf(q) \cup {pid}) =
                   IF pid \in OwnOf(q) THEN Cardinality(OwnOf(q))
                   ELSE Cardinality(OwnOf(q)) + 1
        BY <1>2, FS_AddElement
      <3> QED
        BY <1>2, <3>1
    <2>5. /\ Cardinality(OwnOf(q)') <= Cardinality(OwnOf(q) \cup {pid})
          /\ Cardinality(OwnOf(q)') \in Nat
      BY <2>3, <2>4, FS_Subset, FS_CardinalityType
    <2> QED
      BY <1>2, <2>2, <2>4, <2>5
  <1>6. CASE q # Named(Manager)
    <2>1. Pending(q)' = Pending(q)
      BY <1>3, <1>4, <1>6 DEF Pending, Named, l
    <2>2. OwnOf(q)' \subseteq OwnOf(q)
      BY <1>6
    <2>3. Cardinality(OwnOf(q)') <= Cardinality(OwnOf(q)) /\ Cardinality(OwnOf(q)') \in Nat
      BY <1>2, <2>2, FS_Subset, FS_CardinalityType
    <2> QED
      BY <1>2, <2>1, <2>3
  <1> QED
    BY <1>5, <1>6

LEMMA ForkInv ==
    ASSUME ManagerInv, NEW h \in Handlers, InitializeParticipant(h), Forks(h)
    PROVE  ManagerInv'
  <1> DEFINE pid == Len(procs')
             child == Child(h, listener[h].trial, Named(h))
  <1>0. TypeOK /\ Tracked /\ Raced
    BY DEF ManagerInv
  <1>1. /\ UNCHANGED <<inbox, killed, inserting, rows, sent, starts, named, returned,
                       cleared>>
        /\ listener[h].pc = "fork" /\ listener[h].i \in 1..Len(listener[h].players)
    BY <1>0, RoundCases
  <1>2. /\ procs' \in Seq(Process) /\ pid = Len(procs) + 1 /\ pid <= MaxProcs
        /\ pid \notin Pids /\ Pids' = Pids \cup {pid} /\ procs'[pid] = child
        /\ \A r \in Pids : procs'[r] = procs[r]
        /\ listener' \in [({Manager} \cup Pids)' -> Thread]
        /\ listener'[h] = Pushed(h, pid)
        /\ h # Manager => listener'[Manager] = listener[Manager]
    BY <1>0, <1>1, ForkFacts
  <1>3. pid \in 0..MaxProcs
    BY <1>2, ProcsType, <1>0
  <1>4. /\ Pushed(h, pid).pc = "fork" /\ Pushed(h, pid).players = listener[h].players
        /\ Pushed(h, pid).i = listener[h].i + 1
        /\ Pushed(h, pid).sessions = IF h = Manager THEN listener[h].sessions \cup {pid}
                                     ELSE listener[h].sessions
        /\ child \in Process
    BY <1>0, <1>1, <1>3, RoundTypes
  <1>5. child.participant = Named(h) /\ child.parent = h /\ child.state = "starting"
    BY DEF Child
  <1> HIDE DEF pid, child
  <1>6. TypeOK'
    BY <1>0, <1>1, <1>2 DEF TypeOK, pid
  <1>7. Own' \subseteq Own \cup (IF h = Manager THEN {pid} ELSE {})
    BY <1>1, <1>2, <1>5 DEF Own, Live, Alive
  <1>8. \A p \in Own : p \in Pids /\ procs'[p].participant = procs[p].participant
    BY <1>2, OwnFacts
  <1>9. Tracked'
    <2>1. CASE h # Manager
      <3>1. Own' \subseteq Own
        BY <1>7, <2>1
      <3>2. IdleDone'
        BY <1>0, <1>2, <2>1 DEF Tracked, IdleDone
      <3> QED
        BY <1>0, <1>1, <1>2, <1>8, <2>1, <3>1, <3>2, TrackedKept
    <2>2. CASE h = Manager
      <3>1. IdleDone'
        BY <1>2, <1>4, <2>2 DEF IdleDone
      <3>2. OwnSessionsTracked'
        <4>1. Own \subseteq listener[Manager].sessions
          BY <1>0, OwnFacts DEF Tracked
        <4>2. Own' \subseteq listener'[Manager].sessions
          BY <1>2, <1>4, <1>7, <2>2, <4>1
        <4>3. (OwnSessionsTracked <=> Own \subseteq listener[Manager].sessions)'
          BY DEF OwnSessionsTracked, Own, Live
        <4> QED
          BY <4>2, <4>3
      <3>3. \A q : OwnOf(q)' \subseteq OwnOf(q) \cup
                                       (IF q = Named(Manager) THEN {pid} ELSE {})
        BY <1>2, <1>5, <1>7, <1>8, <2>2 DEF OwnOf
      <3>4. PendingNamed'
        BY <1>0, <1>1, <1>2, <1>4, <2>2, <3>3, RoundNamed DEF Tracked
      <3> QED
        BY <3>1, <3>2, <3>4 DEF Tracked
    <2> QED
      BY <2>1, <2>2
  <1>10. Raced'
    <2>1. Len(procs) <= Len(procs')
      BY <1>0, <1>2, ProcsType DEF pid
    <2>2. \A p \in Pids : Writes(p)' => Writes(p)
      BY <1>1, <1>2 DEF Writes, Alive, Inserting
    <2>3. \A p \in Pids : procs'[p].trial = procs[p].trial
      BY <1>2
    <2>4. rows' = rows /\ cleared' = cleared
      BY <1>1
    <2>5. \A r \in rows' : r.tagged =>
              r \in rows \/ (r.session \in Pids /\ Writes(r.session))
      BY <2>4
    <2>6. cleared' = cleared
      BY <1>1
    <2> QED
      BY <1>0, <1>6, <2>1, <2>2, <2>3, <2>5, <2>6, RacedKept
  <1> QED
    BY <1>6, <1>9, <1>10 DEF ManagerInv

LEMMA ForkFailsInv ==
    ASSUME ManagerInv, NEW h \in Handlers, InitializeParticipant(h), ForkFails(h)
    PROVE  ManagerInv'
  <1> DEFINE l == Pushed(h, ForkFailed)
  <1>0. TypeOK /\ Tracked /\ Raced
    BY DEF ManagerInv
  <1>1. /\ UNCHANGED <<inbox, killed, inserting, rows, sent, starts, named, returned,
                       cleared>>
        /\ listener[h].pc = "fork" /\ listener[h].i \in 1..Len(listener[h].players)
    BY <1>0, RoundCases
  <1>2. ForkFailed \in 0..MaxProcs
    BY <1>0, ProcsType DEF ForkFailed
  <1>3. /\ l \in Thread /\ l.pc = "fork" /\ l.players = listener[h].players
        /\ l.i = listener[h].i + 1
        /\ listener[h].sessions \subseteq l.sessions
    BY <1>0, <1>1, <1>2, RoundTypes
  <1>4. listener' = [listener EXCEPT ![h] = l] /\ procs' = procs
    BY DEF ForkFails
  <1> HIDE DEF l
  <1>5. /\ listener' \in [{Manager} \cup Pids -> Thread] /\ listener'[h] = l
        /\ h # Manager => listener'[Manager] = listener[Manager]
    BY <1>0, <1>3, <1>4, ThreadFacts
  <1>6. TypeOK'
    BY <1>0, <1>1, <1>4, <1>5 DEF TypeOK, Pids
  <1>7. CASE h # Manager
    BY <1>1, <1>4, <1>5, <1>6, <1>7, QuietStep DEF database
  <1>8. CASE h = Manager
    <2>1. Own' = Own
      BY <1>1, <1>4 DEF Own, Live, Pids, Alive
    <2>2. OwnSessionsTracked' /\ IdleDone'
      BY <1>0, <1>1, <1>3, <1>4, <1>5, <1>8
         DEF Tracked, OwnSessionsTracked, IdleDone, Live, Pids, Alive
    <2>3. \A q : OwnOf(q)' \subseteq OwnOf(q) \cup
                                     (IF q = Named(Manager) THEN {ForkFailed} ELSE {})
      BY <1>4, <2>1 DEF OwnOf
    <2>4. PendingNamed'
      BY <1>0, <1>1, <1>3, <1>5, <1>8, <2>3, RoundNamed DEF Tracked
    <2> QED
      BY <1>0, <1>1, <1>4, <1>6, <2>2, <2>4, RacedSame DEF ManagerInv, Tracked
  <1> QED
    BY <1>7, <1>8

LEMMA InitializeParticipantInv ==
    ASSUME ManagerInv, NEW h \in Handlers, InitializeParticipant(h) PROVE ManagerInv'
  BY RoundCases, ForkInv, ForkFailsInv DEF ManagerInv

LEMMA OnStopInv == ASSUME ManagerInv, OnStop PROVE ManagerInv'
  <1> DEFINE l == [listener[Manager] EXCEPT !.sessions = {}]
  <1>0. TypeOK /\ Tracked /\ Raced /\ Manager \in Handlers
    BY DEF ManagerInv, Handlers
  <1>1. /\ UNCHANGED <<procs, inserting, rows, sent, returned, cleared>>
        /\ listener[Manager].pc = "idle" /\ starts' = 0
        /\ killed' = killed \cup Signalled(Manager)
        /\ named' = [q \in Participants |-> 0]
        /\ inbox' \in Seq(Start \cup Stop)
    BY <1>0, InboxFacts DEF OnStop, Receive, database
  <1>2. listener[Manager] \in Thread
    BY <1>0, ThreadsType
  <1>3. /\ l \in Thread /\ l.pc = "idle" /\ l.sessions = {}
        /\ l.players = listener[Manager].players
    BY <1>1, <1>2 DEF Thread
  <1>4. listener' = [listener EXCEPT ![Manager] = l]
    BY DEF OnStop
  <1> HIDE DEF l
  <1>5. listener' \in [{Manager} \cup Pids -> Thread] /\ listener'[Manager] = l
    BY <1>0, <1>3, <1>4, ThreadFacts
  <1>6. /\ Signalled(Manager) \subseteq Pids
        /\ listener[Manager].sessions \cap Live \subseteq Signalled(Manager)
    <2>1. Manager \notin Live
      BY <1>0, ThreadsType DEF Live
    <2> QED
      BY <2>1 DEF Signalled, Live
  <1>7. TypeOK'
    BY <1>0, <1>1, <1>5, <1>6 DEF TypeOK, Pids
  <1>8. Own' = {}
    <2>1. Own \subseteq Live \cap listener[Manager].sessions
      BY <1>0, OwnFacts DEF Tracked, Own
    <2> QED
      BY <1>1, <1>6, <2>1 DEF Own, Live, Pids, Alive
  <1>9. OwnSessionsTracked' /\ IdleDone'
    <2>1. (OwnSessionsTracked <=> Own \subseteq listener[Manager].sessions)'
      BY DEF OwnSessionsTracked, Own, Live
    <2>2. IdleDone'
      BY <1>0, <1>1, <1>3, <1>5 DEF Tracked, IdleDone
    <2> QED
      BY <1>8, <2>1, <2>2
  <1>10. ASSUME NEW q \in Participants
         PROVE  (Cardinality(OwnOf(q)) + Cardinality(Pending(q)) <= named[q])'
    <2>1. OwnOf(q)' = {}
      BY <1>8 DEF OwnOf
    <2>2. listener'[Manager].players = <<>> /\ listener'[Manager].i \in Nat \ {0}
      BY <1>0, <1>1, <1>3, <1>5 DEF Tracked, IdleDone, Thread
    <2>3. Pending(q)' = {}
      BY <2>2, EmptySeq DEF Pending
    <2> QED
      BY <1>1, <2>1, <2>3, FS_EmptySet
  <1>11. Raced'
    BY <1>0, <1>1, RacedSame
  <1> QED
    BY <1>7, <1>9, <1>10, <1>11 DEF ManagerInv, Tracked, PendingNamed

-----------------------------------------------------------------------------
(* The steps of the sessions *)

SessionStep(p) ==
    \/ Run(p) \/ SendInsert(p) \/ Terminate(p) \/ Crash(p) \/ SmileReturns(p)
    \/ StrayStops(p)

\* A live process that changes state, and perhaps signals others; the thread that
\* waits in its listener is not the Manager's.
LEMMA BecomeInv ==
    ASSUME ManagerInv, NEW p \in Pids, NEW s \in States, Alive(p), Become(p, s),
           killed \subseteq killed', killed' \subseteq Pids,
           inbox' \in Seq(Start \cup Stop), returned' \subseteq Pids,
           UNCHANGED <<listener, database, sent, starts, named, cleared>>
    PROVE  ManagerInv'
  <1>0. TypeOK /\ Tracked /\ Raced
    BY DEF ManagerInv
  <1>1. /\ procs' \in Seq(Process) /\ Len(procs') = Len(procs) /\ Pids' = Pids
        /\ procs'[p].state = s
        /\ \A r \in Pids : /\ procs'[r].trial = procs[r].trial
                           /\ procs'[r].participant = procs[r].participant
                           /\ procs'[r].parent = procs[r].parent
                           /\ r # p => procs'[r] = procs[r]
    BY <1>0, BecomeFacts
  <1>2. Live' \subseteq Live /\ Live \subseteq Pids
    BY <1>1 DEF Live, Alive
  <1>3. Own' \subseteq Own /\ Own \subseteq Pids
    BY <1>1, <1>2 DEF Own
  <1>4. TypeOK'
    BY <1>0, <1>1 DEF TypeOK, database
  <1>5. IdleDone'
    BY <1>0 DEF Tracked, IdleDone
  <1>6. Tracked'
    BY <1>0, <1>1, <1>3, <1>5, TrackedKept
  <1>7. \A r \in Pids : Writes(r)' => Writes(r)
    BY <1>1 DEF Writes, Alive, Inserting, database
  <1>8. Len(procs) <= Len(procs')
    BY <1>0, <1>1, ProcsType
  <1>9. rows' = rows
    BY DEF database
  <1>10. Raced'
    BY <1>0, <1>1, <1>4, <1>7, <1>8, <1>9, RacedKept
  <1> QED
    BY <1>4, <1>6, <1>10 DEF ManagerInv

LEMMA SendInsertInv ==
    ASSUME ManagerInv, NEW p \in Pids, SendInsert(p) PROVE ManagerInv'
  <1> DEFINE r == [session |-> p, tagged |-> procs[p].tagged]
  <1>0. TypeOK /\ Tracked /\ Raced
    BY DEF ManagerInv
  <1>1. /\ inserting' = inserting \cup {r}
        /\ procs' = [procs EXCEPT ![p].tagged = TRUE] /\ Alive(p)
        /\ UNCHANGED <<inbox, listener, killed, rows, sent, starts, named, returned,
                       cleared>>
    BY DEF SendInsert, history, Alive
  <1>2. r \in Row /\ r.session = p
    BY <1>0, ProcsType DEF Row, Process
  <1>3. /\ procs' \in Seq(Process) /\ Len(procs') = Len(procs) /\ Pids' = Pids
        /\ \A k \in Pids : /\ procs'[k].trial = procs[k].trial
                           /\ procs'[k].participant = procs[k].participant
                           /\ procs'[k].parent = procs[k].parent
                           /\ procs'[k].state = procs[k].state
    BY <1>0, <1>1, TaggedFacts
  <1> HIDE DEF r
  <1>4. TypeOK'
    BY <1>0, <1>1, <1>2, <1>3 DEF TypeOK
  <1>5. Own' \subseteq Own /\ Own \subseteq Pids
    BY <1>1, <1>3 DEF Own, Live, Alive
  <1>6. IdleDone'
    BY <1>0, <1>1 DEF Tracked, IdleDone
  <1>7. Tracked'
    BY <1>0, <1>1, <1>3, <1>5, <1>6, TrackedKept
  <1>8. \A k \in Pids : Writes(k)' => Writes(k)
    BY <1>1, <1>2, <1>3 DEF Writes, Alive, Inserting
  <1>9. Len(procs) <= Len(procs')
    BY <1>0, <1>3, ProcsType
  <1>10. rows' = rows /\ cleared' = cleared
    BY <1>1
  <1>11. Raced'
    BY <1>0, <1>3, <1>4, <1>8, <1>9, <1>10, RacedKept
  <1> QED
    BY <1>4, <1>7, <1>11 DEF ManagerInv

LEMMA CommitInsertInv ==
    ASSUME ManagerInv, NEW r \in inserting, CommitInsert(r) PROVE ManagerInv'
  <1>0. TypeOK /\ Tracked /\ Raced
    BY DEF ManagerInv
  <1>1. /\ inserting' \subseteq inserting /\ rows' \subseteq rows \cup {r}
        /\ UNCHANGED <<inbox, listener, procs, killed, sent, starts, named, returned,
                       cleared>>
    BY DEF CommitInsert, history
  <1>2. r \in Row /\ r.session \in Pids /\ Writes(r.session)
    BY <1>0 DEF TypeOK, Writes, Inserting
  <1>3. TypeOK'
    BY <1>0, <1>1, <1>2 DEF TypeOK, Pids
  <1>4. Own' = Own /\ IdleDone'
    BY <1>0, <1>1 DEF Own, Live, Pids, Alive, Tracked, IdleDone
  <1>5. Tracked'
    BY <1>0, <1>1, <1>4, TrackedKept
  <1>6. \A k \in Pids : Writes(k)' => Writes(k)
    BY <1>1 DEF Writes, Alive, Inserting
  <1>7. \A x \in rows' : x \in rows \/ (x.session \in Pids /\ Writes(x.session))
    BY <1>1, <1>2
  <1>8. Len(procs) <= Len(procs') /\ cleared' = cleared
    BY <1>0, <1>1, ProcsType
  <1>9. \A k \in Pids : procs'[k].trial = procs[k].trial
    BY <1>1
  <1>10. Raced'
    BY <1>0, <1>3, <1>6, <1>7, <1>8, <1>9, RacedKept
  <1> QED
    BY <1>3, <1>5, <1>10 DEF ManagerInv

LEMMA StrayFacts ==
    ASSUME TypeOK, NEW p \in Pids, StrayStops(p)
    PROVE  /\ Alive(p) /\ Become(p, "dead") /\ p \in Strays
           /\ killed' = killed \cup Signalled(p) /\ Signalled(p) \subseteq Pids
           /\ inbox' \in Seq(Start \cup Stop)
           /\ UNCHANGED <<listener, database, history>>
  <1>1. Alive(p)
    BY DEF StrayStops, Strays, Alive
  <1>2. inbox' \in Seq(Start \cup Stop)
    BY InboxFacts DEF StrayStops, Receive
  <1>3. Signalled(p) \subseteq Pids
    BY DEF Signalled, Live
  <1> QED
    BY <1>1, <1>2, <1>3 DEF StrayStops

LEMMA SessionInv == ASSUME ManagerInv, NEW p \in Pids, SessionStep(p) PROVE ManagerInv'
  <1>0. TypeOK
    BY DEF ManagerInv
  <1>1. CASE Run(p) \/ Terminate(p) \/ Crash(p) \/ SmileReturns(p)
    <2>1. \E s \in States : Become(p, s)
      BY <1>1 DEF Run, Terminate, Crash, SmileReturns, States
    <2>2. /\ Alive(p) /\ returned' \subseteq returned \cup {p}
          /\ UNCHANGED <<inbox, listener, killed, database, sent, starts, named, cleared>>
      BY <1>1 DEF Run, Terminate, Crash, SmileReturns, Alive, history
    <2>3. /\ killed \subseteq Pids /\ inbox' \in Seq(Start \cup Stop)
          /\ returned' \subseteq Pids
      BY <1>0, <2>2 DEF TypeOK
    <2> QED
      BY <2>1, <2>2, <2>3, BecomeInv
  <1>2. CASE StrayStops(p)
    <2>1. killed' \subseteq Pids /\ returned' \subseteq Pids /\ killed \subseteq killed'
      BY <1>0, <1>2, StrayFacts DEF TypeOK, history
    <2>2. UNCHANGED <<listener, database, sent, starts, named, cleared>>
      BY <1>0, <1>2, StrayFacts DEF history
    <2> QED
      BY <1>0, <1>2, <2>1, <2>2, StrayFacts, BecomeInv DEF States
  <1> QED
    BY <1>1, <1>2, SendInsertInv DEF SessionStep

-----------------------------------------------------------------------------
(* The theorems *)

LEMMA NextManagerInv == ManagerInv /\ [Next]_vars => ManagerInv'
  <1> SUFFICES ASSUME ManagerInv, [Next]_vars PROVE ManagerInv'
    OBVIOUS
  <1>1. CASE UNCHANGED vars
    <2>1. TypeOK'
      BY <1>1 DEF ManagerInv, TypeOK, vars, database, history, Pids
    <2> QED
      BY <1>1, <2>1, QuietStep DEF vars, history
  <1>2. CASE \E p \in Pids : SessionStep(p)
    BY <1>2, SessionInv
  <1>3. CASE \E h \in Handlers : \/ OnStart(h) \/ ClearTrial(h)
                                 \/ InitializeParticipant(h)
                                 \/ InitializeParticipantsDone(h)
    BY <1>3, OnStartInv, ClearTrialInv, InitializeParticipantInv,
       InitializeParticipantsDoneInv
  <1> QED
    BY <1>1, <1>2, <1>3, SendInv, LoseInv, OnStopInv, CommitInsertInv
    DEF Next, SessionStep

LEMMA ManagerInvariant == Spec => []ManagerInv
  BY InitManagerInv, NextManagerInv, PTL DEF Spec

\* Every variable of the trial life cycle keeps its type, whatever the Manager, its
\* sessions and strays do with the trial messages (Manager.cpp:62-94).
THEOREM ManagerTypeCorrect == Spec => []TypeOK
  <1>1. ManagerInv => TypeOK
    BY DEF ManagerInv
  <1> QED
    BY <1>1, ManagerInvariant, PTL

\* No session forked by the Manager is forgotten before it is told to stop
\* (Manager.cpp:40-60).
THEOREM NoneForgotten == Spec => []OwnSessionsTracked
  <1>1. ManagerInv => OwnSessionsTracked
    BY DEF ManagerInv, Tracked
  <1> QED
    BY <1>1, ManagerInvariant, PTL

\* However starts and stops follow each other and however often client_info names a
\* participant, the Manager never has more sessions of one that were not told to end
\* than it was named since the last stop (Manager.cpp:74-84).
THEOREM SessionsOfNames == Spec => []OneSessionPerName
  <1>1. ASSUME ManagerInv, NEW q \in Participants
        PROVE  Cardinality(OwnOf(q)) <= named[q]
    <2>1. TypeOK /\ Cardinality(OwnOf(q)) + Cardinality(Pending(q)) <= named[q]
      BY <1>1 DEF ManagerInv, Tracked, PendingNamed
    <2>2. /\ Cardinality(OwnOf(q)) \in Nat /\ Cardinality(Pending(q)) \in Nat
          /\ named[q] \in Nat
      BY <2>1, OwnOfFinite, PendingFinite DEF TypeOK
    <2> QED
      BY <2>1, <2>2
  <1>2. ManagerInv => OneSessionPerName
    BY <1>1 DEF OneSessionPerName
  <1> QED
    BY <1>2, ManagerInvariant, PTL

\* The rows with ids that a restarted trial inherits all come from sessions that
\* ClearTrial raced with (Manager.cpp:80-81, DBWrapper.cpp:54-61).
THEOREM StaleRowsExplained == Spec => []StaleRowsRaced
  <1>1. ManagerInv => StaleRowsRaced
    BY DEF ManagerInv, Raced, WritersRaced, Met, StaleRowsRaced
  <1> QED
    BY <1>1, ManagerInvariant, PTL

-----------------------------------------------------------------------------
(* Without strays *)

\* Every session is the Manager's own.
NoStrays == Strays = {} /\ \A p \in Pids : procs[p].parent = Manager

LEMMA NextNoStrays ==
    ~SmileMayReturn /\ ManagerInv /\ NoStrays /\ [Next]_vars => NoStrays'
  <1> SUFFICES ASSUME ~SmileMayReturn, ManagerInv, NoStrays, [Next]_vars
               PROVE  NoStrays'
    OBVIOUS
  <1>0. TypeOK /\ Handlers = {Manager}
    BY DEF ManagerInv, NoStrays, Handlers
  <1>1. CASE UNCHANGED procs
    BY <1>1 DEF NoStrays, Strays, Pids
  <1>2. ASSUME NEW h \in Handlers, InitializeParticipant(h)
        PROVE  NoStrays'
    <2>1. CASE Forks(h)
      <3>1. /\ Pids' = Pids \cup {Len(procs')}
            /\ procs'[Len(procs')] = Child(h, listener[h].trial, Named(h))
            /\ \A r \in Pids : procs'[r] = procs[r]
        BY <1>0, <1>2, <2>1, RoundCases, ForkFacts
      <3>2. /\ Child(h, listener[h].trial, Named(h)).parent = Manager
            /\ Child(h, listener[h].trial, Named(h)).state # "stray"
        BY <1>0 DEF Child
      <3> QED
        BY <3>1, <3>2 DEF NoStrays, Strays
    <2>2. CASE ForkFails(h)
      BY <1>1, <2>2 DEF ForkFails
    <2> QED
      BY <1>0, <1>2, <2>1, <2>2, RoundCases
  <1>3. ASSUME NEW p \in Pids, NEW s \in States \ {"stray"}, Become(p, s)
        PROVE  NoStrays'
    <2>1. /\ Pids' = Pids /\ procs'[p].state = s
          /\ \A r \in Pids : /\ procs'[r].parent = procs[r].parent
                             /\ r # p => procs'[r] = procs[r]
      BY <1>0, <1>3, BecomeFacts
    <2> QED
      BY <2>1 DEF NoStrays, Strays
  <1>4. ASSUME NEW p \in Pids, SendInsert(p)
        PROVE  NoStrays'
    <2>1. /\ Pids' = Pids
          /\ \A r \in Pids : /\ procs'[r].parent = procs[r].parent
                             /\ procs'[r].state = procs[r].state
      BY <1>0, <1>4, TaggedFacts DEF SendInsert
    <2> QED
      BY <2>1 DEF NoStrays, Strays
  <1>5. ASSUME NEW p \in Pids, SessionStep(p)
        PROVE  NoStrays'
    <2>1. CASE Run(p) \/ Terminate(p) \/ Crash(p)
      <3>1. \E s \in States \ {"stray"} : Become(p, s)
        BY <2>1 DEF Run, Terminate, Crash, States
      <3> QED
        BY <1>3, <3>1
    <2>2. ~SmileReturns(p) /\ ~StrayStops(p)
      BY DEF SmileReturns, StrayStops, NoStrays
    <2> QED
      BY <1>4, <1>5, <2>1, <2>2 DEF SessionStep
  <1> QED
    BY <1>1, <1>2, <1>5
       DEF Next, SessionStep, vars, Send, Lose, OnStart, ClearTrial,
           InitializeParticipantsDone, OnStop, CommitInsert

\* The return of smile_run (OpensmileSession.cpp:58) is the only reason why a stop
\* fails to reach a session, failed forks and crashes notwithstanding: without it
\* StopReachesAll holds.
THEOREM OnlyStraysEscape == ~SmileMayReturn => (Spec => []StopReachesAll)
  <1> SUFFICES ASSUME ~SmileMayReturn
               PROVE  Spec => []StopReachesAll
    OBVIOUS
  <1>1. Init => NoStrays
    BY EmptySeq DEF Init, NoStrays, Strays, Pids
  <1>2. ManagerInv /\ NoStrays => StopReachesAll
    BY DEF ManagerInv, Tracked, OwnSessionsTracked, NoStrays, StopReachesAll, Live
  <1> QED
    BY <1>1, <1>2, NextNoStrays, ManagerInvariant, PTL DEF Spec

-----------------------------------------------------------------------------
(* The Manager implements TrialSessions *)

\* What the refinement mapping makes of the Manager's state.
Trial == listener[Manager].trial
Opened == [p \in Pids |-> [trial       |-> procs[p].trial,
                           participant |-> procs[p].participant]]
Writing == Live \cup {r.session : r \in inserting}
Session == [trial : Trials, participant : Participants]
Seen == <<Trial, Opened, Own, Writing, Strays, rows, named>>

LEMMA OpenedFacts ==
    ASSUME TypeOK
    PROVE  /\ Opened \in Seq(Session) /\ Len(Opened) = Len(procs)
           /\ \A p \in Pids : /\ Opened[p].trial = procs[p].trial
                              /\ Opened[p].participant = procs[p].participant
  <1>1. Len(procs) \in Nat /\ \A p \in Pids : procs[p] \in Process
    BY ProcsType
  <1>2. \A p \in Pids : [trial |-> procs[p].trial,
                         participant |-> procs[p].participant] \in Session
    BY <1>1 DEF Process, Session
  <1>3. Opened \in [1..Len(procs) -> Session]
    BY <1>2 DEF Opened, Pids
  <1>4. Opened \in Seq(Session)
    BY <1>1, <1>3, SeqDef
  <1>5. Len(Opened) = Len(procs)
    BY <1>1, <1>3, <1>4, LenProperties
  <1> QED
    BY <1>4, <1>5 DEF Opened

\* What a process keeps for good is what the mapping shows of it.
LEMMA OpenedKept ==
    ASSUME Pids' = Pids,
           \A p \in Pids : /\ procs'[p].trial = procs[p].trial
                           /\ procs'[p].participant = procs[p].participant
    PROVE  Opened' = Opened
  BY DEF Opened

\* A fork appends to the sessions opened.
LEMMA OpenedGrows ==
    ASSUME TypeOK, TypeOK', Len(procs') = Len(procs) + 1, NEW s \in Session,
           \A p \in Pids : /\ procs'[p].trial = procs[p].trial
                           /\ procs'[p].participant = procs[p].participant,
           procs'[Len(procs')].trial = s.trial,
           procs'[Len(procs')].participant = s.participant
    PROVE  Opened' = Append(Opened, s)
  <1>1. /\ Opened \in Seq(Session) /\ Len(Opened) = Len(procs)
        /\ Len(procs) \in Nat
    BY OpenedFacts, ProcsType
  <1>2. Opened' = [p \in 1..(Len(procs) + 1) |->
                       [trial       |-> procs'[p].trial,
                        participant |-> procs'[p].participant]]
    BY DEF Opened, Pids
  <1>3. s = [trial |-> s.trial, participant |-> s.participant]
    BY DEF Session
  <1>4. Opened = [p \in 1..Len(procs) |-> [trial       |-> procs[p].trial,
                                           participant |-> procs[p].participant]]
    BY DEF Opened, Pids
  <1>5. /\ Append(Opened, s) \in Seq(Session)
        /\ Len(Append(Opened, s)) = Len(procs) + 1
        /\ \A p \in 1..Len(procs) : Append(Opened, s)[p] = Opened[p]
        /\ Append(Opened, s)[Len(procs) + 1] = s
    BY <1>1, AppendProperties
  <1>6. \A p \in 1..Len(procs) : Opened[p] = [trial       |-> procs'[p].trial,
                                              participant |-> procs'[p].participant]
    BY <1>4 DEF Pids
  <1>7. Append(Opened, s) \in [1..(Len(procs) + 1) -> Session]
    BY <1>5, LenProperties
  <1>8. \A p \in 1..(Len(procs) + 1) :
            Append(Opened, s)[p] = [trial       |-> procs'[p].trial,
                                    participant |-> procs'[p].participant]
    BY <1>1, <1>3, <1>5, <1>6
  <1> QED
    BY <1>2, <1>7, <1>8

LEMMA InitService == Init => Service!Init
  <1> SUFFICES ASSUME Init PROVE Service!Init
    OBVIOUS
  <1>1. Len(procs) = 0 /\ Pids = {} /\ Live = {} /\ Strays = {} /\ Own = {}
    BY EmptySeq DEF Init, Pids, Live, Strays, Own
  <1>2. Opened = <<>>
    BY <1>1 DEF Opened
  <1>3. listener[Manager].trial \in Trials
    BY DEF Init, Idle
  <1> QED
    BY <1>1, <1>2, <1>3 DEF Init, Service!Init, Opened

\* The steps that TrialSessions does not see.
LEMMA UnseenSteps ==
    ASSUME Trial' = Trial, UNCHANGED <<procs, killed, inserting, rows, named>>
    PROVE  UNCHANGED Seen
  BY DEF Seen, Opened, Own, Writing, Strays, Live, Pids, Alive

\* A fork, whosever it is, opens the next session.
LEMMA ForkSeen ==
    ASSUME ManagerInv, NEW h \in Handlers, InitializeParticipant(h), Forks(h)
    PROVE  \E s \in Session :
               /\ s = [trial |-> listener[h].trial, participant |-> Named(h)]
               /\ Opened' = Append(Opened, s)
               /\ Own' = Own \cup (IF h = Manager THEN {Len(Opened) + 1} ELSE {})
               /\ Writing' = Writing \cup {Len(Opened) + 1}
               /\ UNCHANGED <<Trial, Strays, rows, named>>
  <1> DEFINE pid == Len(procs')
             child == Child(h, listener[h].trial, Named(h))
             s == [trial |-> listener[h].trial, participant |-> Named(h)]
  <1>0. TypeOK /\ TypeOK'
    BY ForkInv DEF ManagerInv
  <1>1. /\ UNCHANGED <<killed, inserting, rows, named>>
        /\ listener[h].i \in 1..Len(listener[h].players)
    BY <1>0, RoundCases
  <1>2. /\ pid = Len(procs) + 1 /\ pid \notin Pids /\ Pids' = Pids \cup {pid}
        /\ procs'[pid] = child /\ \A r \in Pids : procs'[r] = procs[r]
        /\ listener'[h] = Pushed(h, pid)
        /\ h # Manager => listener'[Manager] = listener[Manager]
    BY <1>0, <1>1, ForkFacts
  <1>3. /\ child.trial = listener[h].trial /\ child.participant = Named(h)
        /\ child.parent = h /\ child.state = "starting"
    BY DEF Child
  <1>4. listener[h] \in Thread /\ Named(h) \in Participants
    <2>1. listener[h] \in Thread
      BY <1>0, ThreadsType
    <2> QED
      BY <1>1, <2>1, ElementOfSeq DEF Thread, Named
  <1>5. s \in Session /\ s.trial = listener[h].trial /\ s.participant = Named(h)
    BY <1>4 DEF Session, Thread
  <1>6. Pushed(h, pid).trial = listener[h].trial
    BY <1>4 DEF Pushed, PushBack, Advanced, Thread
  <1>7. Trial' = Trial
    BY <1>2, <1>6 DEF Trial
  <1> HIDE DEF child, s
  <1>8. Opened' = Append(Opened, s)
    BY <1>0, <1>2, <1>3, <1>5, OpenedGrows
  <1>9. Len(Opened) + 1 = pid
    BY <1>0, <1>2, OpenedFacts
  <1> HIDE DEF pid
  <1>10. Live' = Live \cup {pid} /\ Strays' = Strays
    BY <1>2, <1>3 DEF Live, Alive, Strays
  <1>11. Writing' = Writing \cup {pid}
    BY <1>1, <1>10 DEF Writing
  <1>12. killed \subseteq Pids /\ Live \subseteq Pids
    BY <1>0 DEF TypeOK, Live
  <1>13. Own' = Own \cup (IF h = Manager THEN {pid} ELSE {})
    BY <1>1, <1>2, <1>3, <1>10, <1>12 DEF Own
  <1> QED
    BY <1>1, <1>5, <1>7, <1>8, <1>9, <1>10, <1>11, <1>13 DEF s

\* The instance has the operator of FiniteSets under a name of its own.
LEMMA ServiceCardinality == \A S : Service!Cardinality(S) = Cardinality(S)
  BY DEF Cardinality, Service!Cardinality

\* The Manager opens a session of its trial for one of the names that are left.
LEMMA OpenStep ==
    ASSUME ManagerInv, InitializeParticipant(Manager), Forks(Manager),
           NEW q \in Participants, q = Named(Manager)
    PROVE  Service!Open(q)
  <1>0. TypeOK /\ PendingNamed /\ Manager \in Handlers
    BY DEF ManagerInv, Tracked, Handlers
  <1>1. PICK s \in Session :
            /\ s = [trial |-> Trial, participant |-> q]
            /\ Opened' = Append(Opened, s)
            /\ Own' = Own \cup {Len(Opened) + 1}
            /\ Writing' = Writing \cup {Len(Opened) + 1}
            /\ UNCHANGED <<Trial, Strays, rows, named>>
    BY <1>0, ForkSeen DEF Trial
  <1>3. {n \in Own : Opened[n].participant = q} = OwnOf(q)
    BY <1>0, OwnFacts, OpenedFacts DEF OwnOf
  <1>4. Cardinality(OwnOf(q)) < named[q]
    <2>1. /\ listener[Manager].i \in 1..Len(listener[Manager].players)
          /\ listener[Manager].i \in Nat /\ Len(listener[Manager].players) \in Nat
      <3>1. listener[Manager].i \in 1..Len(listener[Manager].players)
        BY <1>0, RoundCases
      <3>2. listener[Manager].i \in Nat /\ Len(listener[Manager].players) \in Nat
        BY <1>0, ThreadsType, LenProperties DEF Thread
      <3> QED
        BY <3>1, <3>2
    <2>2. listener[Manager].i \in Pending(q)
      BY <2>1 DEF Pending, Named
    <2>3. Cardinality(Pending(q)) # 0
      BY <1>0, <2>2, PendingFinite, FS_EmptySet
    <2>4. /\ Cardinality(OwnOf(q)) + Cardinality(Pending(q)) <= named[q]
          /\ Cardinality(OwnOf(q)) \in Nat /\ Cardinality(Pending(q)) \in Nat
          /\ named[q] \in Nat
      BY <1>0, OwnOfFinite, PendingFinite DEF PendingNamed, TypeOK
    <2> QED
      BY <2>3, <2>4
  <1>5. Cardinality({n \in Own : Opened[n].participant = q}) < named[q]
    BY <1>3, <1>4
  <1>6. Service!Cardinality({n \in Own : Opened[n].participant = q}) < named[q]
    BY <1>5, ServiceCardinality
  <1> QED
    BY <1>1, <1>6 DEF Service!Open, Service!Fresh, Opened, Writing, Trial

\* A stray opens a session that is never current.
LEMMA OpenStrayStep ==
    ASSUME ManagerInv, NEW p \in Strays, InitializeParticipant(p), Forks(p)
    PROVE  \E s \in Session : Service!OpenStray(s)
  <1>1. p \in Handlers /\ p # Manager
    BY DEF Handlers, Strays, Pids, Manager
  <1>2. PICK s \in Session :
            /\ Opened' = Append(Opened, s)
            /\ Own' = Own \cup {}
            /\ Writing' = Writing \cup {Len(Opened) + 1}
            /\ UNCHANGED <<Trial, Strays, rows, named>>
    BY <1>1, ForkSeen
  <1>3. Own' = Own
    BY <1>2
  <1>4. Service!OpenStray(s)
    BY <1>2, <1>3 DEF Service!OpenStray, Service!Fresh, Opened, Writing, Trial
  <1> QED
    BY <1>4

\* A process that dies leaves its session; what it has sent may still be written.
LEMMA LeaveFacts ==
    ASSUME TypeOK, NEW p \in Pids, Alive(p), Become(p, "dead"),
           killed \subseteq killed', UNCHANGED <<listener, inserting, rows, named>>
    PROVE  /\ Opened' = Opened /\ Strays' = Strays \ {p} /\ p \in Writing
           /\ Own' \subseteq Own \ {p}
           /\ killed' = killed => Own' = Own \ {p}
           /\ Writing' \in {Writing, Writing \ {p}}
           /\ UNCHANGED <<Trial, rows, named>>
  <1>1. /\ Pids' = Pids /\ procs'[p].state = "dead"
        /\ \A r \in Pids : /\ procs'[r].trial = procs[r].trial
                           /\ procs'[r].participant = procs[r].participant
                           /\ procs'[r].parent = procs[r].parent
                           /\ r # p => procs'[r] = procs[r]
    BY BecomeFacts DEF States
  <1>2. Opened' = Opened
    BY <1>1, OpenedKept
  <1>3. Live' = Live \ {p} /\ p \in Live /\ Live \subseteq Pids
    BY <1>1 DEF Live, Alive
  <1>4. Strays' = Strays \ {p}
    BY <1>1 DEF Strays
  <1>5. Own' \subseteq Own \ {p} /\ (killed' = killed => Own' = Own \ {p})
    BY <1>1, <1>3 DEF Own
  <1>6. Writing' \in {Writing, Writing \ {p}} /\ p \in Writing
    BY <1>3 DEF Writing
  <1> QED
    BY <1>2, <1>4, <1>5, <1>6 DEF Trial

LEMMA EndStep ==
    ASSUME TypeOK, NEW p \in Pids, Terminate(p) \/ Crash(p)
    PROVE  p \in Writing /\ Service!End(p)
  <1>1. Alive(p) /\ Become(p, "dead") /\ UNCHANGED <<listener, killed, inserting, rows, named>>
    BY DEF Terminate, Crash, database, history
  <1>2. /\ Opened' = Opened /\ Strays' = Strays \ {p} /\ p \in Writing
        /\ Own' = Own \ {p} /\ Writing' \in {Writing, Writing \ {p}}
        /\ UNCHANGED <<Trial, rows, named>>
    BY <1>1, LeaveFacts
  <1> QED
    BY <1>2 DEF Service!End, Service!Leave, Opened, Writing, Trial

LEMMA CloseStrayStep ==
    ASSUME TypeOK, NEW p \in Pids, StrayStops(p)
    PROVE  p \in Strays /\ Service!CloseStray(p)
  <1>1. /\ Alive(p) /\ Become(p, "dead") /\ p \in Strays /\ killed \subseteq killed'
        /\ UNCHANGED <<listener, inserting, rows, named>>
    BY StrayFacts DEF database, history
  <1>2. /\ Opened' = Opened /\ Strays' = Strays \ {p}
        /\ Own' \subseteq Own \ {p} /\ Writing' \in {Writing, Writing \ {p}}
        /\ UNCHANGED <<Trial, rows, named>>
    BY <1>1, LeaveFacts
  <1> QED
    BY <1>1, <1>2 DEF Service!CloseStray, Service!Leave, Opened, Writing, Trial

\* A stop the Manager takes closes every current session: they are all in its vector.
LEMMA CloseAllStep == ASSUME ManagerInv, OnStop PROVE Service!CloseAll
  <1>0. TypeOK /\ Own \subseteq listener[Manager].sessions /\ Manager \in Handlers
    BY OwnFacts DEF ManagerInv, Tracked, Handlers
  <1>1. /\ UNCHANGED <<procs, inserting, rows>>
        /\ named' = [q \in Participants |-> 0]
        /\ killed' = killed \cup Signalled(Manager)
        /\ listener' = [listener EXCEPT ![Manager].sessions = {}]
    BY DEF OnStop, database
  <1>2. /\ Pids' = Pids /\ Live' = Live /\ Opened' = Opened /\ Writing' = Writing
        /\ Strays' = Strays
    BY <1>1 DEF Pids, Live, Alive, Opened, Writing, Strays
  <1>3. listener[Manager].sessions \cap Live \subseteq Signalled(Manager)
    <2>1. Manager \notin Live
      BY <1>0, ThreadsType DEF Live
    <2> QED
      BY <2>1 DEF Signalled
  <1>4. Own' = {}
    BY <1>0, <1>1, <1>2, <1>3 DEF Own
  <1>5. Trial' = Trial
    BY <1>0, <1>1, ThreadsType DEF Trial, Thread
  <1> QED
    BY <1>1, <1>2, <1>4, <1>5 DEF Service!CloseAll, Opened, Writing, Trial

\* What the server makes of an INSERT.
LEMMA CommitStep ==
    ASSUME TypeOK, NEW r \in inserting, CommitInsert(r)
    PROVE  \/ r.session \in Writing /\ Service!Write(r.session)
           \/ r.session \in Writing /\ Service!End(r.session)
           \/ UNCHANGED Seen
  <1> DEFINE n == r.session
  <1>1. /\ UNCHANGED <<listener, procs, killed, named>>
        /\ inserting' = inserting \ {r} /\ rows' \in {rows, rows \cup {r}}
    BY DEF CommitInsert, history
  <1>2. /\ UNCHANGED <<Opened, Own, Strays, Live, Trial>>
    BY <1>1 DEF Opened, Own, Strays, Live, Pids, Alive, Trial
  <1>3. n \in Writing /\ Writing' \in {Writing, Writing \ {n}}
    BY <1>1, <1>2 DEF Writing
  <1>4. CASE rows' = rows \cup {r}
    <2>1. r = [session |-> n, tagged |-> r.tagged] /\ r.tagged \in BOOLEAN
      BY DEF TypeOK, Row
    <2>2. \E tag \in BOOLEAN : rows' = rows \cup {[session |-> n, tagged |-> tag]}
      BY <1>4, <2>1
    <2> HIDE DEF n
    <2>3. Service!Write(n)
      BY <1>1, <1>2, <1>3, <2>2 DEF Service!Write, Opened, Writing, Trial
    <2> QED
      BY <1>3, <2>3 DEF n
  <1>5. CASE rows' = rows /\ Writing' = Writing
    BY <1>1, <1>2, <1>5 DEF Seen
  <1>6. CASE rows' = rows /\ Writing' # Writing
    <2>1. n \notin Live /\ Writing' = Writing \ {n}
      BY <1>2, <1>3, <1>6 DEF Writing
    <2>2. n \notin Own /\ n \notin Strays
      BY <2>1 DEF Own, Strays, Live, Alive
    <2>3. Own' = Own \ {n} /\ Strays' = Strays \ {n}
      BY <1>2, <2>2
    <2> HIDE DEF n
    <2>4. Service!End(n)
      BY <1>1, <1>2, <1>6, <2>1, <2>3
         DEF Service!End, Service!Leave, Opened, Writing, Trial
    <2> QED
      BY <1>3, <2>4 DEF n
  <1> QED
    BY <1>1, <1>4, <1>5, <1>6

LEMMA SessionService ==
    ASSUME TypeOK, NEW p \in Pids, SessionStep(p)
    PROVE  \/ p \in Writing /\ (Service!End(p) \/ Service!GoAstray(p))
           \/ p \in Strays /\ Service!CloseStray(p)
           \/ UNCHANGED Seen
  <1>1. CASE Terminate(p) \/ Crash(p)
    BY <1>1, EndStep
  <1>2. CASE StrayStops(p)
    BY <1>2, CloseStrayStep
  <1>3. CASE SendInsert(p)
    <2>1. /\ UNCHANGED <<listener, killed, rows, named>> /\ p \in Live
          /\ inserting' = inserting \cup {[session |-> p, tagged |-> procs[p].tagged]}
      BY <1>3 DEF SendInsert, history, Live, Alive
    <2>2. /\ Pids' = Pids
          /\ \A k \in Pids : /\ procs'[k].trial = procs[k].trial
                             /\ procs'[k].participant = procs[k].participant
                             /\ procs'[k].parent = procs[k].parent
                             /\ procs'[k].state = procs[k].state
      BY <1>3, TaggedFacts DEF SendInsert
    <2>3. Live' = Live /\ Strays' = Strays /\ Live \subseteq Pids
      BY <2>2 DEF Live, Alive, Strays
    <2>4. Own' = Own
      BY <2>1, <2>2, <2>3 DEF Own
    <2>5. Writing' = Writing
      BY <2>1, <2>3 DEF Writing
    <2> QED
      BY <2>1, <2>2, <2>3, <2>4, <2>5, OpenedKept DEF Seen, Trial
  <1>4. CASE Run(p) \/ SmileReturns(p)
    <2>1. /\ UNCHANGED <<listener, killed, inserting, rows, named>> /\ Alive(p)
          /\ p \notin Strays
      BY <1>4 DEF Run, SmileReturns, Alive, Strays, database, history
    <2>2. CASE Run(p)
      <3>1. Become(p, "running")
        BY <2>2 DEF Run
      <3>2. /\ Pids' = Pids /\ procs'[p].state = "running"
            /\ \A r \in Pids : /\ procs'[r].trial = procs[r].trial
                               /\ procs'[r].participant = procs[r].participant
                               /\ procs'[r].parent = procs[r].parent
                               /\ r # p => procs'[r] = procs[r]
        BY <3>1, BecomeFacts DEF States
      <3>3. Live' = Live /\ Strays' = Strays /\ Live \subseteq Pids
        BY <2>1, <3>2 DEF Live, Alive, Strays
      <3>4. Own' = Own /\ Writing' = Writing
        BY <2>1, <3>2, <3>3 DEF Own, Writing
      <3> QED
        BY <2>1, <3>2, <3>3, <3>4, OpenedKept DEF Seen, Trial
    <2>3. CASE SmileReturns(p)
      <3>1. Become(p, "stray")
        BY <2>3 DEF SmileReturns
      <3>2. /\ Pids' = Pids /\ procs'[p].state = "stray"
            /\ \A r \in Pids : /\ procs'[r].trial = procs[r].trial
                               /\ procs'[r].participant = procs[r].participant
                               /\ procs'[r].parent = procs[r].parent
                               /\ r # p => procs'[r] = procs[r]
        BY <3>1, BecomeFacts DEF States
      <3>3. Live' = Live /\ Strays' = Strays \cup {p} /\ Live \subseteq Pids
        BY <2>1, <3>2 DEF Live, Alive, Strays
      <3>4. Own' = Own /\ Writing' = Writing /\ p \in Writing
        BY <2>1, <3>2, <3>3 DEF Own, Writing, Live
      <3>5. Opened' = Opened /\ Trial' = Trial
        BY <2>1, <3>2, OpenedKept DEF Trial
      <3>6. Service!GoAstray(p)
        BY <2>1, <3>3, <3>4, <3>5 DEF Service!GoAstray, Opened, Writing, Trial
      <3> QED
        BY <3>4, <3>6
    <2> QED
      BY <1>4, <2>2, <2>3
  <1> QED
    BY <1>1, <1>2, <1>3, <1>4 DEF SessionStep

\* The messages of on_message, as the Manager or a stray handles them.
LEMMA MessageService ==
    ASSUME ManagerInv, NEW h \in Handlers,
           OnStart(h) \/ ClearTrial(h) \/ InitializeParticipantsDone(h)
    PROVE  (\E t \in Trials : Service!Begin(t) \/ Service!Clear(t)) \/ UNCHANGED Seen
  <1>0. TypeOK /\ listener[h] \in Thread /\ h \in {Manager} \cup Pids
    BY ThreadsType DEF ManagerInv
  <1>1. CASE OnStart(h)
    <2>1. PICK l \in Thread :
              listener' = [listener EXCEPT ![h] = l] /\ l.trial = Head(inbox).trial
      BY <1>0, <1>1, StartFacts
    <2>2. /\ listener'[h] = l
          /\ h # Manager => listener'[Manager] = listener[Manager]
          /\ UNCHANGED <<procs, killed, inserting, rows>>
      BY <1>0, <1>1, <2>1, ThreadFacts DEF OnStart, database
    <2>3. CASE h # Manager
      BY <1>1, <2>2, <2>3, UnseenSteps DEF Trial, OnStart
    <2>4. CASE h = Manager
      <3>1. TypeOK'
        BY <1>1, OnStartInv DEF ManagerInv
      <3>2. \A q \in Participants : named[q] \in Nat /\ named'[q] >= named[q]
        <4>1. ASSUME NEW q \in Participants
              PROVE  named[q] \in Nat /\ named'[q] >= named[q]
          <5>1. Head(inbox).players \in Seq(Participants)
            BY <1>0, <1>1, InboxFacts DEF OnStart, Receive
          <5>2. Len(Head(inbox).players) \in Nat
            BY <5>1, LenProperties
          <5>3. IsFiniteSet(1..Len(Head(inbox).players))
            BY <5>2, FS_Interval
          <5>4. IsFiniteSet(Mentions(Head(inbox).players, q))
            BY <5>3, FS_Subset DEF Mentions
          <5>5. Cardinality(Mentions(Head(inbox).players, q)) \in Nat
            BY <5>4, FS_CardinalityType
          <5>6. named'[q] = named[q] + Cardinality(Mentions(Head(inbox).players, q))
            BY <1>1, <2>4 DEF OnStart
          <5> QED
            BY <1>0, <5>5, <5>6 DEF TypeOK
        <4> QED
          BY <4>1
      <3>3. named' \in [Participants -> Nat]
        BY <3>1 DEF TypeOK
      <3>4. PICK t \in Trials : Trial' = t
        <4>1. l.trial \in Trials
          BY DEF Thread
        <4>2. Trial' = l.trial
          BY <2>2, <2>4 DEF Trial
        <4> QED
          BY <4>1, <4>2
      <3>5. UNCHANGED <<Opened, Own, Writing, Strays, rows>>
        BY <2>2 DEF Opened, Own, Writing, Strays, Live, Pids, Alive
      <3>6. Service!Begin(t)
        BY <3>2, <3>3, <3>4, <3>5 DEF Service!Begin, Opened, Writing, Trial
      <3> QED
        BY <3>6
    <2> QED
      BY <2>3, <2>4
  <1>2. CASE ClearTrial(h)
    <2>1. PICK t \in Trials : t = listener[h].trial
      BY <1>0 DEF Thread
    <2>2. /\ UNCHANGED <<procs, killed, inserting, named>>
          /\ rows' = rows \/ rows' = RowsKept(t)
          /\ listener' = [listener EXCEPT ![h].pc = "fork"]
      BY <1>2, <2>1 DEF ClearTrial
    <2>3. Trial' = Trial
      BY <1>0, <2>2, ThreadsType DEF Trial, Thread
    <2>4. UNCHANGED <<Opened, Own, Writing, Strays>>
      BY <2>2 DEF Opened, Own, Writing, Strays, Live, Pids, Alive
    <2>5. CASE rows' = rows
      BY <2>2, <2>3, <2>5, UnseenSteps
    <2>6. CASE rows' = RowsKept(t)
      <3>1. t = Trial \/ Strays # {}
        BY <2>1 DEF Trial, Handlers
      <3>2. \A r \in rows : procs[r.session].trial = Opened[r.session].trial
        BY <1>0, OpenedFacts DEF TypeOK
      <3>3. rows' = {r \in rows : r.tagged => Opened[r.session].trial # t}
        BY <2>6, <3>2 DEF RowsKept
      <3>4. Service!Clear(t)
        BY <2>2, <2>3, <2>4, <3>1, <3>3 DEF Service!Clear, Opened, Writing, Trial
      <3> QED
        BY <3>4
    <2> QED
      BY <2>2, <2>5, <2>6
  <1>3. CASE InitializeParticipantsDone(h)
    <2>1. /\ listener' = [listener EXCEPT
                              ![h] = Idle(listener[h].trial, listener[h].sessions)]
          /\ UNCHANGED <<procs, killed, inserting, rows, named>>
      BY <1>3 DEF InitializeParticipantsDone, database, history
    <2>2. Trial' = Trial
      BY <1>0, <2>1, ThreadsType DEF Trial, Idle
    <2> QED
      BY <2>1, <2>2, UnseenSteps
  <1> QED
    BY <1>1, <1>2, <1>3

\* The rounds of the loop of InitializeParticipants.
LEMMA RoundService ==
    ASSUME ManagerInv, NEW h \in Handlers, InitializeParticipant(h)
    PROVE  \/ \E q \in Participants : Service!Open(q)
           \/ \E p \in Strays, s \in Session : Service!OpenStray(s)
           \/ UNCHANGED Seen
  <1>0. TypeOK /\ listener[h] \in Thread
    BY ThreadsType DEF ManagerInv
  <1>1. /\ Forks(h) \/ ForkFails(h)
        /\ listener[h].i \in 1..Len(listener[h].players)
        /\ UNCHANGED <<killed, inserting, rows, named>>
    BY <1>0, RoundCases
  <1>2. CASE Forks(h) /\ h = Manager
    <2>1. Named(h) \in Participants
      BY <1>0, <1>1, ElementOfSeq DEF Named, Thread
    <2> QED
      BY <1>2, <2>1, OpenStep
  <1>3. CASE Forks(h) /\ h \in Strays
    BY <1>3, OpenStrayStep
  <1>4. CASE ForkFails(h)
    <2>1. procs' = procs /\ listener' = [listener EXCEPT ![h] = Pushed(h, ForkFailed)]
      BY <1>4 DEF ForkFails
    <2>2. Pushed(h, ForkFailed).trial = listener[h].trial
      BY <1>0 DEF Pushed, PushBack, Advanced, Thread
    <2>3. Trial' = Trial
      BY <1>0, <2>1, <2>2, ThreadsType DEF Trial
    <2> QED
      BY <1>1, <2>1, <2>3, UnseenSteps
  <1> QED
    BY <1>1, <1>2, <1>3, <1>4 DEF Handlers

LEMMA StepService == ManagerInv /\ [Next]_vars => [Service!Next]_Seen
  <1> SUFFICES ASSUME ManagerInv, [Next]_vars
               PROVE  Service!Next \/ UNCHANGED Seen
    OBVIOUS
  <1>0. TypeOK
    BY DEF ManagerInv
  <1>1. CASE UNCHANGED vars \/ Lose \/ \E m \in Start \cup Stop : Send(m)
    <2>1. UNCHANGED <<listener, procs, killed, inserting, rows, named>>
      BY <1>1 DEF vars, database, history, Lose, Send
    <2> QED
      BY <2>1, UnseenSteps DEF Trial
  <1>2. ASSUME NEW h \in Handlers,
               OnStart(h) \/ ClearTrial(h) \/ InitializeParticipantsDone(h)
        PROVE  Service!Next \/ UNCHANGED Seen
    BY <1>2, MessageService DEF Service!Next
  <1>3. ASSUME NEW h \in Handlers, InitializeParticipant(h)
        PROVE  Service!Next \/ UNCHANGED Seen
    BY <1>3, RoundService DEF Service!Next, Service!Session, Session
  <1>4. CASE OnStop
    BY <1>4, CloseAllStep DEF Service!Next
  <1>5. ASSUME NEW p \in Pids, SessionStep(p)
        PROVE  Service!Next \/ UNCHANGED Seen
    BY <1>0, <1>5, SessionService DEF Service!Next, Writing
  <1>6. ASSUME NEW r \in inserting, CommitInsert(r)
        PROVE  Service!Next \/ UNCHANGED Seen
    BY <1>0, <1>6, CommitStep DEF Service!Next, Writing
  <1> QED
    BY <1>1, <1>2, <1>3, <1>4, <1>5, <1>6 DEF Next, SessionStep

\* The listener, its copies in the strays, the forks, the signals and the process
\* table amount to TrialSessions: what the Manager opens it closes at once, and what it
\* does not promise is what strays and late INSERTs do (Manager.cpp:40-84,
\* OpensmileSession.cpp:36-66).
THEOREM ServiceRefinement == Spec => ImplementsService
  <1>1. [Service!Next]_Seen
            <=> [Service!Next]_<<listener[Manager].trial,
                                 [p \in Pids |-> [trial       |-> procs[p].trial,
                                                  participant |-> procs[p].participant]],
                                 Own, Live \cup {r.session : r \in inserting}, Strays,
                                 rows, named>>
    BY DEF Seen, Trial, Opened, Writing
  <1> QED
    BY <1>1, InitService, StepService, ManagerInvariant, PTL
       DEF Spec, ImplementsService, Service!Spec, Service!vars
=============================================================================
