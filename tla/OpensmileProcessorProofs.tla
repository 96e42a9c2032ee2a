----------------------- MODULE OpensmileProcessorProofs -----------------------
(***************************************************************************)
(* Proofs about the log parser, for any set of fields, any number of       *)
(* frames and any number of lines that only mention lld.                   *)
(***************************************************************************)
EXTENDS OpensmileProcessor, SequenceTheorems, TLAPS

\* The latest frame whose "tmeta:" line was printed.
Headed == IF next \in {"lld", "tmeta:"} THEN frame - 1 ELSE frame

SinkInv ==
    /\ next = "lld" => left # {}
    /\ next \in {"tmeta:", "time"} => left = {}
    /\ next = "end" => left = Fields
    /\ next = "tmeta:" => ~tmeta
    /\ next = "lld" /\ left # Fields => ~tmeta
    /\ next \in {"time", "end"} /\ ~tmeta => mentions > 0
    /\ nanFrames \subseteq 1..frame

\* Every headed frame is published, but the one the flag stands for.
CountInv == Len(statements) = IF tmeta THEN Headed - 1 ELSE Headed

\* What the object holds, line by line.
ObjectInv ==
    /\ \A f \in Fields :
           opensmile_message.lld[f] =
               IF next = "lld" /\ f \in left THEN frame - 1 ELSE frame
    /\ opensmile_message.junk <=> mentions > 0
    /\ ~opensmile_message.junk =>
           opensmile_message.time = IF next = "end" THEN frame ELSE frame - 1
    /\ opensmile_message.tagged <=> Len(statements) > 0

NanInv ==
    /\ next = "lld" => (opensmile_message.nan \ left # {} <=> frame \in nanFrames)
    /\ next = "lld" /\ left = Fields =>
           (opensmile_message.nan # {} <=> frame - 1 \in nanFrames)
    /\ next # "lld" => (opensmile_message.nan # {} <=> frame \in nanFrames)

LogInv == TypeOK /\ SinkInv /\ CountInv /\ ObjectInv /\ NanInv

-----------------------------------------------------------------------------
(* What a line with lld in it does to the statements and the object *)

LEMMA StatementsType ==
    ASSUME TypeOK
    PROVE  /\ Len(statements) \in Nat
           /\ \A i \in 1..Len(statements) : statements[i] \in Message
  BY LenProperties, ElementOfSeq DEF TypeOK

LEMMA PublishFacts ==
    ASSUME LogInv, PublishChunk
    PROVE  /\ statements' \in Seq(Message)
           /\ Len(statements') = Headed
           /\ \A i \in 1..Len(statements) : statements'[i] = statements[i]
           /\ ~tmeta => statements' = statements
           /\ tmeta => /\ Headed = Len(statements) + 1
                       /\ statements'[Headed] = opensmile_message
  <1> USE DEF LogInv
  <1>1. Len(statements) \in Nat /\ Headed \in Int
    BY StatementsType DEF TypeOK, Headed
  <1>2. CASE tmeta
    <2>1. statements' = Append(statements, opensmile_message)
      BY <1>2 DEF PublishChunk
    <2>2. opensmile_message \in Message /\ statements \in Seq(Message)
      BY DEF TypeOK
    <2>3. Headed = Len(statements) + 1
      BY <1>1, <1>2 DEF CountInv
    <2> QED
      BY <1>2, <2>1, <2>2, <2>3, AppendProperties
  <1>3. CASE ~tmeta
    BY <1>1, <1>3 DEF PublishChunk, CountInv, TypeOK
  <1> QED
    BY <1>2, <1>3 DEF TypeOK

LEMMA PublishedFacts ==
    ASSUME LogInv
    PROVE  /\ Published \in Message
           /\ Published.lld = opensmile_message.lld
           /\ Published.nan = opensmile_message.nan
           /\ Published.junk = opensmile_message.junk
           /\ Published.time = opensmile_message.time
           /\ Published.tagged <=> Headed > 0
  <1> USE DEF LogInv
  <1>1. opensmile_message \in Message /\ Len(statements) \in Nat /\ Headed \in Int
    BY StatementsType DEF TypeOK, Headed
  <1>2. CASE tmeta
    <2>1. Published = [opensmile_message EXCEPT !.tagged = TRUE]
      BY <1>2 DEF Published
    <2>2. Headed > 0
      BY <1>1, <1>2 DEF CountInv
    <2> QED
      BY <1>1, <2>1, <2>2 DEF Message
  <1>3. CASE ~tmeta
    BY <1>1, <1>3 DEF Published, CountInv, ObjectInv
  <1> QED
    BY <1>2, <1>3 DEF TypeOK

-----------------------------------------------------------------------------
(* The invariant *)

LEMMA InitLogInv == Init => LogInv
  <1> SUFFICES ASSUME Init PROVE LogInv
    OBVIOUS
  <1>1. EmptyMessage \in Message
    BY LogAssumption DEF EmptyMessage, Message
  <1>2. TypeOK
    <2>1. statements \in Seq(Message)
      BY EmptySeq DEF Init
    <2>2. 1 \in 1..MaxFrames /\ 0 \in 0..MaxMentions
      BY LogAssumption
    <2> QED
      BY <1>1, <2>1, <2>2 DEF Init, TypeOK
  <1>3. SinkInv /\ CountInv
    BY LogAssumption, EmptySeq DEF Init, SinkInv, CountInv, Headed
  <1>4. ObjectInv /\ NanInv
    BY LogAssumption, EmptySeq DEF Init, ObjectInv, NanInv, EmptyMessage
  <1> QED
    BY <1>2, <1>3, <1>4 DEF LogInv

LEMMA LldLineLogInv ==
    ASSUME LogInv, NEW f \in Fields, NEW isNumber \in BOOLEAN, LldLine(f, isNumber)
    PROVE  LogInv'
  <1> USE DEF LogInv
  <1>1. /\ frame \in 1..MaxFrames /\ frame' = frame /\ MaxFrames \in Nat
        /\ mentions' = mentions /\ mentions \in Nat
        /\ next = "lld" /\ f \in left /\ left \subseteq Fields /\ tmeta' = FALSE
        /\ left' = left \ {f}
        /\ next' = IF left = {f} THEN "tmeta:" ELSE "lld"
        /\ nanFrames' = IF isNumber THEN nanFrames ELSE nanFrames \cup {frame}
        /\ Headed = frame - 1 /\ Headed' = frame - 1
    BY LogAssumption DEF LldLine, FlagDown, NotNumbers, TypeOK, Headed
  <1>2. /\ opensmile_message' \in Message
        /\ opensmile_message'.lld = [Published.lld EXCEPT ![f] = frame]
        /\ opensmile_message'.nan =
               IF isNumber THEN Published.nan \ {f} ELSE Published.nan \cup {f}
        /\ opensmile_message'.junk = Published.junk
        /\ opensmile_message'.time = Published.time
        /\ opensmile_message'.tagged = Published.tagged
    <2>1. opensmile_message' =
              [Published EXCEPT !.lld = [Published.lld EXCEPT ![f] = frame],
                                !.nan = IF isNumber THEN Published.nan \ {f}
                                                    ELSE Published.nan \cup {f}]
      BY DEF LldLine, FlagDown, NotNumbers
    <2>2. Published \in Message /\ frame \in 0..MaxFrames
      BY <1>1, PublishedFacts
    <2>3. [Published.lld EXCEPT ![f] = frame] \in [Fields -> 0..MaxFrames]
      BY <2>2 DEF Message
    <2> QED
      BY <2>1, <2>2, <2>3 DEF Message
  <1>3. statements' \in Seq(Message) /\ Len(statements') = Headed
    BY PublishFacts DEF LldLine, FlagDown, NotNumbers
  <1>4. TypeOK'
    BY <1>1, <1>2, <1>3 DEF TypeOK
  <1>5. SinkInv'
    BY <1>1 DEF SinkInv
  <1>6. CountInv'
    BY <1>1, <1>3 DEF CountInv
  <1>7. ObjectInv'
    <2>1. opensmile_message.lld \in [Fields -> 0..MaxFrames]
      BY DEF TypeOK, Message
    <2>2. \A g \in Fields :
              opensmile_message'.lld[g] =
                  IF next' = "lld" /\ g \in left' THEN frame' - 1 ELSE frame'
      BY <1>1, <1>2, <2>1, PublishedFacts DEF ObjectInv
    <2> QED
      BY <1>1, <1>2, <1>3, <2>2, PublishedFacts DEF ObjectInv
  <1>8. NanInv'
    <2>1. opensmile_message'.nan = IF isNumber THEN opensmile_message.nan \ {f}
                                               ELSE opensmile_message.nan \cup {f}
      BY <1>2, PublishedFacts
    <2>2. opensmile_message.nan \ left # {} <=> frame \in nanFrames
      BY <1>1 DEF NanInv
    <2>3. opensmile_message'.nan \ left' # {} <=> frame \in nanFrames'
      BY <1>1, <2>1, <2>2
    <2>4. left' # Fields
      BY <1>1
    <2>5. left = {f} => left' = {}
      BY <1>1
    <2> QED
      BY <1>1, <2>3, <2>4, <2>5 DEF NanInv
  <1> QED
    BY <1>4, <1>5, <1>6, <1>7, <1>8

LEMMA TmetaLineLogInv == ASSUME LogInv, TmetaLine PROVE LogInv'
  <1> USE DEF LogInv
  <1>1. TypeOK'
    BY DEF TypeOK, TmetaLine
  <1>2. Len(statements) \in Nat /\ frame \in Nat
    BY StatementsType DEF TypeOK
  <1>3. SinkInv' /\ CountInv'
    BY <1>2 DEF TmetaLine, SinkInv, CountInv, Headed
  <1>4. ObjectInv' /\ NanInv'
    BY DEF TmetaLine, ObjectInv, NanInv
  <1> QED
    BY <1>1, <1>3, <1>4

LEMMA TimeLineLogInv == ASSUME LogInv, TimeLine PROVE LogInv'
  <1> USE DEF LogInv
  <1>1. /\ Len(statements) \in Nat /\ frame \in 1..MaxFrames /\ MaxFrames \in Nat
        /\ opensmile_message \in Message /\ mentions \in Nat /\ tmeta \in BOOLEAN
    BY StatementsType, LogAssumption DEF TypeOK
  <1>2. /\ opensmile_message' \in Message
        /\ opensmile_message'.lld = opensmile_message.lld
        /\ opensmile_message'.nan = opensmile_message.nan
        /\ opensmile_message'.junk = opensmile_message.junk
        /\ opensmile_message'.tagged = opensmile_message.tagged
        /\ opensmile_message'.time = IF tmeta THEN frame ELSE opensmile_message.time
    <2>1. CASE tmeta
      BY <1>1, <2>1 DEF TimeLine, Timed, Message
    <2>2. CASE ~tmeta
      BY <1>1, <2>2 DEF TimeLine, Timed
    <2> QED
      BY <2>1, <2>2
  <1>3. TypeOK'
    BY <1>1, <1>2 DEF TypeOK, TimeLine, Timed
  <1>4. SinkInv' /\ CountInv'
    BY <1>1, LogAssumption DEF TimeLine, Timed, SinkInv, CountInv, Headed
  \* Without the flag the time line is lost: only a mention takes the flag away.
  <1>5. ~tmeta => mentions > 0
    BY DEF TimeLine, Timed, SinkInv
  <1>6. ObjectInv'
    BY <1>1, <1>2, <1>5 DEF TimeLine, Timed, ObjectInv
  <1>7. NanInv'
    <2>1. /\ opensmile_message.nan # {} <=> frame \in nanFrames
          /\ opensmile_message.nan \ Fields = {}
          /\ frame + 1 \notin nanFrames
      BY <1>1 DEF TimeLine, Timed, NanInv, SinkInv, Message
    <2>2. CASE frame < MaxFrames
      BY <1>1, <1>2, <2>1, <2>2 DEF TimeLine, Timed, NanInv
    <2>3. CASE ~(frame < MaxFrames)
      BY <1>1, <1>2, <2>1, <2>3 DEF TimeLine, Timed, NanInv
    <2> QED
      BY <2>2, <2>3
  <1> QED
    BY <1>3, <1>4, <1>6, <1>7

LEMMA MentionLineLogInv == ASSUME LogInv, MentionLine PROVE LogInv'
  <1> USE DEF LogInv
  <1>1. /\ Len(statements) \in Nat /\ frame \in 1..MaxFrames /\ MaxFrames \in Nat
        /\ mentions \in Nat /\ mentions' = mentions + 1
        /\ next # "end" /\ tmeta' = FALSE /\ Headed' = Headed
    BY StatementsType, LogAssumption DEF TypeOK, MentionLine, FlagDown, Headed
  <1>2. /\ opensmile_message' \in Message
        /\ opensmile_message'.lld = opensmile_message.lld
        /\ opensmile_message'.nan = opensmile_message.nan
        /\ opensmile_message'.junk = TRUE
        /\ opensmile_message'.time = opensmile_message.time
        /\ opensmile_message'.tagged <=> Headed > 0
    <2>1. opensmile_message' = [Published EXCEPT !.junk = TRUE]
      BY DEF MentionLine, FlagDown
    <2> QED
      BY <2>1, PublishedFacts DEF Message
  <1>3. statements' \in Seq(Message) /\ Len(statements') = Headed
    BY PublishFacts DEF MentionLine, FlagDown
  <1>4. TypeOK'
    <2>1. mentions' \in 0..MaxMentions
      BY LogAssumption DEF TypeOK, MentionLine, FlagDown
    <2> QED
      BY <1>2, <1>3, <2>1 DEF TypeOK, MentionLine, FlagDown
  <1>5. SinkInv'
    BY <1>1 DEF SinkInv, MentionLine, FlagDown
  <1>6. CountInv'
    BY <1>1, <1>3 DEF CountInv
  <1>7. ObjectInv'
    BY <1>1, <1>2, <1>3 DEF ObjectInv, MentionLine, FlagDown
  <1>8. NanInv'
    BY <1>2 DEF NanInv, MentionLine, FlagDown
  <1> QED
    BY <1>4, <1>5, <1>6, <1>7, <1>8

LEMMA NextLogInv == LogInv /\ [Next]_vars => LogInv'
  <1> SUFFICES ASSUME LogInv, [Next]_vars PROVE LogInv'
    OBVIOUS
  <1>1. CASE UNCHANGED vars
    BY <1>1 DEF vars, sink, LogInv, TypeOK, SinkInv, CountInv, ObjectInv, NanInv, Headed
  <1> QED
    BY <1>1, LldLineLogInv, TmetaLineLogInv, TimeLineLogInv, MentionLineLogInv DEF Next

LEMMA LogInvariant == Spec => []LogInv
  BY InitLogInv, NextLogInv, PTL DEF Spec

\* Every variable of the parser keeps its type.
THEOREM LogTypeCorrect == Spec => []TypeOK
  <1>1. LogInv => TypeOK
    BY DEF LogInv
  <1> QED
    BY <1>1, LogInvariant, PTL

\* The statements lag the printed frames by one at most, and never lead.
THEOREM LagBound == Spec => []LagsByOne
  <1>1. LogInv => LagsByOne
    BY StatementsType DEF LogInv, TypeOK, SinkInv, CountInv, Headed, LagsByOne, Printed
  <1> QED
    BY <1>1, LogInvariant, PTL

-----------------------------------------------------------------------------
(* What the statements carry *)

\* A step appends at most one statement, to the statements it leaves alone,
\* and what it appends is the object as it stood before the step.
LEMMA StatementsStep ==
    ASSUME LogInv, [Next]_vars
    PROVE  \/ statements' = statements
           \/ /\ tmeta
              /\ Headed = Len(statements) + 1
              /\ Len(statements') = Headed
              /\ \A i \in 1..Len(statements) : statements'[i] = statements[i]
              /\ statements'[Headed] = opensmile_message
              /\ \/ \E f \in Fields, isNumber \in BOOLEAN : LldLine(f, isNumber)
                 \/ MentionLine
  <1>1. ASSUME PublishChunk
        PROVE  \/ statements' = statements
               \/ /\ tmeta
                  /\ Headed = Len(statements) + 1
                  /\ Len(statements') = Headed
                  /\ \A i \in 1..Len(statements) : statements'[i] = statements[i]
                  /\ statements'[Headed] = opensmile_message
    BY <1>1, PublishFacts
  <1>2. ASSUME NEW f \in Fields, NEW isNumber \in BOOLEAN, LldLine(f, isNumber)
        PROVE  PublishChunk
    BY <1>2 DEF LldLine, FlagDown, NotNumbers
  <1>3. CASE MentionLine
    BY <1>1, <1>3 DEF MentionLine, FlagDown
  <1>4. CASE TmetaLine \/ TimeLine \/ UNCHANGED vars
    BY <1>4 DEF TmetaLine, TimeLine, Timed, vars
  <1> QED
    BY <1>1, <1>2, <1>3, <1>4 DEF Next

\* While the flag is up the object holds one whole frame, the headed one.
LEMMA FlaggedObject ==
    ASSUME LogInv, tmeta
    PROVE  opensmile_message.lld = [f \in Fields |-> Headed]
  <1>1. \A f \in Fields : opensmile_message.lld[f] = Headed
    BY DEF LogInv, SinkInv, ObjectInv, Headed
  <1>2. opensmile_message.lld \in [Fields -> 0..MaxFrames]
    BY DEF LogInv, TypeOK, Message
  <1> QED
    BY <1>1, <1>2

\* The i-th INSERT of a session carries frame i, whole and alone.
THEOREM WholeFrames == Spec => []OneStatementPerFrame
  <1>1. Init => OneStatementPerFrame
    BY EmptySeq DEF Init, OneStatementPerFrame
  <1>2. LogInv /\ OneStatementPerFrame /\ [Next]_vars => OneStatementPerFrame'
    <2> SUFFICES ASSUME LogInv, OneStatementPerFrame, [Next]_vars,
                        NEW i \in 1..Len(statements')
                 PROVE  statements'[i].lld = [f \in Fields |-> i]
      BY DEF OneStatementPerFrame
    <2>1. Len(statements) \in Nat
      BY StatementsType DEF LogInv
    <2>2. CASE i \in 1..Len(statements)
      BY <2>2, StatementsStep DEF OneStatementPerFrame
    <2>3. CASE i \notin 1..Len(statements)
      BY <2>1, <2>3, StatementsStep, FlaggedObject
    <2> QED
      BY <2>2, <2>3
  <1> QED
    BY <1>1, <1>2, LogInvariant, PTL DEF Spec

\* The first INSERT of every session lacks the ids, and only the first.
THEOREM FirstUntagged == Spec => []OnlyFirstUntagged
  <1>1. Init => OnlyFirstUntagged
    BY EmptySeq DEF Init, OnlyFirstUntagged
  <1>2. LogInv /\ OnlyFirstUntagged /\ [Next]_vars => OnlyFirstUntagged'
    <2> SUFFICES ASSUME LogInv, OnlyFirstUntagged, [Next]_vars,
                        NEW i \in 1..Len(statements')
                 PROVE  statements'[i].tagged <=> i > 1
      BY DEF OnlyFirstUntagged
    <2>1. Len(statements) \in Nat
      BY StatementsType DEF LogInv
    <2>2. CASE i \in 1..Len(statements)
      BY <2>2, StatementsStep DEF OnlyFirstUntagged
    <2>3. CASE i \notin 1..Len(statements)
      BY <2>1, <2>3, StatementsStep DEF LogInv, ObjectInv
    <2> QED
      BY <2>2, <2>3
  <1> QED
    BY <1>1, <1>2, LogInvariant, PTL DEF Spec

\* A value that is not a number loses the row of its own frame and no other.
THEOREM NanLosesOneRow == Spec => []NanCostsOwnRow
  <1>1. Init => NanCostsOwnRow
    BY EmptySeq DEF Init, NanCostsOwnRow
  <1>2. LogInv /\ NanCostsOwnRow /\ [Next]_vars => NanCostsOwnRow'
    <2> SUFFICES ASSUME LogInv, NanCostsOwnRow, [Next]_vars,
                        NEW i \in 1..Len(statements')
                 PROVE  ~Accepted(statements'[i]) <=>
                            i \in nanFrames' \/ statements'[i].junk
      BY DEF NanCostsOwnRow, Stored, Accepted
    <2> USE DEF LogInv
    <2>1. /\ Len(statements) \in Nat /\ frame \in Nat
          /\ Len(statements) <= Headed /\ Headed \in Int
      BY StatementsType DEF TypeOK, CountInv, Headed
    \* Only the frame being printed, which is not published yet, can join
    \* nanFrames.
    <2>2. \A k \in 1..Headed : k \in nanFrames' <=> k \in nanFrames
      <3>1. ASSUME NEW f \in Fields, NEW isNumber \in BOOLEAN, LldLine(f, isNumber)
            PROVE  \A k \in 1..Headed : k \in nanFrames' <=> k \in nanFrames
        BY <2>1, <3>1 DEF LldLine, FlagDown, NotNumbers, Headed
      <3>2. CASE TmetaLine \/ TimeLine \/ MentionLine \/ UNCHANGED vars
        BY <3>2 DEF TmetaLine, TimeLine, Timed, MentionLine, FlagDown, vars, sink
      <3> QED
        BY <3>1, <3>2 DEF Next
    <2>3. CASE i \in 1..Len(statements)
      <3>1. statements'[i] = statements[i]
        BY <2>3, StatementsStep
      <3> QED
        BY <2>1, <2>2, <2>3, <3>1 DEF NanCostsOwnRow, Stored, Accepted
    <2>4. CASE i \notin 1..Len(statements)
      <3>1. /\ tmeta /\ i = Headed /\ statements'[i] = opensmile_message
            /\ next # "tmeta:"
        BY <2>1, <2>4, StatementsStep DEF SinkInv
      <3>2. opensmile_message.nan # {} <=> Headed \in nanFrames
        BY <3>1 DEF SinkInv, NanInv, Headed
      <3> QED
        BY <2>1, <2>2, <3>1, <3>2 DEF Accepted
    <2> QED
      BY <2>3, <2>4
  <1> QED
    BY <1>1, <1>2, LogInvariant, PTL DEF Spec

\* After a line that only mentions lld, no statement is accepted any more.
LEMMA NothingStoredAfterMention ==
    ASSUME LogInv, [Next]_vars, mentions > 0
    PROVE  Stored' = Stored
  <1> USE DEF LogInv
  <1>1. Len(statements) \in Nat
    BY StatementsType
  <1>2. CASE statements' = statements
    BY <1>2 DEF Stored
  <1>3. CASE statements' # statements
    <2>1. /\ Len(statements') = Len(statements) + 1
          /\ \A i \in 1..Len(statements) : statements'[i] = statements[i]
          /\ ~Accepted(statements'[Len(statements) + 1])
      BY <1>3, StatementsStep DEF ObjectInv, Accepted
    <2> QED
      BY <1>1, <2>1 DEF Stored
  <1> QED
    BY <1>2, <1>3

\* One line that mentions lld silently ends what the session stores.
THEOREM StorageEnds == Spec => MentionEndsStorage
  <1>1. LogInv /\ [Next]_vars => [mentions > 0 => Stored' = Stored]_vars
    BY NothingStoredAfterMention
  <1> QED
    BY <1>1, LogInvariant, PTL DEF Spec, MentionEndsStorage

\* A stored row carries the time of its own frame, save the last row stored
\* before a mention ended the storage.
THEOREM RowTimes == Spec => []TimesMatch
  <1> DEFINE AllExact == mentions = 0 => \A i \in Stored : statements[i].time = i
  <1>1. Init => TimesMatch /\ AllExact
    BY EmptySeq DEF Init, TimesMatch, Stored
  <1>2. LogInv /\ LogInv' /\ TimesMatch /\ AllExact /\ [Next]_vars
            => TimesMatch' /\ AllExact'
    <2> SUFFICES ASSUME LogInv, LogInv', TimesMatch, AllExact, [Next]_vars
                 PROVE  TimesMatch' /\ AllExact'
      OBVIOUS
    <2> USE DEF LogInv
    <2>1. /\ Len(statements) \in Nat /\ frame \in Nat /\ Headed \in Int
          /\ mentions \in Nat /\ mentions' \in Nat /\ mentions' >= mentions
      <3>1. mentions \in Nat /\ mentions' \in Nat /\ frame \in Nat
        BY LogAssumption DEF TypeOK
      <3>2. mentions' = mentions \/ mentions' = mentions + 1
        BY DEF Next, LldLine, FlagDown, NotNumbers, TmetaLine, TimeLine, Timed, MentionLine, FlagDown, vars, sink
      <3> QED
        BY <3>1, <3>2, StatementsType DEF Headed
    <2>2. \A i \in Stored : i \in 1..Len(statements) /\ statements'[i] = statements[i]
      BY StatementsStep DEF Stored
    <2>3. CASE Stored' = Stored
      BY <2>1, <2>2, <2>3 DEF TimesMatch
    <2>4. CASE Stored' # Stored
      <3>1. mentions = 0
        BY <2>1, <2>4, NothingStoredAfterMention
      <3>2. /\ tmeta /\ Headed = Len(statements) + 1
            /\ Len(statements') = Headed
            /\ statements'[Headed] = opensmile_message
            /\ \A i \in 1..Len(statements) : statements'[i] = statements[i]
            /\ \/ \E f \in Fields, isNumber \in BOOLEAN : LldLine(f, isNumber)
               \/ MentionLine
        BY <2>4, StatementsStep DEF Stored
      <3>3. Stored' \subseteq Stored \cup {Headed}
        BY <2>1, <3>2 DEF Stored
      <3>4. ~opensmile_message.junk
        BY <3>1 DEF ObjectInv
      <3>5. \A i \in Stored : statements'[i].time = i /\ i <= Headed
        BY <2>1, <2>2, <3>1, <3>2
      <3>6. CASE MentionLine
        <4>1. mentions' > 0
          BY <2>1, <3>6 DEF MentionLine, FlagDown
        <4>2. opensmile_message.time = Headed \/ opensmile_message.time = Headed - 1
          BY <2>1, <3>2, <3>4, <3>6 DEF MentionLine, FlagDown, ObjectInv, SinkInv, Headed
        <4>3. TimesMatch'
          BY <2>1, <3>2, <3>3, <3>5, <4>1, <4>2 DEF TimesMatch
        <4> QED
          BY <2>1, <4>1, <4>3
      <3>7. CASE \E f \in Fields, isNumber \in BOOLEAN : LldLine(f, isNumber)
        <4>1. next = "lld"
          BY <3>7 DEF LldLine, FlagDown, NotNumbers
        <4>2. opensmile_message.time = Headed
          BY <2>1, <3>4, <4>1 DEF ObjectInv, Headed
        <4>3. \A i \in Stored' : statements'[i].time = i
          BY <3>2, <3>3, <3>5, <4>2
        <4> QED
          BY <4>3 DEF TimesMatch
      <3> QED
        BY <3>2, <3>6, <3>7
    <2> QED
      BY <2>3, <2>4
  <1> QED
    BY <1>1, <1>2, LogInvariant, PTL DEF Spec
=============================================================================
