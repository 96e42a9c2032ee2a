-------------------------- MODULE ASRProcessorProofs --------------------------
(***************************************************************************)
(* Proofs about the answers to ASR messages, for any utterances, words,    *)
(* connections and rows.                                                   *)
(***************************************************************************)
EXTENDS ASRProcessor, SequenceTheorems, TLAPS

\* Two threads that query do so over two connections.
OneQueryEach == \A u, v \in Querying : held[u] = held[v] => u = v

\* A thread that queries has a word to query for.
WordLeft == \A u \in Querying : word[u] <= Words

PoolInv == NoneHeldWhileAsking /\ OneQueryEach

\* Where a thread is tells which of its messages were published; a sentiment is
\* missing before the personality only when the link is gone, for good.
AnswersInv ==
    /\ \A u \in Utterances :
           pc[u] \notin {"personality", "done"} => ~Replies!WasPublished(Replies!Sentiment(u))
    /\ \A u \in Utterances :
           pc[u] = "personality" /\ link => Replies!WasPublished(Replies!Sentiment(u))

IInv == TypeOK /\ WordLeft /\ PoolInv /\ AnswersInv

\* TypeOK in two parts: the flags, and the rest.
FlagsOK == up \in BOOLEAN /\ link \in BOOLEAN
DataOK ==
    /\ pc \in [Utterances -> {"unheard", "words", "query", "free", "mmc", "sentiment",
                              "personality", "done", "dropped"}]
    /\ word \in [Utterances -> 1..(Words + 1)]
    /\ misaligned \subseteq Utterances
    /\ published \in Seq([utterance : Utterances, kind : {"sentiment", "personality"}])
    /\ idle \subseteq Connections
    /\ held \in [Utterances -> Connections \cup {NoConn}]
    /\ stored \in 0..MaxRows

LEMMA TypeParts == TypeOK <=> FlagsOK /\ DataOK
BY Zenon DEF TypeOK, FlagsOK, DataOK

Threads(u) == \/ Hear(u) \/ Throw(u) \/ GetConnection(u) \/ Query(u)
              \/ FreeConnection(u) \/ AskMMC(u) \/ NoAnswer(u) \/ Answer(u)
              \/ OddAnswer(u) \/ PublishSentiment(u) \/ PublishPersonality(u)

LEMMA NextCases ==
    Next <=> (\E u \in Utterances : Threads(u)) \/ StoreRow \/ ClearTrial \/ LoseLink
BY DEF Next, Step, Threads

-----------------------------------------------------------------------------
(* Types *)

LEMMA InitType == Init => TypeOK
<1> SUFFICES ASSUME Init PROVE TypeOK
    OBVIOUS
<1>1. FlagsOK
    BY Zenon DEF Init, FlagsOK
<1>2. DataOK
    BY ASRAssumption, EmptySeq DEF ASRAssumption, Init, DataOK, Pool!Init
<1> QED
    BY <1>1, <1>2, TypeParts

LEMMA FlagsStep == TypeOK /\ [Next]_vars => FlagsOK'
<1> SUFFICES ASSUME TypeOK, [Next]_vars PROVE FlagsOK'
    OBVIOUS
<1>1. up' = up \/ up' = FALSE
    BY NextCases, Zenon DEF vars, Threads, Hear, Throw, GetConnection, Query, FreeConnection,
       AskMMC, NoAnswer, Answer, OddAnswer, PublishSentiment, PublishPersonality,
       StoreRow, ClearTrial, LoseLink
<1>2. link' = link \/ link' = FALSE
    BY NextCases, Zenon DEF vars, outside, Threads, Hear, Throw, GetConnection, Query,
       FreeConnection, AskMMC, NoAnswer, Answer, OddAnswer, PublishSentiment,
       PublishPersonality, StoreRow, ClearTrial, LoseLink
<1> QED
    BY <1>1, <1>2, Zenon DEF TypeOK, FlagsOK

LEMMA PublishType ==
    ASSUME TypeOK, NEW m \in [utterance : Utterances, kind : {"sentiment", "personality"}],
           Publish(m)
    PROVE  published' \in Seq([utterance : Utterances, kind : {"sentiment", "personality"}])
BY AppendProperties DEF TypeOK, Publish

LEMMA DataStep == TypeOK /\ WordLeft /\ [Next]_vars => DataOK'
<1> SUFFICES ASSUME TypeOK, WordLeft, [Next]_vars PROVE DataOK'
    OBVIOUS
<1> USE DEF Goto, outside, pool
<1>1. ASSUME NEW u \in Utterances, GetConnection(u) PROVE DataOK'
    BY <1>1 DEF GetConnection, Pool!Acquire, TypeOK, DataOK
<1>2. ASSUME NEW u \in Utterances, FreeConnection(u) PROVE DataOK'
    <2>1. /\ held[u] \in Connections /\ idle' \subseteq Connections
          /\ held' \in [Utterances -> Connections \cup {NoConn}]
        BY <1>2 DEF FreeConnection, Freed, Pool!Release, TypeOK
    <2>2. word[u] <= Words
        BY <1>2 DEF FreeConnection, WordLeft, Querying
    <2>3. word' \in [Utterances -> 1..(Words + 1)]
        BY <1>2, <2>2, ASRAssumption DEF ASRAssumption, FreeConnection, TypeOK
    <2> QED
        BY <1>2, <2>1, <2>3 DEF FreeConnection, TypeOK, DataOK
<1>3. ASSUME NEW u \in Utterances, Query(u) PROVE DataOK'
    <2>1. misaligned' \subseteq Utterances
        BY <1>3 DEF Query, TypeOK
    <2> QED
        BY <1>3, <2>1 DEF Query, TypeOK, DataOK
<1>4. ASSUME NEW u \in Utterances,
             Hear(u) \/ Throw(u) \/ AskMMC(u) \/ NoAnswer(u) \/ Answer(u) \/ OddAnswer(u)
      PROVE  DataOK'
    BY <1>4 DEF Hear, Throw, AskMMC, NoAnswer, Answer, OddAnswer, TypeOK, DataOK
<1>5. ASSUME NEW u \in Utterances, PublishSentiment(u) \/ PublishPersonality(u)
      PROVE  DataOK'
    <2>1. published' \in Seq([utterance : Utterances, kind : {"sentiment", "personality"}])
        BY <1>5, PublishType DEF PublishSentiment, PublishPersonality, First,
           Replies!Sentiment, Replies!Personality
    <2> QED
        BY <1>5, <2>1 DEF PublishSentiment, PublishPersonality, TypeOK, DataOK
<1>6. CASE StoreRow \/ ClearTrial \/ LoseLink
    BY <1>6, ASRAssumption DEF ASRAssumption, StoreRow, ClearTrial, LoseLink, TypeOK, DataOK
<1>7. CASE UNCHANGED vars
    BY <1>7 DEF vars, TypeOK, DataOK
<1> QED
    BY <1>1, <1>2, <1>3, <1>4, <1>5, <1>6, <1>7, NextCases DEF Threads

-----------------------------------------------------------------------------
(* Words and connections *)

\* A step that borrows and returns nothing, of a thread that does not query or
\* goes from the query to the end of it.
LEMMA QueryingSame ==
    ASSUME TypeOK, WordLeft, PoolInv, UNCHANGED pool, Querying' = Querying,
           \A u \in Querying : word'[u] = word[u]
    PROVE  WordLeft' /\ PoolInv'
BY DEF WordLeft, PoolInv, NoneHeldWhileAsking, OneQueryEach, pool

LEMMA PoolStep == IInv /\ [Next]_vars => WordLeft' /\ PoolInv'
<1> SUFFICES ASSUME IInv, [Next]_vars PROVE WordLeft' /\ PoolInv'
    OBVIOUS
<1> USE DEF IInv, Goto, outside
<1>1. ASSUME NEW u \in Utterances, GetConnection(u) PROVE WordLeft' /\ PoolInv'
    <2>1. PICK c \in idle : idle' = idle \ {c} /\ held' = [held EXCEPT ![u] = c]
        BY <1>1 DEF GetConnection, Pool!Acquire
    <2>2. /\ Querying' = Querying \cup {u} /\ u \notin Querying
          /\ word' = word /\ word[u] <= Words
        BY <1>1 DEF GetConnection, Querying, TypeOK
    <2>3. /\ c \in Connections /\ c # NoConn /\ held'[u] = c
          /\ \A v \in Utterances : v # u => held'[v] = held[v]
          /\ \A v \in Querying : held[v] # c
        BY <2>1, ASRAssumption DEF ASRAssumption, TypeOK, PoolInv, NoneHeldWhileAsking
    <2>4. Querying \subseteq Utterances
        BY DEF Querying
    <2> QED
        BY <2>1, <2>2, <2>3, <2>4
           DEF WordLeft, PoolInv, NoneHeldWhileAsking, OneQueryEach
<1>2. ASSUME NEW u \in Utterances, FreeConnection(u) PROVE WordLeft' /\ PoolInv'
    <2>1. /\ idle' = idle \cup {held[u]} /\ held' = [held EXCEPT ![u] = NoConn]
          /\ u \in Querying
        BY <1>2 DEF FreeConnection, Freed, Pool!Release, Querying
    <2>2. /\ Querying' = Querying \ {u} /\ Querying \subseteq Utterances
          /\ \A v \in Querying \ {u} : word'[v] = word[v]
        BY <1>2 DEF FreeConnection, Querying, TypeOK
    <2>3. /\ held'[u] = NoConn /\ held[u] \in Connections
          /\ \A v \in Utterances : v # u => held'[v] = held[v]
          /\ \A v \in Querying \ {u} : held[v] # held[u]
        BY <2>1, <2>2 DEF TypeOK, PoolInv, NoneHeldWhileAsking, OneQueryEach
    <2> QED
        BY <2>1, <2>2, <2>3 DEF WordLeft, PoolInv, NoneHeldWhileAsking, OneQueryEach
<1>3. ASSUME NEW u \in Utterances,
             \/ Hear(u) \/ Throw(u) \/ Query(u) \/ AskMMC(u) \/ NoAnswer(u)
             \/ Answer(u) \/ OddAnswer(u) \/ PublishSentiment(u) \/ PublishPersonality(u)
      PROVE  WordLeft' /\ PoolInv'
    <2>1. UNCHANGED pool /\ word' = word /\ Querying' = Querying
        BY <1>3 DEF Hear, Throw, Query, AskMMC, NoAnswer, Answer, OddAnswer,
                    PublishSentiment, PublishPersonality, Querying, TypeOK
    <2> QED
        BY <2>1, QueryingSame
<1>4. CASE StoreRow \/ ClearTrial \/ LoseLink \/ UNCHANGED vars
    <2>1. UNCHANGED <<pool, word, pc>>
        BY <1>4 DEF StoreRow, ClearTrial, LoseLink, vars
    <2> QED
        BY <2>1, QueryingSame DEF Querying
<1> QED
    BY <1>1, <1>2, <1>3, <1>4, NextCases DEF Threads

-----------------------------------------------------------------------------
(* Answers *)

LEMMA PublishFacts ==
    ASSUME TypeOK, NEW m \in [utterance : Utterances, kind : {"sentiment", "personality"}],
           Publish(m), NEW x
    PROVE  Replies!WasPublished(x)' <=> Replies!WasPublished(x) \/ (link /\ x = m)
<1>1. Len(published) \in Nat
    BY LenProperties DEF TypeOK
<1>2. CASE link
    <2>1. /\ Len(published') = Len(published) + 1
          /\ \A i \in 1..Len(published) : published'[i] = published[i]
          /\ published'[Len(published) + 1] = m
        BY <1>2, AppendProperties DEF Publish, TypeOK
    <2> QED
        BY <1>1, <1>2, <2>1 DEF Replies!WasPublished
<1>3. CASE ~link
    BY <1>3 DEF Publish, Replies!WasPublished
<1> QED
    BY <1>2, <1>3

LEMMA AnswersStep == IInv /\ [Next]_vars => AnswersInv'
<1> SUFFICES ASSUME IInv, [Next]_vars PROVE AnswersInv'
    OBVIOUS
<1> USE DEF IInv, Goto
<1>1. ASSUME NEW u \in Utterances, PublishSentiment(u) PROVE AnswersInv'
    <2>1. Replies!Sentiment(u) \in [utterance : Utterances, kind : {"sentiment", "personality"}]
        BY DEF Replies!Sentiment
    <2>2. \A x : Replies!WasPublished(x)' <=>
                     Replies!WasPublished(x) \/ (link /\ x = Replies!Sentiment(u))
        BY <1>1, <2>1, PublishFacts DEF PublishSentiment, First
    <2>3. \A v \in Utterances : Replies!Sentiment(v) = Replies!Sentiment(u) => v = u
        BY DEF Replies!Sentiment
    <2>4. /\ link' = link /\ pc'[u] = "personality"
          /\ \A v \in Utterances : v # u => pc'[v] = pc[v]
        BY <1>1 DEF PublishSentiment, outside, TypeOK
    <2>5. \A v \in Utterances : Replies!Sentiment(v)' = Replies!Sentiment(v)
        BY DEF Replies!Sentiment
    <2> QED
        BY <2>2, <2>3, <2>4, <2>5 DEF AnswersInv
<1>2. ASSUME NEW u \in Utterances, PublishPersonality(u) PROVE AnswersInv'
    <2>1. Replies!Personality(u) \in [utterance : Utterances, kind : {"sentiment", "personality"}]
        BY DEF Replies!Personality
    <2>2. \A x : Replies!WasPublished(x)' <=>
                     Replies!WasPublished(x) \/ (link /\ x = Replies!Personality(u))
        BY <1>2, <2>1, PublishFacts DEF PublishPersonality
    <2>3. \A v \in Utterances : Replies!Sentiment(v) # Replies!Personality(u)
        BY DEF Replies!Sentiment, Replies!Personality
    <2>4. /\ link' = link /\ pc'[u] = "done"
          /\ \A v \in Utterances : v # u => pc'[v] = pc[v]
        BY <1>2 DEF PublishPersonality, outside, TypeOK
    <2>5. \A v \in Utterances : Replies!Sentiment(v)' = Replies!Sentiment(v)
        BY DEF Replies!Sentiment
    <2> QED
        BY <2>2, <2>3, <2>4, <2>5 DEF AnswersInv
<1>3. ASSUME published' = published, link' => link,
             \A v \in Utterances :
                 /\ pc'[v] \notin {"personality", "done"} => pc[v] \notin {"personality", "done"}
                 /\ pc'[v] = "personality" => pc[v] = "personality"
      PROVE  AnswersInv'
    BY <1>3 DEF AnswersInv, Replies!WasPublished, Replies!Sentiment
<1>4. ASSUME NEW u \in Utterances,
             \/ Hear(u) \/ Throw(u) \/ GetConnection(u) \/ Query(u) \/ FreeConnection(u)
             \/ AskMMC(u) \/ NoAnswer(u) \/ Answer(u) \/ OddAnswer(u)
      PROVE  AnswersInv'
    <2>1. published' = published /\ link' = link
        BY <1>4 DEF Hear, Throw, GetConnection, Query, FreeConnection, AskMMC, NoAnswer,
                    Answer, OddAnswer, outside
    <2>2. pc[u] \notin {"personality", "done"}
        BY <1>4 DEF Hear, Throw, GetConnection, Query, FreeConnection, AskMMC, NoAnswer,
                    Answer, OddAnswer
    <2>3. \/ pc' = pc
          \/ \E s \in {"words", "query", "free", "mmc", "sentiment", "dropped"} :
                 pc' = [pc EXCEPT ![u] = s]
        BY <1>4 DEF Hear, Throw, GetConnection, Query, FreeConnection, AskMMC, NoAnswer,
                    Answer, OddAnswer
    <2> QED
        BY <2>1, <2>2, <2>3, <1>3 DEF TypeOK
<1>5. CASE StoreRow \/ ClearTrial \/ LoseLink \/ UNCHANGED vars
    <2>1. published' = published /\ pc' = pc
        BY <1>5 DEF StoreRow, ClearTrial, LoseLink, vars
    <2>2. link' => link
        BY <1>5, Zenon DEF StoreRow, ClearTrial, LoseLink, vars, outside
    <2> QED
        BY <2>1, <2>2, <1>3
<1> QED
    BY <1>1, <1>2, <1>4, <1>5, NextCases DEF Threads

-----------------------------------------------------------------------------
(* The theorems *)

LEMMA InitInv == Init => IInv
<1> SUFFICES ASSUME Init PROVE IInv
    OBVIOUS
<1>1. Querying = {}
    BY DEF Init, Querying
<1>2. WordLeft /\ PoolInv
    BY <1>1 DEF Init, Pool!Init, WordLeft, PoolInv, NoneHeldWhileAsking, OneQueryEach
<1>3. AnswersInv
    BY EmptySeq DEF Init, AnswersInv, Replies!WasPublished
<1> QED
    BY <1>2, <1>3, InitType DEF IInv

LEMMA NextInv == IInv /\ [Next]_vars => IInv'
<1> SUFFICES ASSUME IInv, [Next]_vars PROVE IInv'
    OBVIOUS
<1>1. FlagsOK' /\ DataOK'
    BY FlagsStep, DataStep DEF IInv
<1>2. TypeOK'
    BY <1>1 DEF TypeOK, FlagsOK, DataOK
<1> QED
    BY <1>2, PoolStep, AnswersStep DEF IInv

LEMMA Invariance == Spec => []IInv
BY InitInv, NextInv, PTL DEF Spec

\* The threads, the pool and the published messages keep their types.
THEOREM ASRTypeCorrect == Spec => []TypeOK
BY Invariance, PTL DEF IInv

\* However long the MMC server takes, no connection of the pool waits for it.
THEOREM PoolFreeWhileAsking == Spec => []NoneHeldWhileAsking
BY Invariance, PTL DEF IInv, PoolInv

\* The guards of the steps a thread takes on its own before the MMC server is asked.
GoesOn(u) == \/ pc[u] \in {"query", "free"}
             \/ pc[u] = "words" /\ u \in Malformed
             \/ pc[u] = "words" /\ word[u] > Words
             \/ pc[u] = "words" /\ held[u] = NoConn /\ idle # {}

\* An utterance on its way to the MMC server is not held up by those that wait for
\* its answer: it goes on itself, or a thread goes on that will return a connection.
NeverStuck ==
    \A u \in Utterances : pc[u] = "words" =>
        GoesOn(u) \/ \E v \in Querying : GoesOn(v)

\* 30 connections, or a single one, are enough for any number of utterances, because
\* FeaturesBetween returns its connection before the request to the MMC server and
\* never borrows a second one.  (That each utterance gets there, under fairness, is
\* EveryUtteranceAsked.)
THEOREM AnyPoolSuffices == Connections # {} => (Spec => []NeverStuck)
  <1> SUFFICES ASSUME Connections # {}
               PROVE  Spec => []NeverStuck
    OBVIOUS
  <1>1. IInv => NeverStuck
    <2> SUFFICES ASSUME IInv, NEW u \in Utterances, pc[u] = "words"
                 PROVE  GoesOn(u) \/ \E v \in Querying : GoesOn(v)
      BY DEF NeverStuck
    <2>1. held[u] = NoConn
      BY DEF IInv, PoolInv, NoneHeldWhileAsking, Querying
    <2>2. CASE idle # {}
      BY <2>1, <2>2 DEF GoesOn
    <2>3. CASE idle = {}
      <3>1. PICK v \in Querying : TRUE
        BY <2>3 DEF IInv, PoolInv, NoneHeldWhileAsking
      <3> QED
        BY <3>1 DEF Querying, GoesOn
    <2> QED
      BY <2>2, <2>3
  <1> QED
    BY <1>1, Invariance, PTL

\* ProcessASRMessage answers as ASRReplies promises: each action publishes, gives
\* an utterance up, or does nothing that can be heard.
THEOREM RepliesRefinement == Spec => ImplementsReplies
<1>1. Init => Replies!Init
    BY DEF Init, Replies!Init, Finished
<1>2. IInv /\ [Next]_vars => [Replies!Next]_<<published, Finished>>
    <2> SUFFICES ASSUME IInv, [Next]_vars
                 PROVE  Replies!Next \/ UNCHANGED <<published, Finished>>
        OBVIOUS
    <2> USE DEF IInv, Goto
    <2>1. ASSUME NEW u \in Utterances, PublishSentiment(u)
          PROVE  Replies!Next \/ UNCHANGED <<published, Finished>>
        <3>1. Finished' = Finished /\ u \notin Finished
            BY <2>1 DEF PublishSentiment, Finished, TypeOK
        <3>2. ~Replies!WasPublished(Replies!Sentiment(u))
            BY <2>1 DEF PublishSentiment, AnswersInv
        <3> QED
            BY <2>1, <3>1, <3>2 DEF PublishSentiment, Publish, First, Replies!Next,
                                    Replies!PublishSentiment
    <2>2. ASSUME NEW u \in Utterances, PublishPersonality(u)
          PROVE  Replies!Next \/ UNCHANGED <<published, Finished>>
        <3>1. Finished' = Finished \cup {u} /\ u \notin Finished
            BY <2>2 DEF PublishPersonality, Finished, TypeOK
        <3>2. link => Replies!WasPublished(Replies!Sentiment(u))
            BY <2>2 DEF PublishPersonality, AnswersInv
        <3> QED
            BY <2>2, <3>1, <3>2 DEF PublishPersonality, Publish, Replies!Next,
                                    Replies!PublishPersonality, Replies!GiveUp
    <2>3. ASSUME NEW u \in Utterances, NoAnswer(u)
          PROVE  Replies!Next \/ UNCHANGED <<published, Finished>>
        <3>1. Finished' = Finished \cup {u} /\ u \notin Finished
            BY <2>3 DEF NoAnswer, Finished, TypeOK
        <3> QED
            BY <2>3, <3>1 DEF NoAnswer, Replies!Next, Replies!GiveUp
    <2>4. ASSUME NEW u \in Utterances,
                 \/ Hear(u) \/ Throw(u) \/ GetConnection(u) \/ Query(u)
                 \/ FreeConnection(u) \/ AskMMC(u) \/ Answer(u) \/ OddAnswer(u)
          PROVE  UNCHANGED <<published, Finished>>
        BY <2>4 DEF Hear, Throw, GetConnection, Query, FreeConnection, AskMMC, Answer,
                    OddAnswer, Finished, TypeOK
    <2>5. CASE StoreRow \/ ClearTrial \/ LoseLink \/ UNCHANGED vars
        BY <2>5 DEF StoreRow, ClearTrial, LoseLink, vars, Finished
    <2> QED
        BY <2>1, <2>2, <2>3, <2>4, <2>5, NextCases DEF Threads
<1> QED
    BY <1>1, <1>2, Invariance, PTL DEF Spec, ImplementsReplies, Replies!Spec
=============================================================================
