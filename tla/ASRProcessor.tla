---------------------------- MODULE ASRProcessor ----------------------------
(***************************************************************************)
(* How final ASR messages are answered (src/src/ASRProcessor.cpp and       *)
(* FeaturesBetween of src/src/DBWrapper.cpp): the Manager starts a         *)
(* detached thread per message, which looks up the openSMILE rows of each  *)
(* word, sends all of it to the MMC server, and publishes two messages.    *)
(*                                                                         *)
(* The threads share a pool of database connections, used here as          *)
(* ConnectionPool specifies it, and an MQTT client whose loop nobody runs, *)
(* so that its connection, once lost, is never back.                       *)
(***************************************************************************)
EXTENDS Naturals, Sequences

CONSTANTS Utterances,   \* the messages, and the threads that process them
          Malformed,      \* those with a field that has another type
          Words,          \* the number of words of an utterance
          WindowOf,       \* WindowOf[w]: start_time and end_time of word w
          MaxRows,        \* bound: the rows of the trial, one per unit of time
          Connections,    \* the connections of this DBWrapper
          NoConn

ASSUME ASRAssumption == /\ Malformed \subseteq Utterances
                        /\ Words \in Nat
                        /\ MaxRows \in Nat
                        /\ WindowOf \in [1..Words -> [from : Nat, to : Nat]]
                        /\ NoConn \notin Connections

VARIABLES
    up,             \* whether the process runs
    pc,             \* where each thread is in ProcessASRMessage
    word,           \* the word each thread is at
    misaligned,     \* the utterances with features from outside a word's window
    published,      \* what the broker got, in order
    \* Shared by the threads.
    idle, held,     \* the connection pool
    \* Outside of the processor.
    stored,         \* rows 1..stored are in the features table
    link            \* whether the client's connection to the broker is up

pool == <<idle, held>>
outside == <<stored, link>>
vars == <<up, pc, word, misaligned, published, pool, outside>>

Pool == INSTANCE ConnectionPool WITH Threads <- Utterances

Finished == {u \in Utterances : pc[u] \in {"done", "dropped"}}
Replies == INSTANCE ASRReplies WITH finished <- Finished

Init == /\ up = TRUE
        /\ pc = [u \in Utterances |-> "unheard"]
        /\ word = [u \in Utterances |-> 1]
        /\ misaligned = {}
        /\ published = <<>>
        /\ Pool!Init
        /\ stored = 0
        /\ link \in BOOLEAN

Goto(u, station) == pc' = [pc EXCEPT ![u] = station]

-----------------------------------------------------------------------------
(* A thread of ProcessASRMessage *)

\* The Manager hears of u and detaches a thread.
Hear(u) ==
    /\ up /\ pc[u] = "unheard"
    /\ Goto(u, "words")
    /\ UNCHANGED <<up, word, misaligned, published, pool, outside>>

\* A conversion of json throws, and nobody catches it: the process ends.
Throw(u) ==
    /\ up /\ pc[u] = "words" /\ u \in Malformed
    /\ up' = FALSE
    /\ UNCHANGED <<pc, word, misaligned, published, pool, outside>>

\* FeaturesBetween for the next word, when a connection can be had.
GetConnection(u) ==
    /\ up /\ pc[u] = "words" /\ word[u] <= Words
    /\ Pool!Acquire(u)
    /\ Goto(u, "query")
    /\ UNCHANGED <<up, word, misaligned, published, outside>>

\* values[0] and values[1] point into strings that no longer exist: the server
\* gets the number meant, or what else is left there: the other number of this
\* call, one of a former call of the thread, or no number at all.
Remains(w) == {WindowOf[v].from : v \in 1..w} \cup {WindowOf[v].to : v \in 1..w}

Aligned(w, low, high) ==
    \A r \in 1..stored : low <= r /\ r <= high =>
        WindowOf[w].from <= r /\ r <= WindowOf[w].to

\* The SELECT; a server that refuses it looks like one that finds nothing.
Query(u) ==
    /\ up /\ pc[u] = "query"
    /\ \/ \E low, high \in Remains(word[u]) :
              misaligned' = IF Aligned(word[u], low, high) THEN misaligned
                                                           ELSE misaligned \cup {u}
       \/ UNCHANGED misaligned
    /\ Goto(u, "free")
    /\ UNCHANGED <<up, word, published, pool, outside>>

\* For the mutants: a FeaturesBetween that keeps its connection.
NotFreed(u) == UNCHANGED pool
Freed(u) == Pool!Release(u)

FreeConnection(u) ==
    /\ up /\ pc[u] = "free"
    /\ Freed(u)
    /\ word' = [word EXCEPT ![u] = @ + 1]
    /\ Goto(u, "words")
    /\ UNCHANGED <<up, misaligned, published, outside>>

\* ProcessMMCMessage sends all words to the server, without a time out.
AskMMC(u) ==
    /\ up /\ pc[u] = "words" /\ word[u] > Words /\ u \notin Malformed
    /\ Goto(u, "mmc")
    /\ UNCHANGED <<up, word, misaligned, published, pool, outside>>

\* The request failed, or its answer is not json: the utterance is dropped.
NoAnswer(u) ==
    /\ up /\ pc[u] = "mmc"
    /\ Goto(u, "dropped")
    /\ UNCHANGED <<up, word, misaligned, published, pool, outside>>

\* A json object, be it the report of an error; its keys are looked up with operator[], which adds those that
\* are missing.
Answer(u) ==
    /\ up /\ pc[u] = "mmc"
    /\ Goto(u, "sentiment")
    /\ UNCHANGED <<up, word, misaligned, published, pool, outside>>

\* Json that is not an object: operator[] throws, after the catch.
OddAnswer(u) ==
    /\ up /\ pc[u] = "mmc"
    /\ up' = FALSE
    /\ UNCHANGED <<pc, word, misaligned, published, pool, outside>>

\* Mosquitto::publish with qos 0: lost, without notice, when there is no link.
Publish(m) == published' = IF link THEN Append(published, m) ELSE published

\* For the mutants: a message of another sub_type, and the two messages in the
\* wrong order.
FirstMislabelled(u) == [utterance |-> u, kind |-> "observation"]
FirstSwapped(u) == Replies!Personality(u)
First(u) == Replies!Sentiment(u)

PublishSentiment(u) ==
    /\ up /\ pc[u] = "sentiment"
    /\ Publish(First(u))
    /\ Goto(u, "personality")
    /\ UNCHANGED <<up, word, misaligned, pool, outside>>

PublishPersonality(u) ==
    /\ up /\ pc[u] = "personality"
    /\ Publish(Replies!Personality(u))
    /\ Goto(u, "done")
    /\ UNCHANGED <<up, word, misaligned, pool, outside>>

-----------------------------------------------------------------------------
(* What happens outside *)

\* The sessions store rows, and a start of the trial deletes them.
StoreRow ==
    /\ stored < MaxRows
    /\ stored' = stored + 1
    /\ UNCHANGED <<up, pc, word, misaligned, published, pool, link>>

ClearTrial ==
    /\ stored > 0
    /\ stored' = 0
    /\ UNCHANGED <<up, pc, word, misaligned, published, pool, link>>

\* The broker ends the connection, at the latest when keep-alives are missing.
LoseLink ==
    /\ link /\ link' = FALSE
    /\ UNCHANGED <<up, pc, word, misaligned, published, pool, stored>>

\* What a thread does on its own, the answers of the MMC server excepted.
Step(u) == \/ Throw(u) \/ GetConnection(u) \/ Query(u) \/ FreeConnection(u)
           \/ AskMMC(u) \/ PublishSentiment(u) \/ PublishPersonality(u)

Next == \/ \E u \in Utterances : \/ Hear(u) \/ Step(u)
                                 \/ NoAnswer(u) \/ Answer(u) \/ OddAnswer(u)
        \/ StoreRow \/ ClearTrial \/ LoseLink

Spec == Init /\ [][Next]_vars

\* Every runnable thread runs.  The MMC server may never answer.
FairSpec == Spec /\ \A u \in Utterances : WF_vars(Step(u))

-----------------------------------------------------------------------------
(* Properties *)

\* The threads are at known points, the broker got messages about utterances.
TypeOK ==
    /\ up \in BOOLEAN /\ link \in BOOLEAN
    /\ pc \in [Utterances -> {"unheard", "words", "query", "free", "mmc", "sentiment",
                              "personality", "done", "dropped"}]
    /\ word \in [Utterances -> 1..(Words + 1)]
    /\ misaligned \subseteq Utterances
    /\ published \in Seq([utterance : Utterances, kind : {"sentiment", "personality"}])
    /\ idle \subseteq Connections
    /\ held \in [Utterances -> Connections \cup {NoConn}]
    /\ stored \in 0..MaxRows

\* A thread that waits for the MMC server, or ended, has given back what it
\* borrowed: a server that never answers cannot empty the pool.
Querying == {u \in Utterances : pc[u] \in {"query", "free"}}
NoneHeldWhileAsking ==
    /\ \A u \in Utterances : held[u] # NoConn <=> u \in Querying
    /\ idle = Connections \ {held[u] : u \in Querying}

\* So every utterance heard of gets as far as the MMC server, however many
\* others wait there for ever; unless the process has ended.
EveryUtteranceAsked ==
    \A u \in Utterances :
        pc[u] = "words" ~> ~up \/ pc[u] \notin {"unheard", "words", "query", "free"}

\* At most one sentiment and one personality per utterance, the personality
\* after its sentiment, whatever is lost in between.
ImplementsReplies == Replies!Spec

\* "Generate aligned features": the features of a word come from rows between
\* its start and its end.
AlignedFeatures == misaligned = {}
=============================================================================
