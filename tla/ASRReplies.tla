----------------------------- MODULE ASRReplies -----------------------------
(***************************************************************************)
(* What the ASRProcessor promises for the utterances it hears of: each is  *)
(* answered with its sentiment and then its personality, at most once, or  *)
(* is given up, before the first of the two or between them.  Nothing is   *)
(* promised of the order of two utterances.  ASRProcessor.tla implements   *)
(* it.                                                                     *)
(***************************************************************************)
EXTENDS Naturals, Sequences

CONSTANT Utterances

VARIABLES published,    \* the messages the broker got, in order
          finished      \* the utterances nothing is published of any more

Sentiment(u) == [utterance |-> u, kind |-> "sentiment"]
Personality(u) == [utterance |-> u, kind |-> "personality"]

WasPublished(m) == \E i \in 1..Len(published) : published[i] = m

Init == published = <<>> /\ finished = {}

PublishSentiment(u) ==
    /\ u \notin finished /\ ~WasPublished(Sentiment(u))
    /\ published' = Append(published, Sentiment(u))
    /\ UNCHANGED finished

PublishPersonality(u) ==
    /\ u \notin finished /\ WasPublished(Sentiment(u))
    /\ published' = Append(published, Personality(u))
    /\ finished' = finished \cup {u}

GiveUp(u) ==
    /\ u \notin finished
    /\ finished' = finished \cup {u}
    /\ UNCHANGED published

Next == \E u \in Utterances :
            PublishSentiment(u) \/ PublishPersonality(u) \/ GiveUp(u)

Spec == Init /\ [][Next]_<<published, finished>>
=============================================================================
