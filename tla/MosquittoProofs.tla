--------------------------- MODULE MosquittoProofs ---------------------------
(***************************************************************************)
(* Why a connected client stops listening, and why it hears nothing after  *)
(* it has reconnected, for every bound on outages, trials and silence.     *)
(***************************************************************************)
EXTENDS Mosquitto, TLAPS

\* The failures since a success are what loop counts; before loop has given up
\* they are within the maximum.
CountsFailures == /\ failures = error_counter
                  /\ pc # "returned" => error_counter <= MAX_NUM_RECONNECTIONS
                  /\ pc \in {"connect", "subscribe"} => error_counter = 0

\* A client that connected keeps running until one of the two causes stops it.
RunsUntilCause ==
    /\ pc = "subscribe" => running \/ trials = 0
    /\ pc \in {"loop", "check", "reconnect"} /\ trials > 0 => running

\* A reconnect happens inside loop, and the subscription is gone by then.
NoSubscriptionLeft ==
    /\ pc \in {"check", "reconnect"} /\ failed => ~subscribed
    /\ pc = "reconnect" => failed
    /\ reconnected => ~subscribed /\ pc \notin {"connect", "subscribe"}
    /\ subscribed => link

\* TypeOK in two parts: the flags, and the rest.
FlagsOK == /\ broker \in BOOLEAN /\ link \in BOOLEAN /\ subscribed \in BOOLEAN
           /\ running \in BOOLEAN /\ failed \in BOOLEAN /\ heard \in BOOLEAN
           /\ asked \in BOOLEAN /\ reconnected \in BOOLEAN
NumbersOK == /\ outages \in 0..MaxOutages /\ trials \in 0..Trials
             /\ error_counter \in 0..(MAX_NUM_RECONNECTIONS + 1)
             /\ failures \in 0..(MAX_NUM_RECONNECTIONS + 1)
             /\ idle \in 0..(MaxSeconds + 1)
             /\ pc \in {"connect", "subscribe", "loop", "check", "reconnect", "returned"}

LEMMA TypeParts == TypeOK <=> FlagsOK /\ NumbersOK
BY Zenon DEF TypeOK, FlagsOK, NumbersOK

IInv == TypeOK /\ CountsFailures /\ RunsUntilCause /\ GivesUpForCause /\ NoSubscriptionLeft

LEMMA InitInv == Init => IInv
<1> SUFFICES ASSUME Init
             PROVE  IInv
    OBVIOUS
<1> USE ClientAssumption DEF ClientAssumption, Init, MAX_NUM_RECONNECTIONS
<1>1. TypeOK
    <2>1. FlagsOK
        BY Zenon DEF FlagsOK
    <2>2. NumbersOK
        BY DEF NumbersOK
    <2> QED
        BY <2>1, <2>2, TypeParts
<1>2. CountsFailures
    BY DEF CountsFailures
<1>3. RunsUntilCause /\ GivesUpForCause
    BY DEF RunsUntilCause, GivesUpForCause
<1>4. NoSubscriptionLeft
    BY DEF NoSubscriptionLeft
<1> QED
    BY <1>1, <1>2, <1>3, <1>4 DEF IInv

LEMMA NextInv == IInv /\ [Next]_vars => IInv'
<1> SUFFICES ASSUME IInv, [Next]_vars
             PROVE  IInv'
    OBVIOUS
<1> USE ClientAssumption
    DEF ClientAssumption, IInv, TypeOK, CountsFailures, RunsUntilCause, GivesUpForCause,
        NoSubscriptionLeft, TimeOut, MAX_NUM_RECONNECTIONS
<1>1. CASE Connect
    <2>1. FlagsOK'
        BY <1>1, TypeParts, Zenon DEF FlagsOK, Connect, Trying, history
    <2>2. NumbersOK'
        BY <1>1 DEF NumbersOK, Connect, Trying, history
    <2>3. TypeOK'
        BY <2>1, <2>2 DEF FlagsOK, NumbersOK
    <2>4. CountsFailures' /\ RunsUntilCause' /\ GivesUpForCause'
        BY <1>1 DEF Connect, Trying, history
    <2>5. NoSubscriptionLeft'
        BY <1>1 DEF Connect, Trying, history
    <2> QED
        BY <2>3, <2>4, <2>5
<1>12. CASE ConnectFails
    BY <1>12 DEF ConnectFails, Trying, network, history
<1>2. CASE ConnectReturns
    BY <1>2 DEF ConnectReturns, network, history
<1>3. CASE Subscribe
    <2>1. FlagsOK'
        BY <1>3, TypeParts, Zenon DEF FlagsOK, Subscribe
    <2>2. NumbersOK'
        BY <1>3 DEF NumbersOK, Subscribe
    <2>3. TypeOK'
        BY <2>1, <2>2 DEF FlagsOK, NumbersOK
    <2>4. CountsFailures' /\ RunsUntilCause' /\ GivesUpForCause'
        BY <1>3 DEF Subscribe
    <2>5. NoSubscriptionLeft'
        BY <1>3 DEF Subscribe
    <2> QED
        BY <2>3, <2>4, <2>5
<1>4. CASE MosquittoLoop
    BY <1>4 DEF MosquittoLoop, network
<1>5. CASE Check
    BY <1>5 DEF Check, Again, CounterAfterSuccess, network
<1>6. CASE ReconnectSucceeds
    BY <1>6 DEF ReconnectSucceeds, Again
<1>7. CASE ReconnectFails
    BY <1>7 DEF ReconnectFails, Again, GivesUp, network
<1>8. CASE CutLink
    <2>1. FlagsOK'
        BY <1>8, TypeParts, Zenon DEF FlagsOK, CutLink, SubscriptionLeft, history
    <2>2. NumbersOK'
        BY <1>8 DEF NumbersOK, CutLink, SubscriptionLeft, history
    <2>3. TypeOK'
        BY <2>1, <2>2 DEF FlagsOK, NumbersOK
    <2>4. CountsFailures' /\ RunsUntilCause' /\ GivesUpForCause'
        BY <1>8 DEF CutLink, SubscriptionLeft, history
    <2>5. NoSubscriptionLeft'
        BY <1>8 DEF CutLink, SubscriptionLeft, history
    <2> QED
        BY <2>3, <2>4, <2>5
<1>9. CASE BrokerChanges
    BY <1>9 DEF BrokerChanges, history
<1>10. CASE Tick
    BY <1>10 DEF Tick, network, history
<1>11. CASE UNCHANGED vars
    BY <1>11 DEF vars, network, history
<1> QED
    BY <1>1, <1>2, <1>3, <1>4, <1>5, <1>6, <1>7, <1>8, <1>9, <1>10, <1>11, <1>12
       DEF Next, Client

LEMMA Invariance == Spec => []IInv
BY InitInv, NextInv, PTL DEF Spec

\* loop never counts further than one past MAX_NUM_RECONNECTIONS, and every
\* field keeps its type.
THEOREM ClientTypeCorrect == Spec => []TypeOK
BY Invariance, PTL DEF IInv

\* loop (Mosquitto.cpp) returns to a client that connected because of silence
\* or of too many failed reconnects in a row, and of nothing else.
THEOREM StopsForCause == Spec => []GivesUpForCause
BY Invariance, PTL DEF IInv

\* on_message is not called any more once mosquitto_reconnect has succeeded:
\* nobody subscribes again, and the session was a clean one.
THEOREM DeafForGood == Spec => DeafAfterReconnect
<1>1. IInv /\ [Next]_vars => [reconnected => heard' = heard]_vars
    <2> SUFFICES ASSUME IInv, Next, reconnected
                 PROVE  heard' = heard
        BY DEF vars
    <2>1. CASE MosquittoLoop
        BY <2>1 DEF IInv, NoSubscriptionLeft, MosquittoLoop
    <2>2. CASE ~MosquittoLoop
        BY <2>2 DEF Next, Client, Connect, ConnectFails, ConnectReturns, Subscribe, Check,
                    ReconnectSucceeds, ReconnectFails, CutLink, BrokerChanges, Tick, history
    <2> QED
        BY <2>1, <2>2
<1> QED
    BY <1>1, Invariance, PTL DEF Spec, DeafAfterReconnect
=============================================================================
