------------------------------ MODULE Mosquitto ------------------------------
(***************************************************************************)
(* One MQTT client (src/src/Mosquitto.cpp) as the Manager and the sessions *)
(* use it: connect, subscribe, then loop in the listener thread, until     *)
(* loop returns and the client is deaf for good.  The broker may stop and  *)
(* start, and the connection may drop, at any moment.                      *)
(***************************************************************************)
EXTENDS Naturals

CONSTANTS Trials,         \* the argument of connect
          TryReconnect,   \* the argument of loop
          MaxSeconds,     \* max_seconds_without_messages, in ticks of the clock
          MaxOutages      \* bound: how often the connection is cut

ASSUME ClientAssumption == /\ Trials \in Nat \ {0}
                           /\ TryReconnect \in BOOLEAN
                           /\ MaxSeconds \in Nat \ {0}
                           /\ MaxOutages \in Nat

MAX_NUM_RECONNECTIONS == 5

VARIABLES
    \* The broker.
    broker,         \* whether it is up
    link,           \* whether it has a connection of this client
    subscribed,     \* whether it has a subscription of this client
    outages,        \* how often the connection was cut
    \* The client.
    pc,             \* where the thread is in connect, subscribe and loop
    running,        \* the field running
    trials,         \* the attempts connect has left
    error_counter,  \* the local variable of loop
    failed,         \* the latest mosquitto_loop returned an error
    idle,           \* current_time - last_updated_time
    \* History.
    heard,          \* flips whenever on_message is called
    asked,          \* subscribe reached the broker
    reconnected,    \* some mosquitto_reconnect has succeeded
    failures        \* failed reconnects since a mosquitto_loop succeeded

network == <<broker, link, subscribed, outages>>
history == <<heard, asked, reconnected, failures>>
vars == <<network, pc, running, trials, error_counter, failed, idle, history>>

Init == /\ broker \in BOOLEAN /\ link = FALSE /\ subscribed = FALSE /\ outages = 0
        /\ pc = "connect" /\ running = FALSE /\ trials = Trials
        /\ error_counter = 0 /\ failed = FALSE /\ idle = 0
        /\ heard = FALSE /\ asked = FALSE /\ reconnected = FALSE /\ failures = 0

-----------------------------------------------------------------------------
(* The broker and the network *)

\* For the mutants: a client created without clean_session.
SubscriptionKept == subscribed

\* The constructor asks for a clean session: the broker forgets the
\* subscriptions of a connection that ends.
SubscriptionLeft == FALSE

CutLink ==
    /\ link /\ outages < MaxOutages
    /\ link' = FALSE /\ subscribed' = SubscriptionLeft
    /\ broker' \in BOOLEAN
    /\ outages' = outages + 1
    /\ UNCHANGED <<pc, running, trials, error_counter, failed, idle, history>>

BrokerChanges ==
    /\ ~link
    /\ broker' = ~broker
    /\ UNCHANGED <<link, subscribed, outages, pc, running, trials, error_counter,
                   failed, idle, history>>

\* The steady clock, from the moment loop has read it for the first time.
Tick ==
    /\ pc \in {"loop", "check", "reconnect"} /\ idle <= MaxSeconds
    /\ idle' = idle + 1
    /\ UNCHANGED <<network, pc, running, trials, error_counter, failed, history>>

-----------------------------------------------------------------------------
(* connect and subscribe *)

Trying == pc = "connect" /\ ~running /\ trials > 0

Connect ==
    /\ Trying /\ broker
    /\ link' = TRUE /\ running' = TRUE
    /\ UNCHANGED <<broker, subscribed, outages, pc, trials, error_counter, failed, idle,
                   history>>

ConnectFails ==
    /\ Trying /\ ~broker
    /\ trials' = trials - 1
    /\ UNCHANGED <<network, pc, running, error_counter, failed, idle, history>>

\* on_error does nothing: the caller goes on whether it is connected or not.
ConnectReturns ==
    /\ pc = "connect" /\ (running \/ trials = 0)
    /\ pc' = "subscribe"
    /\ UNCHANGED <<network, running, trials, error_counter, failed, idle, history>>

\* And again, whether the subscription succeeds or not; then loop starts.
Subscribe ==
    /\ pc = "subscribe"
    /\ subscribed' = link /\ asked' = link
    /\ idle' = 0 /\ error_counter' = 0
    /\ pc' = "loop"
    /\ UNCHANGED <<broker, link, outages, running, trials, failed, heard, reconnected,
                   failures>>

-----------------------------------------------------------------------------
(* loop *)

\* mosquitto_loop, and the callback of a message that arrives in it.
MosquittoLoop ==
    /\ pc = "loop"
    /\ pc' = "check"
    /\ failed' = ~link
    /\ \/ link /\ subscribed /\ idle' = 0 /\ heard' = ~heard
       \/ UNCHANGED <<idle, heard>>
    /\ UNCHANGED <<network, running, trials, error_counter, asked, reconnected, failures>>

Again == IF TryReconnect THEN "loop" ELSE "returned"

\* For the mutants: the counter is never reset.
CounterAfterSuccessKept == error_counter
CounterAfterSuccess == 0

\* The tests after mosquitto_loop: the time out, then running, then the error.
TimeOut == idle > MaxSeconds
Check ==
    /\ pc = "check"
    /\ running' = (running /\ ~TimeOut)
    /\ IF ~running' THEN /\ pc' = "returned"
                         /\ UNCHANGED <<error_counter, failures>>
       ELSE IF failed THEN /\ pc' = "reconnect"
                           /\ UNCHANGED <<error_counter, failures>>
       ELSE /\ pc' = Again
            /\ error_counter' = CounterAfterSuccess
            /\ failures' = 0
    /\ UNCHANGED <<network, trials, failed, idle, heard, asked, reconnected>>

\* mosquitto_reconnect, after ten seconds of sleep; on_connected does nothing,
\* so that nobody subscribes again.
ReconnectSucceeds ==
    /\ pc = "reconnect" /\ broker
    /\ link' = TRUE /\ reconnected' = TRUE
    /\ pc' = Again
    /\ UNCHANGED <<broker, subscribed, outages, running, trials, error_counter, failed,
                   idle, heard, asked, failures>>

\* For the mutants: the give-up test that never fires.
GivesUpNever(n) == FALSE
GivesUp(n) == n > MAX_NUM_RECONNECTIONS

ReconnectFails ==
    /\ pc = "reconnect" /\ ~broker
    /\ error_counter' = error_counter + 1
    /\ failures' = failures + 1
    /\ running' = (running /\ ~GivesUp(error_counter'))
    /\ pc' = IF running' THEN Again ELSE "returned"
    /\ UNCHANGED <<network, trials, failed, idle, heard, asked, reconnected>>

Client == \/ Connect \/ ConnectFails \/ ConnectReturns \/ Subscribe
          \/ MosquittoLoop \/ Check \/ ReconnectSucceeds \/ ReconnectFails

Next == Client \/ CutLink \/ BrokerChanges \/ Tick

Spec == Init /\ [][Next]_vars

\* The client's thread runs and the clock goes on; nothing is assumed of the
\* broker and the network.
FairSpec == Spec /\ WF_vars(Client) /\ WF_vars(Tick)

-----------------------------------------------------------------------------
(* Properties *)

\* The client is at a point of connect, subscribe or loop, and loop stops
\* counting errors when it gives up.
TypeOK ==
    /\ broker \in BOOLEAN /\ link \in BOOLEAN /\ subscribed \in BOOLEAN
    /\ outages \in 0..MaxOutages
    /\ pc \in {"connect", "subscribe", "loop", "check", "reconnect", "returned"}
    /\ running \in BOOLEAN /\ trials \in 0..Trials
    /\ error_counter \in 0..(MAX_NUM_RECONNECTIONS + 1)
    /\ failed \in BOOLEAN /\ idle \in 0..(MaxSeconds + 1)
    /\ heard \in BOOLEAN /\ asked \in BOOLEAN /\ reconnected \in BOOLEAN
    /\ failures \in 0..(MAX_NUM_RECONNECTIONS + 1)

\* A connected client gives up for one of two reasons only: no message for too
\* long, or MAX_NUM_RECONNECTIONS + 1 reconnects failed with no mosquitto_loop
\* succeeding in between.
GivesUpForCause ==
    pc = "returned" /\ TryReconnect /\ trials > 0 =>
        TimeOut \/ failures > MAX_NUM_RECONNECTIONS

\* Once the client has reconnected, on_message is never called again: the
\* listener that survives an outage is deaf.
DeafAfterReconnect == [][reconnected => heard' = heard]_vars

\* So one reconnect in the life of the client ends its service: loop returns,
\* at the latest when the time without messages is up.
OneReconnectEndsLoop == reconnected ~> pc = "returned"

\* "try_reconnect: indicates whether the client must try to reconnect to the
\* broker in case of unexpected disconnection" (Mosquitto.h): a client that
\* subscribed and whose connection is back has its subscription back.
ReconnectRestores == pc = "loop" /\ asked /\ link => subscribed
=============================================================================
