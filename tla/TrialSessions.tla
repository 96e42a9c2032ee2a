----------------------------- MODULE TrialSessions -----------------------------
(***************************************************************************)
(* What the Manager promises of the sessions of a trial and of the         *)
(* features table, as far as it keeps its word.                            *)
(*                                                                         *)
(* A session is opened for one participant of the trial begun last, and    *)
(* has a number.  It is current until it ends or until every current       *)
(* session is closed at once.  There are never more current sessions of a  *)
(* participant than the participant has been named since that was done.    *)
(*                                                                         *)
(* But a session can write long after it was closed, whatever was cleared  *)
(* since, and rows without ids are never cleared.  And a session may go    *)
(* astray: then it opens sessions of its own, which are never current,     *)
(* clears any trial, and closes any sessions it likes.                     *)
(***************************************************************************)
EXTENDS Naturals, Sequences, FiniteSets

CONSTANTS Trials, Participants

VARIABLES trial,    \* the trial begun last
          opened,   \* opened[n]: the trial and the participant of session n
          current,  \* the sessions that were not told to end
          writers,  \* the sessions that may still write
          strays,   \* the sessions that have gone astray
          table,    \* the rows in the table
          named     \* how often each participant was named since all were closed

vars == <<trial, opened, current, writers, strays, table, named>>

Session == [trial : Trials, participant : Participants]
Fresh == Len(opened) + 1    \* the number of the next session

Init == /\ trial \in Trials
        /\ opened = <<>>
        /\ current = {} /\ writers = {} /\ strays = {} /\ table = {}
        /\ named = [q \in Participants |-> 0]

Begin(t) == /\ trial' = t
            /\ named' \in [Participants -> Nat]
            /\ \A q \in Participants : named'[q] >= named[q]
            /\ UNCHANGED <<opened, current, writers, strays, table>>

Clear(t) == /\ t = trial \/ strays # {}
            /\ table' = {r \in table : r.tagged => opened[r.session].trial # t}
            /\ UNCHANGED <<trial, opened, current, writers, strays, named>>

Open(q) ==
    /\ Cardinality({n \in current : opened[n].participant = q}) < named[q]
    /\ opened' = Append(opened, [trial |-> trial, participant |-> q])
    /\ current' = current \cup {Fresh}
    /\ writers' = writers \cup {Fresh}
    /\ UNCHANGED <<trial, strays, table, named>>

CloseAll == /\ current' = {}
            /\ named' = [q \in Participants |-> 0]
            /\ UNCHANGED <<trial, opened, writers, strays, table>>

Write(n) == /\ \E tag \in BOOLEAN :
                   table' = table \cup {[session |-> n, tagged |-> tag]}
            /\ writers' \in {writers, writers \ {n}}
            /\ UNCHANGED <<trial, opened, current, strays, named>>

\* A session ends, of itself or because it was told to.  What it has sent may
\* still be written.
Leave(n) == /\ writers' \in {writers, writers \ {n}}
            /\ strays' = strays \ {n}
            /\ UNCHANGED <<trial, opened, table, named>>

End(n) == current' = current \ {n} /\ Leave(n)

GoAstray(n) == /\ strays' = strays \cup {n}
               /\ UNCHANGED <<trial, opened, current, writers, table, named>>

OpenStray(s) == /\ opened' = Append(opened, s)
                /\ writers' = writers \cup {Fresh}
                /\ UNCHANGED <<trial, current, strays, table, named>>

\* A stray closes sessions and ends.
CloseStray(n) == current' \subseteq current \ {n} /\ Leave(n)

Next == \/ \E t \in Trials : Begin(t) \/ Clear(t)
        \/ \E q \in Participants : Open(q)
        \/ CloseAll
        \/ \E n \in writers : Write(n) \/ End(n) \/ GoAstray(n)
        \/ \E n \in strays : CloseStray(n) \/ \E s \in Session : OpenStray(s)

Spec == Init /\ [][Next]_vars
=============================================================================
