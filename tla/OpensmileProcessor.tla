-------------------------- MODULE OpensmileProcessor --------------------------
(***************************************************************************)
(* How one openSMILE session turns log lines into rows of the features     *)
(* table (src/src/OpensmileProcessor.cpp, and PublishChunk of              *)
(* src/src/DBWrapper.cpp).                                                 *)
(*                                                                         *)
(* The sink of openSMILE prints a frame as one "lld.<field> = <value>"     *)
(* line per field, then "tmeta:", then "time = <seconds>".  Every line of  *)
(* the log goes to ProcessOpensmileLog, which accumulates one json object  *)
(* (never reset) and recognises the end of a frame only by the first lld   *)
(* line of the next one.  A value is abstracted to the number of the frame *)
(* it belongs to, and to whether it is a number at all.                    *)
(***************************************************************************)
EXTENDS Naturals, Sequences, FiniteSets

CONSTANTS Fields,       \* the lld fields of a frame
          MaxFrames,    \* bound: the frames printed
          MaxMentions   \* bound: the other log lines that contain "lld"

ASSUME LogAssumption == /\ Fields # {}
                        /\ MaxFrames \in Nat \ {0}
                        /\ MaxMentions \in Nat

VARIABLES
    \* The sink of openSMILE.
    frame,              \* the frame being printed
    next,               \* the kind of line that comes next
    left,               \* the fields of the frame not printed yet
    nanFrames,          \* the frames with a value that is not a number
    mentions,           \* the lines printed that only mention "lld"
    \* The processor and the database.
    opensmile_message,  \* the json object that accumulates a frame
    tmeta,              \* the flag: a "tmeta:" line was the latest marker
    statements          \* the INSERTs sent: copies of opensmile_message

sink == <<frame, next, left, nanFrames, mentions>>
vars == <<sink, opensmile_message, tmeta, statements>>

\* The number 0 stands for a key the object does not have.
EmptyMessage == [lld    |-> [f \in Fields |-> 0],  \* data.features.lld
                 nan    |-> {},     \* the fields whose value is not a number
                 junk   |-> FALSE,  \* it has a key no column corresponds to
                 time   |-> 0,      \* data.tmeta.time
                 tagged |-> FALSE]  \* it has participant, trial and header

Init == /\ frame = 1 /\ next = "lld" /\ left = Fields
        /\ nanFrames = {} /\ mentions = 0
        /\ opensmile_message = EmptyMessage
        /\ tmeta = FALSE
        /\ statements = <<>>

-----------------------------------------------------------------------------
(* A line that contains "lld" publishes the frame it ends, if any, and only  *)
(* then puts the ids into the object, for the frames to come.                *)

\* Slips, for the mutants: rows without ids are held back; the ids are never
\* set; the flag is never cleared; a value stays "not a number" for ever.
PublishTagged ==
    statements' = IF tmeta /\ opensmile_message.tagged
                  THEN Append(statements, opensmile_message) ELSE statements
PublishedUntagged == opensmile_message
FlagStaysUp == tmeta' = tmeta
NanForEver(nan, f, isNumber) == IF isNumber THEN nan ELSE nan \cup {f}

PublishChunk ==
    statements' = IF tmeta THEN Append(statements, opensmile_message)
                           ELSE statements

Published == IF tmeta THEN [opensmile_message EXCEPT !.tagged = TRUE]
                      ELSE opensmile_message

FlagDown == tmeta' = FALSE

NotNumbers(nan, f, isNumber) == IF isNumber THEN nan \ {f} ELSE nan \cup {f}

\* For the mutants: a database that takes a row with any key.
AcceptedAnyKey(row) == row.nan = {}

\* PostgreSQL rejects an INSERT with an empty column name (a key that is not
\* in the column map) or with the literals nan and inf; PQexec then returns a
\* result that is not NULL, so the loss goes unnoticed.
Accepted(row) == ~row.junk /\ row.nan = {}
Stored == {i \in 1..Len(statements) : Accepted(statements[i])}

-----------------------------------------------------------------------------
(* One action per kind of line *)

\* A slip, for the mutants: the value is stored before the frame is published.
LldLineLate(f, isNumber) ==
    /\ next = "lld" /\ f \in left
    /\ opensmile_message' =
           [Published EXCEPT !.lld[f] = frame,
                             !.nan = NotNumbers(@, f, isNumber)]
    /\ statements' = IF tmeta THEN Append(statements, opensmile_message')
                              ELSE statements
    /\ FlagDown
    /\ left' = left \ {f}
    /\ next' = IF left = {f} THEN "tmeta:" ELSE "lld"
    /\ nanFrames' = IF isNumber THEN nanFrames ELSE nanFrames \cup {frame}
    /\ UNCHANGED <<frame, mentions>>

\* "lld.<field> = <value>"
LldLine(f, isNumber) ==
    /\ next = "lld" /\ f \in left
    /\ PublishChunk
    /\ opensmile_message' =
           [Published EXCEPT !.lld[f] = frame,
                             !.nan = NotNumbers(@, f, isNumber)]
    /\ FlagDown
    /\ left' = left \ {f}
    /\ next' = IF left = {f} THEN "tmeta:" ELSE "lld"
    /\ nanFrames' = IF isNumber THEN nanFrames ELSE nanFrames \cup {frame}
    /\ UNCHANGED <<frame, mentions>>

\* "tmeta:"
TmetaLine ==
    /\ next = "tmeta:"
    /\ tmeta' = TRUE
    /\ next' = "time"
    /\ UNCHANGED <<frame, left, nanFrames, mentions, opensmile_message, statements>>

\* A slip, for the mutants: the time is that of the following frame.
TimedNext == IF tmeta THEN [opensmile_message EXCEPT !.time = frame + 1]
                      ELSE opensmile_message

\* "time = <seconds>", which the processor reads only under the flag.
Timed == IF tmeta THEN [opensmile_message EXCEPT !.time = frame]
                  ELSE opensmile_message
TimeLine ==
    /\ next = "time"
    /\ opensmile_message' = Timed
    /\ next' = IF frame < MaxFrames THEN "lld" ELSE "end"
    /\ frame' = IF frame < MaxFrames THEN frame + 1 ELSE frame
    /\ left' = Fields
    /\ UNCHANGED <<nanFrames, mentions, tmeta, statements>>

\* Any other line with "lld" in it: it passes for a value, under a key that
\* is not in the column map.
MentionLine ==
    /\ mentions < MaxMentions /\ next # "end"
    /\ PublishChunk
    /\ opensmile_message' = [Published EXCEPT !.junk = TRUE]
    /\ FlagDown
    /\ mentions' = mentions + 1
    /\ UNCHANGED <<frame, next, left, nanFrames>>

\* A SIGTERM ends the process after any line: nothing is flushed.
Next == \/ \E f \in Fields, isNumber \in BOOLEAN : LldLine(f, isNumber)
        \/ TmetaLine
        \/ TimeLine
        \/ MentionLine

Spec == Init /\ [][Next]_vars

-----------------------------------------------------------------------------
(* Properties *)

Message == [lld : [Fields -> 0..MaxFrames], nan : SUBSET Fields,
            junk : BOOLEAN, time : 0..MaxFrames, tagged : BOOLEAN]

\* The sink is at some line of some frame; the object and its published copies
\* hold values of frames that were printed.
TypeOK ==
    /\ frame \in 1..MaxFrames
    /\ next \in {"lld", "tmeta:", "time", "end"}
    /\ left \subseteq Fields
    /\ nanFrames \subseteq 1..MaxFrames
    /\ mentions \in 0..MaxMentions
    /\ opensmile_message \in Message
    /\ tmeta \in BOOLEAN
    /\ statements \in Seq(Message)

\* The i-th INSERT carries the values of frame i, all of them and no others:
\* the object that is never reset mixes no two frames, whatever else is logged.
OneStatementPerFrame ==
    \A i \in 1..Len(statements) : statements[i].lld = [f \in Fields |-> i]

\* The frames completely printed are all published but the latest.  That one waits
\* for a successor, unless a mention publishes it: a session that ends always loses
\* its last frame, and no other.
Printed == IF next = "end" THEN frame ELSE frame - 1
LagsByOne == /\ Len(statements) + 1 >= Printed
             /\ Len(statements) <= frame
             /\ mentions = 0 => Len(statements) < frame

\* A row has the time of its own frame.  A mention between "tmeta:" and "time"
\* breaks this for one row only, and that row is the last one stored.
TimesMatch ==
    \A i \in Stored :
        \/ statements[i].time = i
        \/ /\ mentions > 0 /\ statements[i].time = i - 1
           /\ \A j \in Stored : j <= i

\* The ids are set after the publication they should be part of: the first row
\* of every session belongs to no participant and no trial (FeaturesBetween
\* and ClearTrial never find it), every other row is tagged.
OnlyFirstUntagged ==
    \A i \in 1..Len(statements) : statements[i].tagged <=> i > 1

\* A value that is not a number costs the row of its own frame and no other.
NanCostsOwnRow ==
    \A i \in 1..Len(statements) :
        i \notin Stored <=> i \in nanFrames \/ statements[i].junk

\* From the first line that mentions lld on, the session stores nothing more.
MentionEndsStorage == [][mentions > 0 => Stored' = Stored]_vars
=============================================================================
