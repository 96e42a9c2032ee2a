--------------------------- MODULE OpensmileSession ---------------------------
(***************************************************************************)
(* A session process from its fork on (src/src/OpensmileSession.cpp): the  *)
(* main thread connects to the broker, starts the listener thread, builds  *)
(* the processor and runs openSMILE, while the listener decodes chunks of  *)
(* audio and pushes them into openSMILE.  The two threads share the member *)
(* handle, which nothing guards and nothing initialises.                   *)
(*                                                                         *)
(* Audio is a string of bytes, four to a sample, as the client encodes it. *)
(* openSMILE's external source is a buffer that takes a chunk as a whole   *)
(* or not at all.                                                          *)
(***************************************************************************)
EXTENDS Base64, FiniteSets

CONSTANTS Audio,        \* the chunks of audio the client may send
          NotJson,      \* a message that is no chunk
          MaxChunks,    \* bound: the messages sent
          BufferSize    \* the samples openSMILE's external source holds

\* Samples are floats of four bytes.
ASSUME SessionAssumption == /\ Audio \subseteq {a \in Seq(Byte) : Len(a) % 4 = 0}
                            /\ NotJson \notin Seq(Byte)
                            /\ MaxChunks \in Nat
                            /\ BufferSize \in Nat

VARIABLES
    alive,          \* whether the process is
    killed,         \* whether the Manager has sent SIGTERM
    \* The main thread.
    pc,             \* where it is in the constructor
    logLocked,      \* a thread of the Manager held the lock of the log at the fork
    handle,         \* the openSMILE instance, as far as it is set up
    \* The listener thread.
    inbox,          \* messages that wait in the connection
    message,        \* the message in on_message, if any
    \* openSMILE.
    buffered,       \* the samples in its source
    taken,          \* the chunks it has taken
    \* History.
    heard           \* the messages on_message was called with

main == <<pc, logLocked, handle>>
listener == <<inbox, message, heard>>
smile == <<buffered, taken>>
vars == <<alive, killed, main, listener, smile>>

Nothing == <<>>     \* message, between two calls of on_message

Init ==
    /\ alive = TRUE /\ killed = FALSE
    /\ pc = "connect" /\ logLocked \in BOOLEAN
    /\ handle = "indeterminate"
    /\ inbox = <<>> /\ message = Nothing /\ heard = <<>>
    /\ buffered = 0 /\ taken = <<>>

-----------------------------------------------------------------------------
(* The main thread *)

Goto(from, to) == alive /\ pc = from /\ pc' = to

\* connect, subscribe, and the thread that runs loop.  connect logs, with a log
\* whose lock stays locked if another thread of the Manager held it at the fork.
Connect ==
    /\ Goto("connect", "processor") /\ ~logLocked
    /\ UNCHANGED <<alive, killed, logLocked, handle, listener, smile>>

CreateProcessor ==
    /\ Goto("processor", "new")
    /\ UNCHANGED <<alive, killed, logLocked, handle, listener, smile>>

\* A slip, for the mutants: a local variable that hides the member.
HandleShadowed(h) == handle' = handle
HandleIs(h) == handle' = h

SmileNew ==
    /\ Goto("new", "initialize")
    /\ HandleIs("created")
    /\ UNCHANGED <<alive, killed, logLocked, listener, smile>>

SmileInitialize ==
    /\ Goto("initialize", "run")
    /\ HandleIs("initialized")
    /\ UNCHANGED <<alive, killed, logLocked, listener, smile>>

\* smile_run takes samples out of the source.
SmileRun ==
    /\ alive /\ pc = "run" /\ buffered > 0
    /\ buffered' \in 0..(buffered - 1)
    /\ UNCHANGED <<alive, killed, main, listener, taken>>

\* It returns on errors.  The listener thread goes on, and so does the main thread,
\* as a copy of the Manager's (see Manager).
SmileReturns ==
    /\ Goto("run", "returned")
    /\ UNCHANGED <<alive, killed, logLocked, handle, listener, smile>>

-----------------------------------------------------------------------------
(* The listener thread *)

\* The client sends; nothing reaches the process before it has subscribed.
Send(m) ==
    /\ alive /\ pc # "connect" /\ Len(heard) + Len(inbox) < MaxChunks
    /\ inbox' = Append(inbox, m)
    /\ UNCHANGED <<alive, killed, main, message, heard, smile>>

\* For the mutants: two bytes more are cut off.
DecodedShorter(t) ==
    LET d == Base64decode(t)
    IN  [k \in 1..(Base64decode_len(t) - 2) |-> IF k <= Len(d) THEN d[k] ELSE 0]

\* The vector decoded of on_message: what Base64decode wrote, then zeros.
Decoded(t) ==
    LET d == Base64decode(t)
    IN  [k \in 1..Base64decode_len(t) |-> IF k <= Len(d) THEN d[k] ELSE 0]

\* The bytes memcpy copies, and the floats of the vector it copies them to.
Copied(t) == Len(Decoded(t)) - 2
Floats(t) == Copied(t) \div 4

FloatChunk(t) ==
    LET decoded == Decoded(t)
    IN  [i \in 1..Floats(t) |-> [b \in 1..4 |-> decoded[4 * (i - 1) + b]]]

\* What malloc gives a vector of n floats: a multiple of sixteen bytes less
\* eight, at least 24.
Usable(n) == IF n <= 6 THEN 24 ELSE ((4 * n + 23) \div 16) * 16 - 8

\* Of an empty text the size wraps around, and the vector throws.  If there is
\* no float, memcpy writes to where a null pointer points.
NoFloat(t) == Floats(t) < 1

\* The bytes past the last float reach memory of the allocator.
Corrupts(t) == Copied(t) > Usable(Floats(t))

\* What on_message makes of each chunk the client encodes.
ChunkOf == [audio \in Audio |-> FloatChunk(Base64encode(audio))]

\* The messages that end the process at once: one that is not json throws, and
\* nobody catches.
Malformed == {NotJson} \cup {audio \in Audio : NoFloat(Base64encode(audio))}

\* Those after which it may end at any time.
Corrupting == {audio \in Audio : Corrupts(Base64encode(audio))}

End == /\ alive' = FALSE
       /\ UNCHANGED <<killed, main, inbox, message, smile>>

Hear == /\ alive /\ inbox # <<>> /\ message = Nothing
        /\ heard' = Append(heard, Head(inbox))

OnMessage ==
    /\ Hear /\ Head(inbox) \notin Malformed
    /\ message' = <<ChunkOf[Head(inbox)]>>
    /\ inbox' = Tail(inbox)
    /\ UNCHANGED <<alive, killed, main, smile>>

\* An exception or a signal ends the process.
OnMessageEnds ==
    /\ Hear /\ Head(inbox) \in Malformed
    /\ End

\* An allocator whose memory was overwritten may end the process at any time.
Abort ==
    /\ alive
    /\ \E i \in 1..Len(heard) : heard[i] \in Corrupting
    /\ End
    /\ UNCHANGED heard

\* For the mutants: room in an empty source.
TakesIfSmall(chunk) == Len(chunk) <= BufferSize
TakesAll(chunk) == buffered + Len(chunk) <= BufferSize

\* PublishChunk succeeds when the source has room for the whole chunk; until
\* then it tries again, without a pause.
PublishChunk ==
    /\ alive /\ message # Nothing /\ handle = "initialized"
    /\ TakesAll(message[1])
    /\ buffered' = buffered + Len(message[1])
    /\ taken' = Append(taken, message[1])
    /\ message' = Nothing
    /\ UNCHANGED <<alive, killed, main, inbox, heard>>

\* As long as handle is indeterminate, a try may just fail, or be the end.
PublishChunkWild ==
    /\ alive /\ message # Nothing /\ handle = "indeterminate"
    /\ End
    /\ UNCHANGED heard

-----------------------------------------------------------------------------
(* SIGTERM *)

Kill == /\ ~killed /\ killed' = TRUE
        /\ UNCHANGED <<alive, main, listener, smile>>

Terminate == /\ alive /\ killed
             /\ End
             /\ UNCHANGED heard

-----------------------------------------------------------------------------
(* The code of the Manager, once smile_run has returned *)

\* A trial message that is not as expected throws, and a stop destroys this session,
\* whose listener_thread can be joined (std::terminate).
ManagerCodeEnds == /\ alive /\ pc = "returned"
                   /\ End
                   /\ UNCHANGED heard

StartUp == Connect \/ CreateProcessor \/ SmileNew \/ SmileInitialize
Listener == OnMessage \/ OnMessageEnds \/ PublishChunk

Next == \/ StartUp \/ SmileRun \/ SmileReturns
        \/ \E m \in Audio \cup {NotJson} : Send(m)
        \/ Listener \/ PublishChunkWild \/ Abort
        \/ Kill \/ Terminate \/ ManagerCodeEnds

Spec == Init /\ [][Next]_vars

\* Both threads run, and smile_run consumes what is in its source until it
\* returns; the calls of the start-up return.
FairSpec == /\ Spec
            /\ WF_vars(StartUp) /\ WF_vars(Listener) /\ WF_vars(SmileRun)

-----------------------------------------------------------------------------
(* Properties *)

Sample == [1..4 -> Byte]

\* The threads are at known points, openSMILE's source does not overflow.
TypeOK ==
    /\ alive \in BOOLEAN /\ killed \in BOOLEAN /\ logLocked \in BOOLEAN
    /\ pc \in {"connect", "processor", "new", "initialize", "run", "returned"}
    /\ handle \in {"indeterminate", "created", "initialized"}
    /\ inbox \in Seq(Audio \cup {NotJson}) /\ heard \in Seq(Audio \cup {NotJson})
    /\ message \in Seq(Seq(Sample)) /\ Len(message) <= 1
    /\ buffered \in 0..BufferSize
    /\ taken \in Seq(Seq(Sample))

\* What is left of a chunk of k samples on its way through base64 and memcpy:
\* the last sample is cut off if k is a multiple of three.
Kept(k) == IF k % 3 = 0 THEN k - 1 ELSE k
Samples(audio) ==
    [i \in 1..Kept(Len(audio) \div 4) |-> [b \in 1..4 |-> audio[4 * (i - 1) + b]]]

\* openSMILE is given the chunks in the order they came in, none twice and none
\* left out, with the samples the client encoded.
AudioIntact ==
    /\ Len(taken) <= Len(heard)
    /\ alive => Len(heard) - Len(taken) = Len(message)
    /\ \A i \in 1..Len(taken) : taken[i] = Samples(heard[i])

\* The messages that may end the process: no json, no samples, or numbers of
\* samples for which memcpy leaves the memory of the vector.  Chunks of 4096
\* samples, the 16384 bytes the code speaks of, are not among them.
Fatal(m) ==
    \/ m = NotJson
    \/ LET k == Len(m) \div 4 IN k = 0 \/ k % 12 = 10 \/ (k % 12 = 3 /\ k > 3)

\* Unless it is told to, a session ends for no other reason than one of those
\* messages from when it has set its handle until smile_run returns.
EndsForCause ==
    ~alive /\ ~killed /\ handle # "indeterminate" /\ pc # "returned" =>
        \E i \in 1..Len(heard) : Fatal(heard[i])

\* A chunk that has been heard goes to openSMILE in the end, however often it
\* is refused and even if it came before openSMILE was there; unless it never
\* fits, smile_run has returned, or the process has ended.
ChunksTaken ==
    message # Nothing ~>
        \/ message = Nothing \/ Len(message[1]) > BufferSize
        \/ pc = "returned" \/ ~alive
=============================================================================
