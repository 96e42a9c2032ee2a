# The speech analyzer in TLA+

A verification project for `tomcat-speechAnalyzer`: specifications of its
components, TLC configurations that check them on small instances, and TLAPS
proofs for every value of the constants.  Paths below are relative to the root
of the repository as `src/...`.

## 1. Inventory

The program is one process, the **Manager**, that forks one **session** process
per participant of a trial.

```
 testbed --"trial"--------> Manager (listener thread) --fork / SIGTERM--> session, one per participant
 ASR ----"agent/asr/final"-> Manager --one detached thread per message--> ASRProcessor
 audio --"<participant>"--> session listener thread -> base64 -> openSMILE
                            session main thread: smile_run -> log_callback -> OpensmileProcessor
 OpensmileProcessor --INSERT--> PostgreSQL <--SELECT-- ASRProcessor -> MMC server, MQTT
 Manager --DELETE-------------> PostgreSQL
```

| Component | State | Operations | Correct when | Modules |
|---|---|---|---|---|
| connection pool of `DBWrapper` | stack of connections, mutex, condition | `GetConnection`, `FreeConnection`, used by `PublishChunk`, `ClearTrial`, `FeaturesBetween` | a connection has one user; every call returns | `ConnectionPool`, `DBWrapper` |
| `OpensmileProcessor` | accumulated json object, `tmeta` flag | `ProcessOpensmileLog`, once per log line | a row holds one frame, with its time and ids | `OpensmileProcessor` |
| `Manager` | vector of sessions | start, stop, ASR message | as many sessions of a participant as it was named; a stop ends all; a trial starts clean | `TrialSessions`, `Manager` |
| column map and start-up of `DBWrapper` | `column_map`, the connections opened | `InitializeColumnMap`, `InitializeConnections` | a column maps back to its field; statements reach the server | `ServerConnections` |
| `OpensmileSession` | pid, openSMILE handle, listener thread | fork, start-up, audio chunk, destructor | audio reaches openSMILE; the process ends when told to | seen from outside `Manager`, from inside `OpensmileSession` |
| `Mosquitto` | `running`, time of the latest message, `error_counter` | `connect`, `subscribe`, `loop`, `publish` | keeps hearing its topics; stops for a reason | `Mosquitto` |
| `ASRProcessor` | its own pool of 30, an MQTT client | `ProcessASRMessage` | each utterance is answered, with its own features | `ASRReplies`, `ASRProcessor` |
| Base64 | none | encode, decode, lengths | decoding inverts encoding; lengths suffice | `Base64` |
| `util`, `main`, `arguments` | none | callback, set-up | | `util` is the call into `OpensmileProcessor`; `main` starts the Manager of `ServerConnections` |
| Deployment | PostgreSQL's `max_connections`, restart policy | | | the server of `ServerConnections` |
| `MosquittoListener` | trial and experiment ids | `on_message` | never instantiated | none |

Hard to test here: threads on the pool; signals and database statements that race
with the next trial; forks in the middle of a loop; a connection lost at the wrong
moment; log lines that only look like values.  `PROJECT.json` lists the hazards
line by line with the properties that cover each.

## 2. Modules and the code

### DBWrapper, ConnectionPool (src/src/DBWrapper.cpp)
`connection_pool` is the stack (top last), `mutex` the owner of `connection_mutex`,
`pc[t]` the place of thread `t` in its call, `conn[t]` its `PGconn*`.  `LockGet`,
`Take`, `Wait` are `GetConnection` cut where another thread can run; `LockFree`,
`Push` are `FreeConnection`; `Exec` is the statement in between.  What the statement
returns is not modelled here because no caller looks at it on its way to
`FreeConnection`.  A C++ exception in the middle of `PublishChunk` (a value that is
not a number in the json object) cannot occur: the object's values are all set from
`atof`.  `calls` bounds the calls of each thread (`MaxCalls`).  `lowest` is a history
variable, the fewest connections the stack ever held: what lies below was never
touched (`ReusesNewest`).
`ConnectionPool` is the promise: connections are idle or lent to one caller.

### OpensmileProcessor (src/src/OpensmileProcessor.cpp)
The sink of openSMILE prints, per frame, one `lld.` line per field, `tmeta:`, and
`time = ...`; the actions are these lines and the stray line that mentions lld
(`MentionLine`, which openSMILE's messages about its lld components are).
`statements` is the sequence of objects `PublishChunk` turns into INSERTs.  A value
is the number of its frame and whether it is a number: that is all the properties
tell apart.  `Accepted` is what PostgreSQL does with the INSERT the code composes:
an unknown key becomes an empty column name, nan and inf are no SQL literals.
In `MentionLine` the stray line is one that does not name a column and is at least
four characters long.

### Manager, TrialSessions (src/src/Manager.cpp, process part of src/src/OpensmileSession.cpp)
`inbox` holds trial messages in the order of arrival.  `listener[Manager]` is the
listener thread: its place in `on_message` (`clear` before the DELETE, `fork` in the
loop of `InitializeParticipants`), the variables of that call, and the vector
`participant_sessions` as the set of its pids.  `players` is the vector of names of
`client_info`, in its order and with its repetitions (`Rosters`): every entry forks.

A fork copies the thread, so that `listener[p]` is the copy in session `p`.  It does
nothing before `smile_run` returns.  Then the session is a *stray*: its main thread
leaves the constructor, goes on with the rest of the loop, returns from `on_message`
into `loop` of the copied client, and reads from the Manager's own connection to the
broker.  `OnStart`, `ClearTrial`, `InitializeParticipant` and
`InitializeParticipantsDone` are therefore actions of any handler, and a message goes to
whichever handler reads it.  Messages have QoS 2, whose handshake takes several
packets: if two processes read them in turns the message is lost (`Lose`).  Strays
also share the Manager's connection to the database, so that a DELETE of theirs, or of
the Manager beside them, may fail.  In a stray the vector has the
sessions forked before its own, and then its own: the destructor of that one, which
has a `listener_thread` that can be joined, ends the process (`StrayStops`), and what
comes behind it in the vector is never signalled.

SIGTERM is `killed` first and `Terminate` later, an INSERT is `SendInsert` first and
`CommitInsert` later: nothing in the code waits for either.  A killed child whose
INSERT is under way may commit it after its death.  A row is the session it is from
and whether it has ids (`tagged`): the first INSERT of a session has none
(`OnlyFirstUntagged` of `OpensmileProcessor`), and the DELETE, which looks for a
trial's id, leaves such rows in the table for good (`RowsKept`).  A failed fork is the
pid `ForkFailed`, and a session with it signals every live process except the sender
and the Manager, as `kill(-1, SIGTERM)` does: the Manager is the first process of its
container, which gets no signal it has no handler for.  A process that crashes may
still be signalled harmlessly: it stays a zombie, so that its pid is not given again.
Abstracted: the experiment id; ASR messages (they change nothing of this state); the
Manager's own death.

`TrialSessions` is the promise as far as it is kept, without listeners, process table
and signals: a participant has no more current sessions than it was named since all
were closed, they are opened for the trial begun last, rows are cleared only then, and a
stop closes all the current ones at once.  What it cannot promise is in it too: a
session that was closed may still write (`Write`), after a DELETE as well, which is why
`StartsClean` fails; and a session may go astray, and then open sessions that are never
current (`OpenStray`), which is why `StopReachesAll` fails, clear any trial, and close
any sessions (`CloseStray`).

### Mosquitto (src/src/Mosquitto.cpp)
`pc` walks through `connect`, `subscribe`, and the three stations of `loop`
(`mosquitto_loop`, the tests after it, the reconnection).  Broker and network change
at any moment (`CutLink`, `BrokerChanges`); the clock ticks at any speed (`Tick`).
A failed `connect` returns like a successful one because `on_error` is empty.  The
broker forgets the subscriptions of a connection that ends (`SubscriptionLeft`),
because the constructor passes clean_session.  `heard`, `asked`, `reconnected` and
`failures` are history variables.

### ASRProcessor, ASRReplies (src/src/ASRProcessor.cpp, FeaturesBetween of src/src/DBWrapper.cpp)
Utterances are messages and threads alike.  `pc[u]` follows `ProcessASRMessage`:
`words` (between two words), `query` and `free` (inside `FeaturesBetween`), `mmc`,
`sentiment`, `personality`, then `done` or `dropped`.  The pool is `ConnectionPool`
itself (`Pool!Acquire`, `Pool!Release`): `DBWrapper` is shown to implement it, for
callers that borrow one connection at a time.  An exception that leaves a thread
ends the process (`up`).  `Remains` is the undefined behaviour of the query's
parameters: `values[0]` and `values[1]` point into destroyed strings, so that the
server reads the number meant, another number left by this or an earlier call of the
same thread, or no number (then it refuses, which looks like no rows).  Rows are
known by their time; which of them a word is given matters only in that they may lie
outside its window (`misaligned`).  The connection of the publishing client never
comes back, because nobody runs its `loop`.
`ASRReplies` is the promise: per utterance a sentiment, then a personality, once
each, or giving up at any point; nothing about the order of two utterances.

### Base64 (src/src/base64.c)
Pure functions.  A character is its place in `basis_64`, as `pr2six` gives it, and
every other character is `NotBasis`; a C string ends with one.  The loops over groups
of three bytes or four characters are given by what they store at each place, with the
index arithmetic of the code and its 8-bit truncation.  `nbytesdecoded` is what
`Base64decode` returns, `Base64decode_len` the bound its callers allocate.

### OpensmileSession (src/src/OpensmileSession.cpp)
The inside of one session from the fork on.  `pc` is the main thread in the
constructor, `message` the chunk the listener thread has in `on_message`; both share
`handle`.  The code neither guards nor initialises it: until `smile_new` has returned
a chunk meets an `indeterminate` handle, and a try may fail, like any other, or end the
process (`PublishChunkWild`).  The retries of `PublishChunk` that fail change nothing,
so that they are stuttering steps.  Audio is a string of bytes and goes through
`Base64encode` (the client's side) and `Base64decode`: `FloatChunk` is the vector of
floats the code ends up with, `Malformed` and `Corrupting` the messages whose size
arithmetic ends the process at once or leaves the memory of the vector.  How much
memory a vector has is the C library's (`Usable`).  `logLocked` is chosen in `Init`:
`fork` copies only the calling thread, so that the lock of the log stays locked in the
child if another thread of the Manager held it, and `connect`, which logs, hangs.
Once `smile_run` has returned the main thread runs the code of the Manager, as a
stray (see there).  What it does there is `Manager`'s; here it matters only that the
process may end of it, at any moment and for none of the reasons a session has
(`ManagerCodeEnds`), so that `EndsForCause` is about sessions whose `smile_run` has
not returned.  External: the client, openSMILE's source (a buffer that takes a chunk as a whole or
not at all), the allocator, the kernel.

### ServerConnections (constructor of DBWrapper, src/docker-compose.yml)
Every process that has a `DBWrapper`: `pc` is `map` and `open` in its constructor,
`ready` when openSMILE, or the Manager, runs, `returned` when `smile_run` has.  A file
is a sequence of words, whether it can be opened, and whether anything follows the
last word: that decides if `eof` is seen in the body of the loop or one round later
(`Rounds`), in which the extractions find no word and leave the strings as they are.
`Open` is one round of `InitializeConnections`: the connection is pushed whether the
server accepted it or not.  `Used` is the connection a process with one caller at a
time works with, which is `ReusesNewest` of `DBWrapper`; the Manager's is the one of
the pool it clears trials with, opened after the 30 of `ASRProcessor`.  The statements
of the ASR threads, which share those 30, are not repeated here.  A process that dies
closes nothing in order: the server gives its places away when it notices
(`Release`), and only once no process is left that has copies of the sockets
(`inherited`), which a child forked by a session gets.  `GoDown` and `ComeUp` are the
server's restart.  `peak` is a history variable.  The arithmetic of the real numbers:
31 + 4 * 100 = 431 places of 500 for one trial of four participants; while the sessions
of the trial before keep theirs it takes 831.

## 3. Runs

| Run | Question | Instance |
|---|---|---|
| `contended_pool` | connections exclusive, no lost wakeup, only the connections opened last are used, calls return, implements `ConnectionPool` | 4 threads, 2 connections, 2 calls each: two sleepers and two threads that return connections or overtake |
| `log_lines` | what rows hold, which are lost | 4 frames of 2 fields, 2 stray mentions: a first, a middle and a last frame after each kind of line |
| `trials` | sessions of a participant, origin of stale rows | 2 trials, 1 participant, named once or twice by each start, 3 messages, 2 processes, a fork that fails for the third: start, stop, start with every race, and starts without a stop |
| `stops` | the Manager's sessions stay tracked, a stop ends them, implements `TrialSessions` | 1 participant, 4 messages, 2 processes, `smile_run` returns, strays take messages and sessions, fair |
| `outages` | why a client stops, deafness after a reconnect | 3 cuts, time out after 2 ticks, 2 connection trials |
| `replies` | no connection waits for the MMC server, every utterance reaches it, implements `ASRReplies` | 3 utterances of 2 words over 1 connection, one malformed |
| `audio` | which chunks reach openSMILE, as what, and which end the session | 3 messages out of chunks of 0, 1, 2, 3, 10, 15 samples and one that is no json, a source of 3 samples |
| `connections` | whose statements fail, and for how long; what the column map says | the Manager (1 connection) and 2 sessions (2 each) for 3 places, strays, 1 restart, 5 files |

Four further runs are expected to be violated, each by one statement of the source
about itself:

| Run | Statement | What TLC shows |
|---|---|---|
| `dirty_start` | "Ready for next trial", "Clear trial in database" | start, stop, start: a row of the first session, ids and all, survives the DELETE |
| `deaf_stray` | "shutting down Opensmile sessions" | a session forked by a child whose `smile_run` returned is never signalled |
| `resubscribe` | "try to reconnect to the broker in case of unexpected disconnection" | reconnected, but without a subscription |
| `dangling` | "Generate aligned features" | the second word gets the row of the first, through a dangling parameter |

Two smaller disagreements are visible in `Mosquitto` without a run of their own:
`mosquitto_reconnect` is called once even when `try_reconnect` is false, and it is
attempted MAX_NUM_RECONNECTIONS + 1 times before `loop` gives up, because the counter
is compared after it was incremented (`GivesUp`, `TypeOK`).  A third is in
`OpensmileSession`: src/src/OpensmileSession.cpp:88 speaks of 16386 bytes, but for
16384 bytes of audio the vector has 16387, and one byte more than the floats hold is
copied, which lands in the slack of the allocation.  Of other lengths some are fatal
and some lose their last sample (`Fatal`, `Kept`).

Bounds.  Each bound lets the interesting case happen and be followed by one more
step of the same kind: two threads asleep while two connections come back, a restart after a restart, a frame
after a lost frame.  The proofs of section 5 remove them for safety.  `MaxOutages`,
`MaxMessages`, `MaxProcs`, `MaxFrames`, `MaxMentions`, `MaxRows`, `MaxCalls`, `MaxChunks`
and `MaxStatements` bound counters that the code does not bound; `BufferSize` stands
for openSMILE's buffer, small enough that chunks have to wait and that the longest
never fit.  The sample counts of `audio` are one for each case the size
arithmetic distinguishes (modulo three and twelve); `MaxProcs` is also the process table, so that a fork
fails when it is full.  Symmetry is used in `trials`
only, which has no liveness property.

Deadlock is checked in the runs of `DBWrapper`, whose `Finished` step marks the one
proper end.  It is not checked elsewhere: the log may end, the testbed may send no
more messages, a client whose `loop` has returned does nothing more, a session may
end or hang, and the statements of a process are bounded.

## 4. Fairness

* `DBWrapper`: weak fairness of every thread's own steps (the operating system runs
  every runnable thread), and spurious wakeups eventually cease for each run of
  calls.  Strong fairness of the mutex is not assumed: with finitely many calls weak
  fairness is enough.
* `Manager`: the listener thread handles each message that is left to it (the server
  answers every DELETE), and a SIGTERM is delivered eventually.  Two processes on one
  connection to the database can hold up each other's answers for good: the first
  assumption is only justified as long as there was no stray, and `StopEndsSessions`
  promises nothing after one (`returned`).  Nothing is assumed of senders, sessions or the
  server's commits.
* `Mosquitto`: the client's thread goes on and the clock ticks.  Nothing is assumed
  of broker and network.
* `ASRProcessor`: every thread's own steps, the borrowing of a connection included
  (`EveryCallReturns` of `DBWrapper` is what makes it fair).  The MMC server may
  never answer.
* `OpensmileSession`: the calls of the start-up return, the listener thread runs, and
  `smile_run` consumes what its source holds for as long as it has not returned.
  Nothing is assumed of the client, and nothing makes an indeterminate handle succeed.
* `ServerConnections`: a process goes on with its constructor; `PQconnectdb` returns,
  if only with a refusal.  Nothing is assumed of the server.

## 5. Proofs

Proved with TLAPS, for every value of the constants that satisfies the `ASSUME` of
each module.  Assumptions are those only.

* `DBWrapperProofs`: `PoolInv` = type + the owner of the mutex is inside a critical
  section (`LockOwner`) + a thread holds a connection exactly from `Take` to `Push`
  (`HoldsInUse`) + exclusivity; no part is inductive without the others, since `Push`
  returns a connection correctly only if the pusher held it alone.  For lost wakeups
  a cardinality argument: a wake adds an arrival whenever a push adds a connection.
  `PoolRefinement` maps each step to `Acquire`, `Release` or a stutter.  `OnlyNewestLent`
  turns the history variable into a fact about what callers get, which is what
  `ServerConnections` relies on with `Used`.  `NoDeadlock` is what of `EveryCallReturns`
  can be said without fairness: as long as a call is under way some thread in a call
  has a step whose guard holds.  With the stack empty that is a holder (`Accounting`),
  else an arrival (`NoLostWakeup`).
* `OpensmileProcessorProofs`: `LogInv` = where the sink is (`SinkInv`), how many rows
  were sent as a function of the flag (`CountInv`), what the object holds field by
  field (`ObjectInv`), and where nan values are (`NanInv`).
* `ManagerProofs`: `ManagerInv` = type + `Tracked` + `Raced`.  `Tracked` is
  `OwnSessionsTracked` and two counts: a participant's sessions and the mentions the
  Manager's loop has yet to come to are together no more than it was named
  (`PendingNamed`, of which `OneSessionPerName` is a part), and no mention is left when
  the loop is done (`IdleDone`).  `Raced` is `StaleRowsRaced` for those who may still
  write, not only for those who have (`WritersRaced`), with ids or about to get them,
  and that a DELETE looks back at processes there were (`ClearedPast`).
  `OnlyStraysEscape`: where `smile_run` never returns, `StopReachesAll`, which
  `deaf_stray` refutes, holds; failed forks, crashes and double starts do not break it.
  `ServiceRefinement` maps the process table to the sessions opened, a fork by the
  Manager to `Open` (by `PendingNamed`: the mention at hand is one more than there are
  sessions), a fork by a stray to `OpenStray`, the Manager's stop to `CloseAll` (by
  `OwnSessionsTracked`: a current session is in the vector), a stray's to `CloseStray`, a
  commit to `Write`, a death to `End`, and the rest to stutters.
* `MosquittoProofs`: the counter is the number of failures (`CountsFailures`), a
  connected client runs until one of two causes (`RunsUntilCause`), and the
  subscription is gone when a reconnect happens (`NoSubscriptionLeft`).
* `ASRProcessorProofs`: two threads that query have two connections (`OneQueryEach`,
  without which giving one back could give back another's), a querying thread has a
  word left (`WordLeft`), and the thread's place tells what it has published
  (`AnswersInv`: before the personality the sentiment is out, unless the link is gone
  for good).  `RepliesRefinement` maps a lost publication to giving up.  `AnyPoolSuffices`:
  if the pool has a connection at all, an utterance that is not yet at the MMC server is
  never stuck behind those that are.
* `Base64Proofs`: no state and no invariant.  `DecodeInvertsEncode` goes place by place:
  byte k of the decoded string comes from two characters of its group, which are
  arithmetic on the bytes of the original's group (`GroupInverse`, `EncodedAt`).  `DecodeFits` is about any text, not only
  encoded ones.
* `OpensmileSessionProofs`: types, then `AudioInv`: what was taken, and the message in
  `on_message`, are the chunks of what was heard, in order.  That a chunk is
  `Samples(audio)` for every audio is `DecodeInvertsEncode` and the size arithmetic;
  that nothing but a `Fatal` message corrupts memory is the arithmetic of `Usable`.
  `FatalByLength` is the converse too: `Fatal`, a condition on the number of samples
  modulo twelve, is exactly when the code's arithmetic goes wrong.  `WholeChunks` names
  the lengths that are safe and lose no sample; the 4096 samples the source speaks of are
  one of them.
* `ServerConnectionsProofs`: `FailsForCause` needs that connections are opened in order
  (`OpenedInOrder`), that before any restart one is served or refused (`Served`), and
  that a refusal means all places were taken (`RefusedForCause`), which is a count:
  the places taken are among those of the Manager and of the sessions of that moment,
  of which there are at most `peak` (`UsersCounted`, `CountPlaces`).  `FailsForGood` needs
  that a connection that is not served after its process is `ready` never is again
  (`GoneForGood`).  `ColumnsMapBack` is about what a loop computes, for files of any
  length: the map after round n is `MapOf`, a recursive function, and the induction over
  the rounds is done by the least counterexample (`Least`, from well-foundedness of the
  natural numbers), because the induction theorems of the library, which take an operator
  as a parameter, cannot be instantiated.  `EnoughPlaces` puts a number on
  `FailsForCause`: with places for the Manager and for every session there ever is, only
  a restart of the server makes statements fail.

Only model-checked: the liveness properties `EveryCallReturns`, `StopEndsSessions`,
`OneReconnectEndsLoop`, `EveryUtteranceAsked`, `ChunksTaken` and `StartsUp` (liveness
under fairness is outside TLAPS), and the four violations.  Every safety property and
every refinement the runs check is also a theorem.  The models declare no RECURSIVE
operators.

## 6. Not modelled, and why

Logging, option parsing and json formatting carry no state.  `MosquittoListener`,
`Mosquitto::close` and `util`'s `fail` are never used.  Build files, the
openSMILE configuration and test recordings are not part of the running program.
Options and formats of `main` are constants of the run.

The Manager's own end ends its container and the sessions with it, so that no property
of theirs says anything about it; `ASRProcessor` models what it means for utterances
(`up`).  The Manager and the insides of its sessions are not composed: what they share
is the fork and the SIGTERM, which both models have with the same effect, and the
server's places, which `ServerConnections` has.

Of what a stray can do on the Manager's connections, `Manager` has the trial messages,
the DELETEs and the lost messages.  Left out: ASR messages a stray takes and answers
itself, on copies of the connections of `ASRProcessor`; packets cut in two by two
readers, which can make either client reconnect under the name they share, so that the
broker ends the other's connection (`Mosquitto` is a client that is alone on its
connection); statements a stray sends over inherited connections, of which
`ServerConnections` has only the places they take.  A Manager that is cut off in one of
these ways hears no more starts and stops, which in `Manager` is a run in which all
later messages are lost.

## 7. What is left

`TrialSessions` would promise clean starts and stops that reach every session if the
code joined its sessions (a `waitpid` in the destructor, an `_exit` after `smile_run`);
until then it states what holds instead.  An instance of
`ServerConnections` with the pool of `ASRProcessor` in use would add statements that
fail for a thread, not for a process.
