------------------------ MODULE OpensmileSessionProofs ------------------------
(***************************************************************************)
(* Proofs about the session process, for chunks of any number of samples,  *)
(* any number of chunks and any size of openSMILE's source.                *)
(***************************************************************************)
EXTENDS OpensmileSession, Base64Proofs

-----------------------------------------------------------------------------
(* What on_message makes of a chunk *)

\* A chunk of k samples is k threes of four bytes and a third.
LEMMA SamplesOfBytes ==
    ASSUME NEW a \in Audio
    PROVE  /\ a \in Seq(Byte) /\ Len(a) \in Nat
           /\ Len(a) \div 4 \in Nat /\ Len(a) = 4 * (Len(a) \div 4)
  <1>1. a \in Seq(Byte) /\ Len(a) % 4 = 0
    BY SessionAssumption DEF SessionAssumption
  <1>2. Len(a) \in Nat
    BY <1>1
  <1> QED
    BY <1>1, <1>2

LEMMA DecodedLength ==
    ASSUME NEW a \in Audio
    PROVE  /\ Len(Decoded(Base64encode(a))) = 3 * ((Len(a) + 2) \div 3) + 1
           /\ \A j \in 1..Len(a) : Decoded(Base64encode(a))[j] = a[j]
  <1> DEFINE t == Base64encode(a)
             d == Base64decode(t)
             L == Base64decode_len(t)
  <1>1. a \in Seq(Byte) /\ Len(a) \in Nat
    BY SamplesOfBytes
  <1>2. nprbytes(t) = Chars(Len(a))
    BY <1>1, EncodedLength
  <1>3. L = 3 * ((Len(a) + 2) \div 3) + 1
    BY <1>1, <1>2 DEF Base64decode_len, Chars
  <1>4. L \in Nat /\ Len(a) <= L
    BY <1>1, <1>3
  <1>5. Len(d) = Len(a) + 1 /\ \A j \in 1..Len(a) : d[j] = a[j]
    BY <1>1, DecodeInvertsEncode
  <1>6. Decoded(t) = [j \in 1..L |-> IF j <= Len(d) THEN d[j] ELSE 0]
    BY DEF Decoded
  <1> HIDE DEF t, d, L
  <1>7. Len(Decoded(t)) = L
    BY <1>4, <1>6
  <1>8. ASSUME NEW j \in 1..Len(a)
        PROVE  Decoded(t)[j] = a[j]
    BY <1>1, <1>4, <1>5, <1>6
  <1> QED
    BY <1>3, <1>7, <1>8 DEF t

\* The size of a chunk of k samples, k = 12 q + r.
LEMMA ChunkSizes ==
    ASSUME NEW a \in Audio, NEW q \in Nat, NEW r \in 0..11,
           Len(a) \div 4 = 12 * q + r
    PROVE  /\ Copied(Base64encode(a)) = 48 * q + 3 * ((4 * r + 2) \div 3) - 1
           /\ Floats(Base64encode(a)) =
                  12 * q + (3 * ((4 * r + 2) \div 3) - 1) \div 4
  <1>1. Len(a) \in Nat /\ Len(a) = 48 * q + 4 * r
    BY SamplesOfBytes
  <1>2. (Len(a) + 2) \div 3 = 16 * q + (4 * r + 2) \div 3
    BY <1>1
  <1>3. Copied(Base64encode(a)) = 48 * q + 3 * ((4 * r + 2) \div 3) - 1
    BY <1>2, DecodedLength DEF Copied
  <1> QED
    BY <1>3 DEF Floats

LEMMA Twelves ==
    ASSUME NEW k \in Nat
    PROVE  \E q \in Nat, r \in 0..11 : k = 12 * q + r
  <1>1. k = 12 * (k \div 12) + (k % 12) /\ k \div 12 \in Nat /\ (k % 12) \in 0..11
    OBVIOUS
  <1> QED
    BY <1>1

\* The samples that arrive are the samples sent, but for the last one.
LEMMA ChunkIsSamples ==
    ASSUME NEW a \in Audio
    PROVE  /\ FloatChunk(Base64encode(a)) = Samples(a)
           /\ Samples(a) \in Seq(Sample)
  <1> DEFINE k == Len(a) \div 4
             t == Base64encode(a)
  <1>1. a \in Seq(Byte) /\ k \in Nat /\ Len(a) = 4 * k
    BY SamplesOfBytes
  <1>2. PICK q \in Nat, r \in 0..11 : k = 12 * q + r
    BY <1>1, Twelves
  <1>3. Floats(t) = 12 * q + (3 * ((4 * r + 2) \div 3) - 1) \div 4
    BY <1>2, ChunkSizes
  <1>4. Floats(t) = Kept(k)
    BY <1>2, <1>3 DEF Kept
  <1>5. Kept(k) <= k /\ Kept(k) \in Int
    BY <1>1 DEF Kept
  <1>6. \A j \in 1..Len(a) : Decoded(t)[j] = a[j] /\ a[j] \in Byte
    BY <1>1, DecodedLength
  <1> HIDE DEF k, t
  <1>7. \A i \in 1..Kept(k), b \in 1..4 : 4 * (i - 1) + b \in 1..Len(a)
    BY <1>1, <1>5
  <1>8. FloatChunk(t) = [i \in 1..Kept(k) |->
                            [b \in 1..4 |-> Decoded(t)[4 * (i - 1) + b]]]
    BY <1>4 DEF FloatChunk
  <1>9. Samples(a) = [i \in 1..Kept(k) |-> [b \in 1..4 |-> a[4 * (i - 1) + b]]]
    BY DEF Samples, k
  <1>10. \A i \in 1..Kept(k), b \in 1..4 :
             /\ Decoded(t)[4 * (i - 1) + b] = a[4 * (i - 1) + b]
             /\ a[4 * (i - 1) + b] \in Byte
    BY <1>6, <1>7
  <1>11. FloatChunk(t) = Samples(a)
    BY <1>8, <1>9, <1>10
  <1>12. \A i \in 1..Kept(k) : [b \in 1..4 |-> a[4 * (i - 1) + b]] \in Sample
    BY <1>10 DEF Sample
  <1>13. Samples(a) \in Seq(Sample)
    <2>1. CASE Kept(k) \in Nat
      BY <1>9, <1>12, <2>1
    <2>2. CASE Kept(k) < 1
      <3>1. 1..Kept(k) = 1..0
        BY <1>5, <2>2
      <3>2. Samples(a) = [i \in 1..0 |-> [b \in 1..4 |-> a[4 * (i - 1) + b]]]
        BY <1>9, <3>1
      <3> QED
        BY <3>2
    <2> QED
      BY <1>5, <2>1, <2>2
  <1> QED
    BY <1>11, <1>13 DEF t

\* Only the numbers of samples of Fatal make a chunk without floats, or one
\* that does not end with its vector.
LEMMA FatalChunks ==
    ASSUME NEW a \in Audio, NoFloat(Base64encode(a)) \/ Corrupts(Base64encode(a))
    PROVE  Fatal(a)
  <1> DEFINE k == Len(a) \div 4
             t == Base64encode(a)
  <1>1. k \in Nat
    BY SamplesOfBytes
  <1>2. PICK q \in Nat, r \in 0..11 : k = 12 * q + r
    BY <1>1, Twelves
  <1>3. /\ Copied(t) = 48 * q + 3 * ((4 * r + 2) \div 3) - 1
        /\ Floats(t) = 12 * q + (3 * ((4 * r + 2) \div 3) - 1) \div 4
    BY <1>2, ChunkSizes
  <1>4. NoFloat(t) \/ Corrupts(t)
    OBVIOUS
  <1> HIDE DEF k, t
  <1>5. k = 0 \/ k % 12 = 10 \/ (k % 12 = 3 /\ k > 3)
    BY <1>2, <1>3, <1>4 DEF NoFloat, Corrupts, Usable
  <1> QED
    BY <1>5 DEF Fatal, k

\* And each of these numbers does.
LEMMA FatalNumbers ==
    ASSUME NEW a \in Audio, a # NotJson, Fatal(a)
    PROVE  NoFloat(Base64encode(a)) \/ Corrupts(Base64encode(a))
  <1> DEFINE k == Len(a) \div 4
             t == Base64encode(a)
  <1>1. k \in Nat
    BY SamplesOfBytes
  <1>2. PICK q \in Nat, r \in 0..11 : k = 12 * q + r
    BY <1>1, Twelves
  <1>3. /\ Copied(t) = 48 * q + 3 * ((4 * r + 2) \div 3) - 1
        /\ Floats(t) = 12 * q + (3 * ((4 * r + 2) \div 3) - 1) \div 4
    BY <1>2, ChunkSizes
  <1>4. k = 0 \/ k % 12 = 10 \/ (k % 12 = 3 /\ k > 3)
    BY DEF Fatal
  <1> HIDE DEF k, t
  <1>5. CASE k = 0
    <2>1. q = 0 /\ r = 0
      BY <1>2, <1>5
    <2>2. Floats(t) < 1
      BY <1>3, <2>1
    <2> QED
      BY <2>2 DEF NoFloat, t
  <1>6. CASE k % 12 = 10
    <2>1. r = 10
      BY <1>2, <1>6
    <2>2. Copied(t) = 48 * q + 41 /\ Floats(t) = 12 * q + 10
      BY <1>3, <2>1
    <2>3. Usable(Floats(t)) = 48 * q + 40
      BY <2>2 DEF Usable
    <2> QED
      BY <2>2, <2>3 DEF Corrupts, t
  <1>7. CASE k % 12 = 3 /\ k > 3
    <2>1. r = 3 /\ q > 0
      BY <1>2, <1>7
    <2>2. Copied(t) = 48 * q + 11 /\ Floats(t) = 12 * q + 2
      BY <1>3, <2>1
    <2>3. Usable(Floats(t)) = 48 * q + 8
      BY <2>1, <2>2 DEF Usable
    <2> QED
      BY <2>2, <2>3 DEF Corrupts, t
  <1> QED
    BY <1>4, <1>5, <1>6, <1>7

\* The messages that end a session, at once or by what they do to memory, are known
\* by their number of samples alone (OpensmileSession.cpp:87-91): no other is fatal,
\* and each of these is.
THEOREM FatalByLength ==
    Malformed \cup Corrupting = {m \in Audio \cup {NotJson} : Fatal(m)}
  <1>1. ASSUME NEW m \in Malformed \cup Corrupting
        PROVE  m \in Audio \cup {NotJson} /\ Fatal(m)
    <2>1. CASE m = NotJson
      BY <2>1 DEF Fatal
    <2>2. CASE m # NotJson
      BY <1>1, <2>2, FatalChunks DEF Malformed, Corrupting
    <2> QED
      BY <2>1, <2>2
  <1>2. ASSUME NEW m \in Audio \cup {NotJson}, Fatal(m)
        PROVE  m \in Malformed \cup Corrupting
    <2>1. CASE m = NotJson
      BY <2>1 DEF Malformed
    <2>2. CASE m # NotJson
      BY <1>2, <2>2, FatalNumbers DEF Malformed, Corrupting
    <2> QED
      BY <2>1, <2>2
  <1> QED
    BY <1>1, <1>2

\* A number of samples that is neither a multiple of three nor ten more than a multiple
\* of twelve, such as the 4096 = 12 * 341 + 4 samples on_message is written for
\* (OpensmileSession.cpp:88), reaches openSMILE with every sample, although the size
\* that is copied is not that of the samples.
THEOREM WholeChunks ==
    ASSUME NEW a \in Audio, NEW k \in Nat, Len(a) = 4 * k,
           k % 12 \in {1, 2, 4, 5, 7, 8, 11}
    PROVE  /\ FloatChunk(Base64encode(a)) =
                  [i \in 1..k |-> [b \in 1..4 |-> a[4 * (i - 1) + b]]]
           /\ ~ NoFloat(Base64encode(a)) /\ ~ Corrupts(Base64encode(a))
  <1>1. Len(a) \div 4 = k
    OBVIOUS
  <1>2. PICK q \in Nat, r \in 0..11 : k = 12 * q + r
    BY Twelves
  <1>3. r \in {1, 2, 4, 5, 7, 8, 11}
    BY <1>2
  <1>4. Kept(k) = k
    BY <1>2, <1>3 DEF Kept
  <1>5. ~ Fatal(a)
    <2>1. NotJson \notin Seq(Byte)
      BY SessionAssumption DEF SessionAssumption
    <2>2. a # NotJson
      BY <2>1, SamplesOfBytes
    <2>3. k # 0 /\ k % 12 # 10 /\ k % 12 # 3
      BY <1>2, <1>3
    <2> QED
      BY <1>1, <2>2, <2>3 DEF Fatal
  <1>6. Samples(a) = [i \in 1..k |-> [b \in 1..4 |-> a[4 * (i - 1) + b]]]
    BY <1>1, <1>4 DEF Samples
  <1> QED
    BY <1>5, <1>6, ChunkIsSamples, FatalChunks

-----------------------------------------------------------------------------
(* Types *)

\* TypeOK in two parts, since no step needs both.
FlagsOK ==
    /\ alive \in BOOLEAN /\ killed \in BOOLEAN /\ logLocked \in BOOLEAN
    /\ pc \in {"connect", "processor", "new", "initialize", "run", "returned"}
    /\ handle \in {"indeterminate", "created", "initialized"}

DataOK ==
    /\ inbox \in Seq(Audio \cup {NotJson}) /\ heard \in Seq(Audio \cup {NotJson})
    /\ message \in Seq(Seq(Sample)) /\ Len(message) <= 1
    /\ buffered \in 0..BufferSize
    /\ taken \in Seq(Seq(Sample))

LEMMA FlagsStep == FlagsOK /\ [Next]_vars => FlagsOK'
  <1> SUFFICES ASSUME FlagsOK, [Next]_vars
               PROVE  FlagsOK'
    OBVIOUS
  <1> USE DEF FlagsOK, Goto, End, Hear, main
  <1>1. CASE Connect
    BY <1>1 DEF Connect
  <1>2. CASE CreateProcessor
    BY <1>2 DEF CreateProcessor
  <1>3. CASE SmileNew
    BY <1>3 DEF SmileNew, HandleIs
  <1>4. CASE SmileInitialize
    BY <1>4 DEF SmileInitialize, HandleIs
  <1>5. CASE SmileRun
    BY <1>5 DEF SmileRun
  <1>6. CASE SmileReturns
    BY <1>6 DEF SmileReturns
  <1>7. CASE \E m \in Audio \cup {NotJson} : Send(m)
    BY <1>7 DEF Send
  <1>8. CASE OnMessage
    BY <1>8 DEF OnMessage
  <1>9. CASE OnMessageEnds
    BY <1>9 DEF OnMessageEnds
  <1>10. CASE PublishChunk
    BY <1>10 DEF PublishChunk
  <1>11. CASE PublishChunkWild
    BY <1>11 DEF PublishChunkWild
  <1>12. CASE Abort
    BY <1>12 DEF Abort
  <1>13. CASE Kill
    BY <1>13 DEF Kill
  <1>14. CASE Terminate
    BY <1>14 DEF Terminate
  <1>15. CASE ManagerCodeEnds
    BY <1>15 DEF ManagerCodeEnds
  <1>16. CASE UNCHANGED vars
    BY <1>16 DEF vars
  <1> QED
    BY <1>1, <1>2, <1>3, <1>4, <1>5, <1>6, <1>7, <1>8, <1>9, <1>10, <1>11, <1>12,
       <1>13, <1>14, <1>15, <1>16 DEF Next, StartUp, Listener

\* What a step does to the data, if it is no step of the listener thread's.
Quiet == UNCHANGED <<inbox, message, heard, taken>>

\* Every step is one of seven kinds.
LEMMA Kinds ==
    ASSUME [Next]_vars
    PROVE  \/ Quiet /\ (buffered' = buffered \/ SmileRun)
           \/ \E m \in Audio \cup {NotJson} : Send(m)
           \/ OnMessage \/ OnMessageEnds \/ PublishChunk
  <1> USE DEF Quiet, End, listener, smile
  <1>1. CASE StartUp
    BY <1>1 DEF StartUp, Connect, CreateProcessor, SmileNew, SmileInitialize
  <1>2. CASE SmileRun \/ SmileReturns
    BY <1>2 DEF SmileRun, SmileReturns
  <1>3. CASE PublishChunkWild \/ Abort \/ Terminate \/ ManagerCodeEnds
    BY <1>3 DEF PublishChunkWild, Abort, Terminate, ManagerCodeEnds
  <1>4. CASE Kill
    BY <1>4 DEF Kill
  <1>5. CASE UNCHANGED vars
    BY <1>5 DEF vars
  <1> QED
    BY <1>1, <1>2, <1>3, <1>4, <1>5 DEF Next, Listener

LEMMA DataStep == DataOK /\ [Next]_vars => DataOK'
  <1> SUFFICES ASSUME DataOK, [Next]_vars
               PROVE  DataOK'
    OBVIOUS
  <1>1. CASE Quiet /\ buffered' = buffered
    BY <1>1 DEF Quiet, DataOK
  <1>2. CASE Quiet /\ SmileRun
    <2>1. buffered' \in 0..BufferSize
      BY <1>2, SessionAssumption DEF SmileRun, DataOK, SessionAssumption
    <2> QED
      BY <1>2, <2>1 DEF Quiet, DataOK
  <1>3. ASSUME NEW m \in Audio \cup {NotJson}, Send(m)
        PROVE  DataOK'
    BY <1>3 DEF Send, DataOK, smile
  <1>4. CASE OnMessage
    <2>1. Head(inbox) \in Audio
      BY <1>4 DEF OnMessage, Hear, DataOK, Malformed
    <2>2. ChunkOf[Head(inbox)] \in Seq(Sample)
      BY <2>1, ChunkIsSamples DEF ChunkOf
    <2>3. /\ message' = <<ChunkOf[Head(inbox)]>>
          /\ inbox' = Tail(inbox) /\ inbox # <<>>
          /\ heard' = Append(heard, Head(inbox))
          /\ UNCHANGED smile
      BY <1>4 DEF OnMessage, Hear
    <2> HIDE DEF ChunkOf
    <2> QED
      BY <2>1, <2>2, <2>3 DEF DataOK, smile
  <1>5. CASE OnMessageEnds
    BY <1>5 DEF OnMessageEnds, Hear, End, DataOK, smile
  <1>6. CASE PublishChunk
    <2>1. Len(message[1]) \in Nat /\ message[1] \in Seq(Sample)
      BY <1>6 DEF PublishChunk, Nothing, DataOK
    <2>2. buffered' \in 0..BufferSize
      BY <1>6, <2>1, SessionAssumption
      DEF PublishChunk, TakesAll, DataOK, SessionAssumption
    <2> QED
      BY <1>6, <2>1, <2>2 DEF PublishChunk, Nothing, DataOK
  <1> QED
    BY <1>1, <1>2, <1>3, <1>4, <1>5, <1>6, Kinds

LEMMA SessionInit == Init => FlagsOK /\ DataOK
  <1> SUFFICES ASSUME Init PROVE FlagsOK /\ DataOK
    OBVIOUS
  <1>1. FlagsOK
    BY DEF Init, FlagsOK
  <1>2. DataOK
    BY SessionAssumption DEF Init, Nothing, DataOK, SessionAssumption
  <1> QED
    BY <1>1, <1>2

LEMMA SessionTypes == Spec => [](FlagsOK /\ DataOK)
  <1>1. FlagsOK /\ DataOK /\ [Next]_vars => (FlagsOK /\ DataOK)'
    BY FlagsStep, DataStep
  <1> QED
    BY <1>1, SessionInit, PTL DEF Spec

\* The session keeps its type, and openSMILE's source does not overflow, however
\* chunks and smile_run alternate (OpensmileSession.cpp:68-79).
THEOREM SessionTypeCorrect == Spec => []TypeOK
  <1>1. FlagsOK /\ DataOK => TypeOK
    BY DEF FlagsOK, DataOK, TypeOK
  <1> QED
    BY <1>1, SessionTypes, PTL

-----------------------------------------------------------------------------
(* Audio *)

\* AudioIntact, and where the chunk in on_message comes from.
AudioInv ==
    /\ AudioIntact
    /\ alive /\ message # Nothing => message[1] = Samples(heard[Len(heard)])

LEMMA OneElement ==
    ASSUME NEW S, NEW m \in Seq(S), Len(m) <= 1, m # <<>>
    PROVE  Len(m) = 1 /\ m[1] \in S
  <1> DEFINE n == Len(m)
  <1>1. n \in Nat /\ n <= 1
    OBVIOUS
  <1>2. n # 0
    OBVIOUS
  <1> HIDE DEF n
  <1>3. n = 1
    BY <1>1, <1>2
  <1> QED
    BY <1>3 DEF n

LEMMA AudioStep ==
    FlagsOK /\ DataOK /\ AudioInv /\ [Next]_vars => AudioInv'
  <1> SUFFICES ASSUME FlagsOK, DataOK, AudioInv, [Next]_vars
               PROVE  AudioInv'
    OBVIOUS
  <1>0. alive' => alive
    BY DEF Next, vars, StartUp, Listener, Connect, CreateProcessor, SmileNew,
           SmileInitialize, SmileRun, SmileReturns, Send, OnMessage, OnMessageEnds,
           PublishChunk, PublishChunkWild, Abort, Kill, Terminate, ManagerCodeEnds, End
  <1>1. CASE Quiet
    BY <1>0, <1>1 DEF Quiet, AudioInv, AudioIntact
  <1>2. ASSUME NEW m \in Audio \cup {NotJson}, Send(m)
        PROVE  AudioInv'
    BY <1>0, <1>2 DEF Send, AudioInv, AudioIntact, smile
  <1>3. CASE OnMessage
    <2>1. Head(inbox) \in Audio
      BY <1>3 DEF OnMessage, Hear, DataOK, Malformed
    <2>2. ChunkOf[Head(inbox)] = Samples(Head(inbox))
      BY <2>1, ChunkIsSamples DEF ChunkOf
    <2>3. /\ message' = <<Samples(Head(inbox))>>
          /\ heard' = Append(heard, Head(inbox))
          /\ alive /\ alive' = alive /\ message = Nothing /\ taken' = taken
      BY <1>3, <2>2 DEF OnMessage, Hear, smile
    <2>4. /\ heard \in Seq(Audio \cup {NotJson}) /\ Len(heard) \in Nat
          /\ Head(inbox) \in Audio \cup {NotJson}
          /\ taken \in Seq(Seq(Sample)) /\ Len(taken) \in Nat
      BY <2>1 DEF DataOK
    <2>5. Len(taken) = Len(heard)
      BY <2>3, <2>4 DEF AudioInv, AudioIntact, Nothing
    <2>6. /\ Len(heard') = Len(heard) + 1
          /\ heard'[Len(heard')] = Head(inbox)
          /\ \A i \in 1..Len(heard) : heard'[i] = heard[i]
      BY <2>3, <2>4
    <2>7. Len(message') = 1 /\ message'[1] = Samples(Head(inbox))
      BY <2>3
    <2>8. \A i \in 1..Len(taken) : taken[i] = Samples(heard[i])
      BY DEF AudioInv, AudioIntact
    <2>9. \A i \in 1..Len(taken') : taken'[i] = Samples(heard'[i])
      BY <2>3, <2>4, <2>5, <2>6, <2>8
    <2>10. Len(taken') <= Len(heard') /\ Len(heard') - Len(taken') = Len(message')
      BY <2>3, <2>4, <2>5, <2>6, <2>7
    <2>11. message'[1] = Samples(heard'[Len(heard')])
      BY <2>6, <2>7
    <2> QED
      BY <2>9, <2>10, <2>11 DEF AudioInv, AudioIntact
  <1>4. CASE OnMessageEnds
    <2>1. /\ heard' = Append(heard, Head(inbox)) /\ inbox # <<>>
          /\ ~alive' /\ taken' = taken
      BY <1>4 DEF OnMessageEnds, Hear, End, smile
    <2>2. /\ heard \in Seq(Audio \cup {NotJson}) /\ Len(heard) \in Nat
          /\ Head(inbox) \in Audio \cup {NotJson}
          /\ taken \in Seq(Seq(Sample)) /\ Len(taken) \in Nat
      BY <2>1 DEF DataOK
    <2>3. /\ Len(heard') = Len(heard) + 1
          /\ \A i \in 1..Len(heard) : heard'[i] = heard[i]
      BY <2>1, <2>2
    <2> QED
      BY <2>1, <2>2, <2>3 DEF AudioInv, AudioIntact
  <1>5. CASE PublishChunk
    <2>1. /\ alive /\ message # Nothing /\ message' = Nothing
          /\ taken' = Append(taken, message[1]) /\ heard' = heard
      BY <1>5 DEF PublishChunk
    <2>2. /\ Len(heard) \in Nat /\ taken \in Seq(Seq(Sample)) /\ Len(taken) \in Nat
          /\ Len(message) = 1 /\ message[1] \in Seq(Sample)
      <3>1. message \in Seq(Seq(Sample)) /\ Len(message) <= 1 /\ message # <<>>
        BY <2>1 DEF DataOK, Nothing
      <3>2. Len(message) = 1 /\ message[1] \in Seq(Sample)
        BY <3>1, OneElement
      <3> QED
        BY <3>2 DEF DataOK
    <2>3. Len(heard) = Len(taken) + 1 /\ message[1] = Samples(heard[Len(heard)])
      BY <2>1, <2>2 DEF AudioInv, AudioIntact
    <2>4. /\ Len(taken') = Len(taken) + 1 /\ taken'[Len(taken) + 1] = message[1]
          /\ \A i \in 1..Len(taken) : taken'[i] = taken[i]
      BY <2>1, <2>2
    <2>5. \A i \in 1..Len(taken) : taken[i] = Samples(heard[i])
      BY DEF AudioInv, AudioIntact
    <2>6. \A i \in 1..Len(taken') : taken'[i] = Samples(heard'[i])
      BY <2>1, <2>2, <2>3, <2>4, <2>5
    <2>7. Len(message') = 0
      BY <2>1 DEF Nothing
    <2> QED
      BY <2>1, <2>2, <2>3, <2>4, <2>6, <2>7 DEF AudioInv, AudioIntact
  <1> QED
    BY <1>1, <1>2, <1>3, <1>4, <1>5, Kinds

\* The samples openSMILE is given are those the client encoded, chunk by chunk in
\* the order they came in, but for the last sample of chunks whose number of
\* samples is a multiple of three (OpensmileSession.cpp:81-94, base64.c).
THEOREM AudioArrivesIntact == Spec => []AudioIntact
  <1>1. Init => AudioInv
    BY DEF Init, Nothing, AudioInv, AudioIntact
  <1>2. FlagsOK /\ DataOK /\ AudioInv /\ [Next]_vars => AudioInv'
    BY AudioStep
  <1>3. AudioInv => AudioIntact
    BY DEF AudioInv
  <1> QED
    BY <1>1, <1>2, <1>3, SessionTypes, PTL DEF Spec

-----------------------------------------------------------------------------
(* The end *)

LEMMA CauseStep ==
    DataOK /\ EndsForCause /\ [Next]_vars => EndsForCause'
  <1> SUFFICES ASSUME DataOK, EndsForCause, [Next]_vars
               PROVE  EndsForCause'
    OBVIOUS
  <1> DEFINE Cause == \E i \in 1..Len(heard) : Fatal(heard[i])
  <1>1. CASE OnMessageEnds
    <2>1. /\ heard' = Append(heard, Head(inbox)) /\ inbox # <<>>
          /\ Head(inbox) \in Malformed
      BY <1>1 DEF OnMessageEnds, Hear
    <2>2. Fatal(Head(inbox))
      <3>1. CASE Head(inbox) = NotJson
        BY <3>1 DEF Fatal
      <3>2. CASE Head(inbox) \in Audio /\ NoFloat(Base64encode(Head(inbox)))
        BY <3>2, FatalChunks
      <3> QED
        BY <2>1, <3>1, <3>2 DEF Malformed
    <2>3. Len(heard') \in 1..Len(heard') /\ heard'[Len(heard')] = Head(inbox)
      BY <2>1 DEF DataOK
    <2> HIDE DEF Fatal
    <2>4. \E i \in 1..Len(heard') : Fatal(heard'[i])
      BY <2>2, <2>3
    <2> QED
      BY <2>4 DEF EndsForCause
  <1>2. CASE Abort
    <2>1. PICK i \in 1..Len(heard) : heard[i] \in Corrupting
      BY <1>2 DEF Abort
    <2>2. Fatal(heard[i])
      BY <2>1, FatalChunks DEF Corrupting
    <2>3. heard' = heard
      BY <1>2 DEF Abort
    <2> QED
      BY <2>2, <2>3 DEF EndsForCause
  <1>3. CASE PublishChunkWild
    BY <1>3 DEF PublishChunkWild, End, main, EndsForCause
  <1>4. CASE Terminate
    BY <1>4 DEF Terminate, End, EndsForCause
  <1>5. CASE Kill \/ ManagerCodeEnds
    BY <1>5 DEF Kill, ManagerCodeEnds, End, main, EndsForCause
  <1>6. CASE UNCHANGED vars
    BY <1>6 DEF vars, main, listener, EndsForCause
  <1>7. CASE StartUp
    BY <1>7 DEF StartUp, Connect, CreateProcessor, SmileNew, SmileInitialize, Goto,
                EndsForCause
  <1>8. CASE SmileRun \/ SmileReturns
    BY <1>8 DEF SmileRun, SmileReturns, Goto, EndsForCause
  <1>9. CASE \E m \in Audio \cup {NotJson} : Send(m)
    BY <1>9 DEF Send, EndsForCause
  <1>10. CASE OnMessage \/ PublishChunk
    BY <1>10 DEF OnMessage, PublishChunk, Hear, EndsForCause
  <1> QED
    BY <1>1, <1>2, <1>3, <1>4, <1>5, <1>6, <1>7, <1>8, <1>9, <1>10
    DEF Next, Listener

\* A session that nobody ends, that has set its handle and whose smile_run has not
\* returned ends only after a message that is not json, holds no samples, or holds a
\* number of samples for which memcpy leaves the memory of the vector
\* (OpensmileSession.cpp:83-91).
THEOREM SessionEndsForCause == Spec => []EndsForCause
  <1>1. Init => EndsForCause
    BY DEF Init, EndsForCause
  <1>2. DataOK /\ EndsForCause /\ [Next]_vars => EndsForCause'
    BY CauseStep
  <1> QED
    BY <1>1, <1>2, SessionTypes, PTL DEF Spec
=============================================================================
