--------------------------- MODULE DBWrapperProofs ---------------------------
(***************************************************************************)
(* Proofs about the connection pool of DBWrapper, for any finite set of    *)
(* threads, any pool size and any number of calls.                         *)
(***************************************************************************)
EXTENDS DBWrapper, FiniteSetTheorems, SequenceTheorems, TLAPS

\* The mutex belongs to the thread that is inside a critical section, and a
\* thread holds a connection exactly from Take to Push.  No single property of
\* DBWrapper is inductive without these two.  CallsLeft is the bound of Call.
LockOwner == \A t \in Threads : pc[t] \in {"check", "push"} <=> mutex = t
HoldsInUse == \A t \in Threads : conn[t] # NoConn <=> t \in Holders
CallsLeft == \A t \in Threads : pc[t] # "idle" => calls[t] < MaxCalls

PoolInv == TypeOK /\ LockOwner /\ HoldsInUse /\ CallsLeft /\ ConnectionExclusive

-----------------------------------------------------------------------------
(* The stack *)

LEMMA TakeStack ==
    ASSUME TypeOK, NEW t \in Threads, Take(t)
    PROVE  /\ Len(connection_pool) \in Nat \ {0}
           /\ Top \in Connections
           /\ connection_pool' \in Seq(Connections)
           /\ Len(connection_pool') = Len(connection_pool) - 1
           /\ \A i \in 1..Len(connection_pool') :
                  connection_pool'[i] = connection_pool[i]
  <1>1. Len(connection_pool) \in Nat \ {0}
    BY EmptySeq DEF TypeOK, Take, ConnectionAvaliable
  <1>2. Top \in Connections
    BY <1>1, ElementOfSeq DEF TypeOK, Top
  <1>3. \A i \in 1..(Len(connection_pool) - 1) : connection_pool[i] \in Connections
    BY <1>1, ElementOfSeq DEF TypeOK
  <1>4. connection_pool' = SubSeq(connection_pool, 1, Len(connection_pool) - 1)
    BY DEF Take, Popped
  <1>5. /\ connection_pool' \in Seq(Connections)
        /\ Len(connection_pool') = Len(connection_pool) - 1
    <2> DEFINE n == Len(connection_pool) - 1
    <2>1. \A i \in 1..n : connection_pool[i] \in Connections
      BY <1>3
    <2>2. n \in Nat
      BY <1>1
    <2> HIDE DEF n
    <2>3. /\ SubSeq(connection_pool, 1, n) \in Seq(Connections)
          /\ Len(SubSeq(connection_pool, 1, n)) = IF 1 <= n THEN n - 1 + 1 ELSE 0
      BY <2>1, <2>2, SubSeqProperties
    <2>4. n = Len(connection_pool) - 1 /\ connection_pool' = SubSeq(connection_pool, 1, n)
      BY <1>4 DEF n
    <2>5. Len(SubSeq(connection_pool, 1, n)) = n
      BY <2>2, <2>3
    <2> QED
      BY <2>3, <2>4, <2>5, Zenon
  <1>6. \A i \in 1..(Len(connection_pool) - 1) :
            connection_pool'[i] = connection_pool[i]
    BY <1>1, <1>4
  <1> QED
    BY <1>1, <1>2, <1>5, <1>6

LEMMA PushStack ==
    ASSUME TypeOK, HoldsInUse, NEW t \in Threads, Push(t)
    PROVE  /\ conn[t] \in Connections
           /\ connection_pool' \in Seq(Connections)
           /\ Len(connection_pool') = Len(connection_pool) + 1
           /\ connection_pool'[Len(connection_pool) + 1] = conn[t]
           /\ \A i \in 1..Len(connection_pool) :
                  connection_pool'[i] = connection_pool[i]
  <1>1. conn[t] \in Connections
    BY DEF TypeOK, HoldsInUse, Holders, Push
  <1> QED
    BY <1>1, AppendProperties DEF TypeOK, Push, Pushed

\* What notify_one does to the program counters: the pushing thread is idle
\* and at most one sleeping thread, some one if any sleeps, is woken.
LEMMA PushCounters ==
    ASSUME TypeOK, NEW t \in Threads, Push(t)
    PROVE  \/ /\ Waiters = {}
              /\ pc' = [pc EXCEPT ![t] = "idle"]
           \/ \E w \in Waiters : /\ w # t
                                 /\ pc' = [pc EXCEPT ![t] = "idle", ![w] = "woken"]
  BY DEF Push, NotifyOne, Waiters, TypeOK

-----------------------------------------------------------------------------
(* Type correctness *)

LEMMA InitTypeOK == Init => TypeOK
  <1> SUFFICES ASSUME Init PROVE TypeOK
    OBVIOUS
  <1>1. connection_pool \in Seq(Connections)
    BY PoolAssumption, IsASeq DEF Init, Connections
  <1> QED
    BY <1>1, PoolAssumption DEF Init, TypeOK, Connections, NoConn

LEMMA InitPoolInv == Init => PoolInv
  <1> SUFFICES ASSUME Init PROVE PoolInv
    OBVIOUS
  <1>1. TypeOK
    BY InitTypeOK
  <1>2. LockOwner /\ HoldsInUse /\ CallsLeft
    BY PoolAssumption DEF Init, LockOwner, HoldsInUse, CallsLeft, Holders
  <1>3. Len(connection_pool) = PoolSize
    BY PoolAssumption, LenProperties, <1>1 DEF Init, Connections
  <1>4. ConnectionExclusive
    BY <1>3 DEF Init, ConnectionExclusive, Connections
  <1> QED
    BY <1>1, <1>2, <1>4 DEF PoolInv

LEMMA NextPoolInv == PoolInv /\ [Next]_vars => PoolInv'
  <1> SUFFICES ASSUME PoolInv, [Next]_vars PROVE PoolInv'
    OBVIOUS
  <1> USE DEF PoolInv
  <1>1. ASSUME NEW t \in Threads,
               Call(t) \/ LockGet(t) \/ Wait(t) \/ SpuriousWake(t)
                       \/ Exec(t) \/ LockFree(t)
        PROVE  PoolInv'
    <2>1. connection_pool' = connection_pool /\ conn' = conn /\ calls' = calls
      BY <1>1 DEF Call, LockGet, Wait, SpuriousWake, Exec, LockFree
    <2>2. TypeOK'
      BY <1>1, <2>1 DEF TypeOK, Call, LockGet, Wait, SpuriousWake, Exec, LockFree
    <2>3. LockOwner'
      BY <1>1, PoolAssumption
         DEF TypeOK, LockOwner, Call, LockGet, Wait, SpuriousWake, Exec, LockFree
    <2>4. HoldsInUse'
      BY <1>1, <2>1 DEF TypeOK, HoldsInUse, Holders, Call, LockGet, Wait,
                        SpuriousWake, Exec, LockFree
    <2>5. CallsLeft'
      BY <1>1, <2>1 DEF TypeOK, CallsLeft, Call, LockGet, Wait, SpuriousWake,
                        Exec, LockFree
    <2>6. ConnectionExclusive'
      BY <2>1 DEF ConnectionExclusive
    <2> QED
      BY <2>2, <2>3, <2>4, <2>5, <2>6
  <1>2. ASSUME NEW t \in Threads, Take(t)
        PROVE  PoolInv'
    <2>0. /\ Top = connection_pool[Len(connection_pool)]
          /\ Top \in Connections
          /\ Top # NoConn
      BY <1>2, TakeStack DEF Top, Connections, NoConn
    <2>1. TypeOK'
      <3>1. lowest' \in 0..PoolSize
        <4>1. lowest' = Lesser(lowest, Len(connection_pool'))
          BY <1>2 DEF Take
        <4>2. connection_pool' \in Seq(Connections)
          BY <1>2, TakeStack
        <4>3. Len(connection_pool') \in Nat /\ lowest \in 0..PoolSize
          BY <4>2, LenProperties DEF TypeOK
        <4> QED
          BY <4>1, <4>3, PoolAssumption DEF Lesser
      <3> QED
        BY <1>2, <3>1, TakeStack DEF TypeOK, Take
    <2>2. LockOwner'
      BY <1>2, PoolAssumption DEF TypeOK, LockOwner, Take
    <2>3. HoldsInUse'
      BY <1>2, <2>0 DEF TypeOK, HoldsInUse, Holders, Take
    <2>5. CallsLeft'
      BY <1>2 DEF TypeOK, CallsLeft, Take
    <2>4. ConnectionExclusive'
      <3>1. ASSUME NEW i \in 1..Len(connection_pool'), NEW j \in 1..Len(connection_pool'),
                   connection_pool'[i] = connection_pool'[j]
            PROVE  i = j
        BY <1>2, <3>1, TakeStack DEF ConnectionExclusive
      <3>2. ASSUME NEW i \in 1..Len(connection_pool')
            PROVE  connection_pool'[i] # Top
        BY <1>2, <2>0, TakeStack DEF ConnectionExclusive
      <3>3. conn' = [conn EXCEPT ![t] = Top]
        BY <1>2 DEF Take
      <3>4. \A u \in Threads : conn[u] # Top
        BY <1>2, <2>0, TakeStack DEF ConnectionExclusive
      <3>5. ASSUME NEW u \in Threads, conn'[u] # NoConn
            PROVE  /\ \A i \in 1..Len(connection_pool') : connection_pool'[i] # conn'[u]
                   /\ \A v \in Threads : conn'[v] = conn'[u] => v = u
        <4>1. CASE u = t
          BY <4>1, <3>2, <3>3, <3>4 DEF TypeOK
        <4>2. CASE u # t
          <5>1. conn'[u] = conn[u]
            BY <4>2, <3>3 DEF TypeOK
          <5>2. \A i \in 1..Len(connection_pool') : connection_pool'[i] # conn[u]
            BY <1>2, <3>5, <5>1, TakeStack DEF ConnectionExclusive
          <5>3. \A v \in Threads : conn'[v] = conn[u] => v = u
            BY <3>3, <3>4, <3>5, <4>2, <5>1 DEF TypeOK, ConnectionExclusive
          <5> QED
            BY <5>1, <5>2, <5>3
        <4> QED
          BY <4>1, <4>2
      <3> QED
        BY <3>1, <3>5 DEF ConnectionExclusive
    <2> QED
      BY <2>1, <2>2, <2>3, <2>4, <2>5
  <1>3. ASSUME NEW t \in Threads, Push(t)
        PROVE  PoolInv'
    <2>0. /\ pc' \in [Threads -> {"idle", "get", "woken", "check", "wait",
                                    "exec", "free", "push"}]
          /\ pc[t] = "push" /\ pc'[t] = "idle"
          /\ \A u \in Threads \ {t} :
                 \/ pc'[u] = pc[u]
                 \/ pc[u] = "wait" /\ pc'[u] = "woken"
      BY <1>3, PushCounters DEF TypeOK, Push, Waiters
    <2>1. TypeOK'
      <3>1. connection_pool' \in Seq(Connections)
        BY <1>3, PushStack
      <3>2. calls' = [calls EXCEPT ![t] = @ + 1] /\ calls[t] < MaxCalls
        BY <1>3 DEF Push, CallsLeft
      <3>3. calls' \in [Threads -> 0..MaxCalls]
        BY <3>2, PoolAssumption DEF TypeOK
      <3> QED
        BY <1>3, <2>0, <3>1, <3>3 DEF TypeOK, Push
    <2>2. LockOwner'
      BY <1>3, <2>0, PoolAssumption DEF LockOwner, Push
    <2>3. HoldsInUse'
      BY <1>3, <2>0 DEF TypeOK, HoldsInUse, Holders, Push
    <2>5. CallsLeft'
      BY <1>3, <2>0 DEF TypeOK, CallsLeft, Push
    <2>4. ConnectionExclusive'
      <3>1. conn' = [conn EXCEPT ![t] = NoConn]
        BY <1>3 DEF Push
      <3>2. Len(connection_pool) \in Nat
        BY LenProperties DEF TypeOK
      <3>3. \A i \in 1..Len(connection_pool) : connection_pool[i] # conn[t]
        BY <1>3, PushStack DEF ConnectionExclusive, Connections, NoConn
      <3>4. ASSUME NEW i \in 1..Len(connection_pool'), NEW j \in 1..Len(connection_pool'),
                   connection_pool'[i] = connection_pool'[j]
            PROVE  i = j
        BY <1>3, <3>2, <3>3, <3>4, PushStack DEF ConnectionExclusive
      <3>5. ASSUME NEW u \in Threads, conn'[u] # NoConn
            PROVE  /\ u # t /\ conn'[u] = conn[u]
                   /\ \A i \in 1..Len(connection_pool') : connection_pool'[i] # conn'[u]
                   /\ \A v \in Threads : conn'[v] = conn'[u] => v = u
        <4>1. u # t /\ conn'[u] = conn[u]
          BY <3>1, <3>5 DEF TypeOK
        <4>2. conn[u] # conn[t]
          BY <4>1, <3>5 DEF ConnectionExclusive
        <4>3. \A i \in 1..Len(connection_pool') : connection_pool'[i] # conn'[u]
          BY <1>3, <3>2, <3>5, <4>1, <4>2, PushStack DEF ConnectionExclusive
        <4>4. \A v \in Threads : conn'[v] = conn'[u] => v = u
          BY <3>1, <3>5, <4>1 DEF ConnectionExclusive, TypeOK
        <4> QED
          BY <4>1, <4>3, <4>4
      <3> QED
        BY <3>4, <3>5 DEF ConnectionExclusive
    <2> QED
      BY <2>1, <2>2, <2>3, <2>4, <2>5
  <1>4. CASE UNCHANGED vars
    BY <1>4 DEF vars, TypeOK, LockOwner, HoldsInUse, Holders, CallsLeft,
                ConnectionExclusive
  <1> QED
    BY <1>1, <1>2, <1>3, <1>4 DEF Next, Step, Finished

LEMMA PoolInvariant == Spec => []PoolInv
  BY InitPoolInv, NextPoolInv, PTL DEF Spec

\* Every variable of the pool keeps its type.
THEOREM TypeCorrect == Spec => []TypeOK
  <1>1. PoolInv => TypeOK
    BY DEF PoolInv
  <1> QED
    BY <1>1, PoolInvariant, PTL

\* GetConnection never hands out a connection that is on the stack or with
\* another thread, and FreeConnection never pushes one twice.
THEOREM Exclusive == Spec => []ConnectionExclusive
  <1>1. PoolInv => ConnectionExclusive
    BY DEF PoolInv
  <1> QED
    BY <1>1, PoolInvariant, PTL

-----------------------------------------------------------------------------
(* No lost wakeup *)

LEMMA InitNoLostWakeup == Init => NoLostWakeup
  BY DEF Init, NoLostWakeup, Waiters

LEMMA NextNoLostWakeup ==
    PoolInv /\ NoLostWakeup /\ [Next]_vars => NoLostWakeup'
  <1> SUFFICES ASSUME PoolInv, NoLostWakeup, [Next]_vars, Waiters' # {}
               PROVE  Len(connection_pool') <= Cardinality(Arriving')
    BY DEF NoLostWakeup
  <1> USE DEF PoolInv
  <1>0. /\ IsFiniteSet(Arriving) /\ IsFiniteSet(Arriving')
        /\ Cardinality(Arriving) \in Nat /\ Cardinality(Arriving') \in Nat
        /\ Len(connection_pool) \in Nat
    BY PoolAssumption, FS_Subset, FS_CardinalityType, LenProperties
       DEF Arriving, TypeOK
  \* Nobody leaves Arriving but by taking a connection, so a step that leaves
  \* the stack alone can only add to Arriving.
  <1>1. ASSUME NEW t \in Threads,
               Call(t) \/ LockGet(t) \/ SpuriousWake(t) \/ Exec(t) \/ LockFree(t)
        PROVE  Len(connection_pool') <= Cardinality(Arriving')
    <2>1. Waiters # {} /\ connection_pool' = connection_pool
      BY <1>1 DEF TypeOK, Waiters, Call, LockGet, SpuriousWake, Exec, LockFree
    <2>2. Arriving \subseteq Arriving'
      BY <1>1 DEF TypeOK, Arriving, Call, LockGet, SpuriousWake, Exec, LockFree
    <2>3. Cardinality(Arriving) <= Cardinality(Arriving')
      BY <1>0, <2>2, FS_Subset
    <2> QED
      BY <1>0, <2>1, <2>3 DEF NoLostWakeup
  <1>2. ASSUME NEW t \in Threads, Take(t)
        PROVE  Len(connection_pool') <= Cardinality(Arriving')
    <2>1. Waiters # {} /\ t \in Arriving /\ Arriving' = Arriving \ {t}
      BY <1>2 DEF TypeOK, Waiters, Arriving, Take
    <2>2. Cardinality(Arriving') = Cardinality(Arriving) - 1
      BY <1>0, <2>1, FS_RemoveElement
    <2>3. Len(connection_pool') = Len(connection_pool) - 1
      BY <1>2, TakeStack
    <2> QED
      BY <1>0, <2>1, <2>2, <2>3 DEF NoLostWakeup
  <1>3. ASSUME NEW t \in Threads, Wait(t)
        PROVE  Len(connection_pool') <= Cardinality(Arriving')
    <2>1. Len(connection_pool') = 0
      BY <1>3, EmptySeq DEF Wait, ConnectionAvaliable
    <2> QED
      BY <1>0, <2>1
  \* One connection more, and one thread more on its way to it.
  <1>4. ASSUME NEW t \in Threads, Push(t)
        PROVE  Len(connection_pool') <= Cardinality(Arriving')
    <2>1. PICK w \in Waiters : /\ w # t
                               /\ pc' = [pc EXCEPT ![t] = "idle", ![w] = "woken"]
      BY <1>4, PushCounters DEF Waiters, TypeOK, Push
    <2>2. w \notin Arriving /\ Arriving' = Arriving \cup {w}
      BY <1>4, <2>1 DEF Waiters, Arriving, TypeOK, Push
    <2>3. Cardinality(Arriving') = Cardinality(Arriving) + 1
      BY <1>0, <2>2, FS_AddElement
    <2>4. Len(connection_pool') = Len(connection_pool) + 1
      BY <1>4, PushStack
    <2> QED
      BY <1>0, <2>1, <2>3, <2>4 DEF NoLostWakeup
  <1>5. CASE UNCHANGED vars
    BY <1>5 DEF vars, NoLostWakeup, Waiters, Arriving
  <1> QED
    BY <1>1, <1>2, <1>3, <1>4, <1>5 DEF Next, Step, Finished

\* A thread that sleeps in GetConnection while connections are idle is never
\* forgotten: as many threads as connections are on their way to the stack.
THEOREM WakeupsReachThreads == Spec => []NoLostWakeup
  BY PoolInvariant, InitNoLostWakeup, NextNoLostWakeup, PTL DEF Spec

-----------------------------------------------------------------------------
(* The newest connections *)

\* Every connection opened is on the stack or in use.
Accounting == Len(connection_pool) + Cardinality(Holders) = PoolSize

LEMMA HoldersFinite ==
    /\ IsFiniteSet(Holders) /\ Cardinality(Holders) \in Nat
    /\ Cardinality(Threads) \in Nat /\ Cardinality(Holders) <= Cardinality(Threads)
  BY PoolAssumption, FS_Subset, FS_CardinalityType DEF Holders

\* The part of the stack that was never needed.
Bottom == \A i \in 1..lowest : i <= Len(connection_pool) /\ connection_pool[i] = i

LEMMA InitNewest == Init => Accounting /\ ReusesNewest
  <1> SUFFICES ASSUME Init PROVE Accounting /\ ReusesNewest
    OBVIOUS
  <1>1. Len(connection_pool) = PoolSize
    BY InitTypeOK, PoolAssumption, LenProperties DEF Init, TypeOK, Connections
  <1>2. Holders = {}
    BY DEF Init, Holders
  <1>3. Cardinality(Holders) = 0
    BY <1>2, FS_EmptySet
  <1> QED
    BY <1>1, <1>3, HoldersFinite, PoolAssumption
       DEF Init, Accounting, ReusesNewest, Connections

LEMMA NextNewest ==
    PoolInv /\ Accounting /\ ReusesNewest /\ [Next]_vars => (Accounting /\ ReusesNewest)'
  <1> SUFFICES ASSUME PoolInv, Accounting, ReusesNewest, [Next]_vars
               PROVE  Accounting' /\ ReusesNewest'
    OBVIOUS
  <1> USE DEF PoolInv
  <1>0. /\ Len(connection_pool) \in Nat /\ PoolSize \in Nat
        /\ Cardinality(Threads) \in Nat /\ Cardinality(Holders) \in Nat
        /\ lowest \in Nat
    BY PoolAssumption, HoldersFinite, LenProperties DEF TypeOK
  <1>1. ASSUME NEW t \in Threads,
               Call(t) \/ LockGet(t) \/ Wait(t) \/ SpuriousWake(t)
                       \/ Exec(t) \/ LockFree(t)
        PROVE  Accounting' /\ ReusesNewest'
    <2>1. /\ connection_pool' = connection_pool /\ Holders' = Holders
          /\ lowest' = lowest
      BY <1>1 DEF TypeOK, Holders, Call, LockGet, Wait, SpuriousWake, Exec, LockFree
    <2> QED
      BY <2>1 DEF Accounting, ReusesNewest
  <1>2. ASSUME NEW t \in Threads, Take(t)
        PROVE  Accounting' /\ ReusesNewest'
    <2>1. t \notin Holders /\ Holders' = Holders \cup {t}
      BY <1>2 DEF TypeOK, Holders, Take
    <2>2. Cardinality(Holders') = Cardinality(Holders) + 1
      BY <2>1, HoldersFinite, FS_AddElement
    <2>3. Cardinality(Holders') <= Cardinality(Threads)
      BY PoolAssumption, FS_Subset DEF Holders
    <2>4. /\ Len(connection_pool') = Len(connection_pool) - 1
          /\ \A i \in 1..Len(connection_pool') :
                 connection_pool'[i] = connection_pool[i]
      BY <1>2, TakeStack
    <2>5. Accounting'
      BY <1>0, <2>2, <2>4 DEF Accounting
    <2>6. PoolSize <= Len(connection_pool') + Cardinality(Threads)
      BY <1>0, <2>2, <2>3, <2>4 DEF Accounting
    <2>7. /\ lowest' \in Nat /\ lowest' <= lowest /\ lowest' <= Len(connection_pool')
          /\ lowest' = lowest \/ lowest' = Len(connection_pool')
      <3>1. lowest' = Lesser(lowest, Len(connection_pool'))
        BY <1>2 DEF Take
      <3>2. Len(connection_pool') \in Nat
        BY <1>2, TakeStack, LenProperties
      <3> QED
        BY <1>0, <3>1, <3>2 DEF Lesser
    <2>8. PoolSize <= lowest' + Cardinality(Threads)
      BY <1>0, <2>6, <2>7 DEF ReusesNewest
    <2>9. Bottom'
      BY <1>0, <2>4, <2>7 DEF ReusesNewest, Bottom
    <2> QED
      BY <2>5, <2>8, <2>9 DEF ReusesNewest, Bottom
  <1>3. ASSUME NEW t \in Threads, Push(t)
        PROVE  Accounting' /\ ReusesNewest'
    <2>1. t \in Holders /\ Holders' = Holders \ {t}
      BY <1>3, PushCounters DEF TypeOK, Holders, Push, Waiters
    <2>2. Cardinality(Holders') = Cardinality(Holders) - 1
      BY <2>1, HoldersFinite, FS_RemoveElement
    <2>3. /\ Len(connection_pool') = Len(connection_pool) + 1
          /\ \A i \in 1..Len(connection_pool) :
                 connection_pool'[i] = connection_pool[i]
      BY <1>3, PushStack
    <2>4. Accounting'
      BY <1>0, <2>2, <2>3 DEF Accounting
    <2>5. lowest' = lowest
      BY <1>3 DEF Push
    <2>6. ASSUME NEW i \in 1..lowest'
          PROVE  i <= Len(connection_pool') /\ connection_pool'[i] = i
      <3>1. i \in 1..Len(connection_pool) /\ connection_pool[i] = i
        BY <1>0, <2>5 DEF ReusesNewest
      <3> QED
        BY <1>0, <2>3, <3>1
    <2> QED
      BY <2>4, <2>5, <2>6 DEF ReusesNewest
  <1>4. CASE UNCHANGED vars
    BY <1>4 DEF vars, Accounting, ReusesNewest, Holders
  <1> QED
    BY <1>1, <1>2, <1>3, <1>4 DEF Next, Step, Finished

\* The connections below the newest ones, one per thread, never leave the
\* bottom of the stack.
THEOREM OnlyNewestUsed == Spec => []ReusesNewest
  BY PoolInvariant, InitNewest, NextNewest, PTL DEF Spec

\* The connections callers get are the last ones opened, one for each thread.
NewestLent ==
    \A t \in Threads : conn[t] # NoConn => conn[t] > PoolSize - Cardinality(Threads)

\* GetConnection (DBWrapper.cpp:78-92) hands out nothing but the connections opened
\* last: a process with one caller, such as a session that publishes rows, sends all
\* its statements over a single one, and the state of the others does not matter.
THEOREM OnlyNewestLent == Spec => []NewestLent
  <1>1. PoolInv /\ ReusesNewest => NewestLent
    <2> SUFFICES ASSUME PoolInv, ReusesNewest, NEW t \in Threads, conn[t] # NoConn
                 PROVE  conn[t] > PoolSize - Cardinality(Threads)
      BY DEF NewestLent
    <2>1. /\ conn[t] \in 1..PoolSize /\ lowest \in Nat
          /\ Cardinality(Threads) \in Nat /\ PoolSize \in Nat
      BY PoolAssumption, HoldersFinite DEF PoolInv, TypeOK, Connections
    <2>2. \A i \in 1..lowest : i <= Len(connection_pool) /\ connection_pool[i] = i
      BY DEF ReusesNewest
    <2>3. \A i \in 1..Len(connection_pool) : connection_pool[i] # conn[t]
      BY DEF PoolInv, ConnectionExclusive
    <2>4. Len(connection_pool) \in Nat
      BY LenProperties DEF PoolInv, TypeOK
    <2>5. ~(conn[t] \in 1..lowest)
      BY <2>2, <2>3, <2>4
    <2>6. PoolSize <= lowest + Cardinality(Threads)
      BY DEF ReusesNewest
    <2> DEFINE c == conn[t]
               n == Cardinality(Threads)
    <2> HIDE DEF c, n
    <2>7. c > PoolSize - n
      BY <2>1, <2>5, <2>6 DEF c, n
    <2> QED
      BY <2>7 DEF c, n
  <1> QED
    BY <1>1, PoolInvariant, OnlyNewestUsed, PTL

-----------------------------------------------------------------------------
(* The pool never comes to rest in the middle of a call *)

\* The guards of the steps of a thread that is in a call: the mutex is free where it
\* wants it, and it does not sleep.
GoesOn(t) == \/ pc[t] \in {"check", "exec", "push"}
             \/ pc[t] \in {"get", "woken", "free"} /\ mutex = NoThread

\* Whoever is in a call, some thread in a call can go on, if only one that returns
\* the connection others sleep for.
NeverStuck == (\E t \in Threads : pc[t] # "idle") => \E t \in Threads : GoesOn(t)

\* There is no deadlock: with all connections lent the threads that hold them go on,
\* and with one on the stack a thread is on its way to it, whoever sleeps.  (That
\* each call returns, under fairness, is EveryCallReturns.)
THEOREM NoDeadlock == Spec => []NeverStuck
  <1>1. PoolInv /\ NoLostWakeup /\ Accounting => NeverStuck
    <2> SUFFICES ASSUME PoolInv, NoLostWakeup, Accounting,
                        NEW t \in Threads, pc[t] # "idle"
                 PROVE  \E u \in Threads : GoesOn(u)
      BY DEF NeverStuck
    <2> USE DEF PoolInv
    <2>1. CASE mutex # NoThread
      <3>1. mutex \in Threads /\ pc[mutex] \in {"check", "push"}
        BY <2>1 DEF TypeOK, LockOwner
      <3> QED
        BY <3>1 DEF GoesOn
    <2>2. CASE mutex = NoThread /\ pc[t] # "wait"
      BY <2>2 DEF TypeOK, GoesOn
    <2>3. CASE mutex = NoThread /\ pc[t] = "wait"
      <3>1. t \in Waiters
        BY <2>3 DEF Waiters
      <3>2. Len(connection_pool) \in Nat
        BY LenProperties DEF TypeOK
      <3>3. CASE Len(connection_pool) = 0
        <4>1. Cardinality(Holders) # 0
          BY <3>3, PoolAssumption, HoldersFinite DEF Accounting
        <4>2. PICK u \in Holders : TRUE
          BY <4>1, FS_EmptySet
        <4> QED
          BY <2>3, <4>2 DEF Holders, GoesOn
      <3>4. CASE Len(connection_pool) # 0
        <4>1. Cardinality(Arriving) # 0
          <5>1. Len(connection_pool) <= Cardinality(Arriving)
            BY <3>1 DEF NoLostWakeup
          <5> QED
            BY <3>2, <3>4, <5>1
        <4>2. PICK u \in Arriving : TRUE
          BY <4>1, FS_EmptySet
        <4> QED
          BY <2>3, <4>2 DEF Arriving, GoesOn
      <3> QED
        BY <3>3, <3>4
    <2> QED
      BY <2>1, <2>2, <2>3
  <1>2. Spec => []Accounting
    BY PoolInvariant, InitNewest, NextNewest, PTL DEF Spec
  <1> QED
    BY <1>1, <1>2, PoolInvariant, WakeupsReachThreads, PTL

-----------------------------------------------------------------------------
(* The pool implements ConnectionPool *)

Idle == {connection_pool[i] : i \in 1..Len(connection_pool)}

LEMMA InitAbstract == Init => Abstract!Init
  <1> SUFFICES ASSUME Init PROVE Abstract!Init
    OBVIOUS
  <1>1. Len(connection_pool) = PoolSize
    BY InitTypeOK, PoolAssumption, LenProperties DEF Init, TypeOK, Connections
  <1> QED
    BY <1>1 DEF Init, Abstract!Init, Connections

LEMMA StepAbstract ==
    PoolInv /\ [Next]_vars => [Abstract!Next]_<<Idle, conn>>
  <1> SUFFICES ASSUME PoolInv, [Next]_vars
               PROVE  [Abstract!Next]_<<Idle, conn>>
    OBVIOUS
  <1> USE DEF PoolInv
  <1>1. ASSUME NEW t \in Threads,
               Call(t) \/ LockGet(t) \/ Wait(t) \/ SpuriousWake(t)
                       \/ Exec(t) \/ LockFree(t)
        PROVE  UNCHANGED <<Idle, conn>>
    BY <1>1 DEF Idle, Call, LockGet, Wait, SpuriousWake, Exec, LockFree
  \* Take acquires the connection on top of the stack.
  <1>2. ASSUME NEW t \in Threads, Take(t)
        PROVE  Abstract!Acquire(t)
    <2>1. conn[t] = NoConn
      BY <1>2 DEF TypeOK, HoldsInUse, Holders, Take
    <2>2. Top \in Idle /\ Top = connection_pool[Len(connection_pool)]
      BY <1>2, TakeStack DEF Idle, Top
    <2>3. Idle' = Idle \ {Top}
      BY <1>2, <2>2, TakeStack DEF Idle, ConnectionExclusive
    <2> QED
      BY <1>2, <2>1, <2>2, <2>3 DEF Abstract!Acquire, Idle, Take
  <1>3. ASSUME NEW t \in Threads, Push(t)
        PROVE  Abstract!Release(t)
    <2>1. conn[t] # NoConn
      BY <1>3 DEF TypeOK, HoldsInUse, Holders, Push
    <2>2. /\ Len(connection_pool) \in Nat
          /\ Len(connection_pool') = Len(connection_pool) + 1
          /\ connection_pool'[Len(connection_pool) + 1] = conn[t]
          /\ \A i \in 1..Len(connection_pool) :
                 connection_pool'[i] = connection_pool[i]
      BY <1>3, PushStack, LenProperties DEF TypeOK
    <2>3. 1..Len(connection_pool') =
              1..Len(connection_pool) \cup {Len(connection_pool) + 1}
      BY <2>2
    <2>4. Idle' = Idle \cup {conn[t]}
      BY <2>2, <2>3 DEF Idle
    <2> QED
      BY <1>3, <2>1, <2>4 DEF Abstract!Release, Idle, Push
  <1>4. CASE UNCHANGED vars
    BY <1>4 DEF vars, Idle
  <1> QED
    BY <1>1, <1>2, <1>3, <1>4 DEF Next, Step, Finished, Abstract!Next

\* Whatever the mutex, the stack and the condition do, a caller only ever sees
\* ConnectionPool: some idle connection becomes its own until it returns it.
THEOREM PoolRefinement == Spec => ImplementsPool
  <1>1. [Abstract!Next]_<<Idle, conn>>
            <=> [Abstract!Next]_<<{connection_pool[i] : i \in 1..Len(connection_pool)}, conn>>
    BY DEF Idle
  <1> QED
    BY <1>1, InitAbstract, StepAbstract, PoolInvariant, PTL
       DEF Spec, ImplementsPool, Abstract!Spec
=============================================================================
