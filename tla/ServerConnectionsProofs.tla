------------------------ MODULE ServerConnectionsProofs ------------------------
(***************************************************************************)
(* Proofs about the connections to the server, for any number of sessions, *)
(* any sizes of the pools and any limit of the server.                     *)
(***************************************************************************)
EXTENDS ServerConnections, FiniteSetTheorems, WellFoundedInduction, TLAPS

-----------------------------------------------------------------------------
(* Counting *)

\* A set of sessions has places for the Manager's pool and theirs.
LEMMA CountPlaces ==
    ASSUME NEW S \in SUBSET Sessions
    PROVE  /\ IsFiniteSet(S) /\ Cardinality(S) \in 0..Cardinality(Sessions)
           /\ IsFiniteSet(Places(S))
           /\ Cardinality(Places(S)) \in Nat
           /\ Cardinality(Places(S)) <= ManagerPool + PoolSize * Cardinality(S)
  <1> DEFINE A == {Manager} \X (1..ManagerPool)
             B == S \X (1..PoolSize)
  <1>1. IsFiniteSet(Sessions) /\ ManagerPool \in Nat /\ PoolSize \in Nat
    BY ConnectionsAssumption DEF ConnectionsAssumption
  <1>2. IsFiniteSet(S) /\ Cardinality(S) <= Cardinality(Sessions)
    BY <1>1, FS_Subset
  <1>3. Cardinality(S) \in Nat /\ Cardinality(Sessions) \in Nat
    BY <1>1, <1>2, FS_CardinalityType
  <1>4. /\ IsFiniteSet(1..ManagerPool) /\ Cardinality(1..ManagerPool) = ManagerPool
        /\ IsFiniteSet(1..PoolSize) /\ Cardinality(1..PoolSize) = PoolSize
    BY <1>1, FS_Interval
  <1>5. IsFiniteSet({Manager}) /\ Cardinality({Manager}) = 1
    BY FS_Singleton
  <1>6. IsFiniteSet(A) /\ Cardinality(A) = ManagerPool
    <2>1. /\ IsFiniteSet(A)
          /\ Cardinality(A) = Cardinality({Manager}) * Cardinality(1..ManagerPool)
      BY <1>4, <1>5, FS_Product
    <2>2. Cardinality(A) = 1 * ManagerPool
      BY <1>4, <1>5, <2>1
    <2> QED
      BY <1>1, <2>1, <2>2
  <1>7. IsFiniteSet(B) /\ Cardinality(B) = Cardinality(S) * PoolSize
    BY <1>2, <1>4, FS_Product
  <1> HIDE DEF A, B
  <1>8. /\ IsFiniteSet(A \cup B)
        /\ Cardinality(A \cup B) =
               Cardinality(A) + Cardinality(B) - Cardinality(A \cap B)
    BY <1>6, <1>7, FS_Union
  <1>9. IsFiniteSet(A \cap B)
    BY <1>6, FS_Subset
  <1>10. Cardinality(A \cap B) \in Nat /\ Cardinality(A \cup B) \in Nat
    BY <1>8, <1>9, FS_CardinalityType
  <1>11. Cardinality(S) * PoolSize = PoolSize * Cardinality(S)
         /\ PoolSize * Cardinality(S) \in Nat
    BY <1>1, <1>3
  <1>12. Cardinality(A \cup B) <= ManagerPool + PoolSize * Cardinality(S)
    BY <1>1, <1>6, <1>7, <1>8, <1>10, <1>11
  <1>13. Places(S) = A \cup B
    BY DEF Places, A, B
  <1> QED
    BY <1>2, <1>3, <1>8, <1>10, <1>12, <1>13

\* The capacity the sessions need grows with their number.
LEMMA Monotone ==
    ASSUME NEW m \in Nat, NEW n \in Nat, m <= n
    PROVE  /\ PoolSize * m \in Nat /\ PoolSize * n \in Nat
           /\ PoolSize * m <= PoolSize * n
  <1>1. PoolSize \in Nat
    BY ConnectionsAssumption DEF ConnectionsAssumption
  <1>2. PICK d \in Nat : n = m + d
    <2>1. n - m \in Nat /\ n = m + (n - m)
      OBVIOUS
    <2> QED
      BY <2>1
  <1>3. PoolSize * n = PoolSize * m + PoolSize * d
    BY <1>1, <1>2
  <1>4. PoolSize * m \in Nat /\ PoolSize * d \in Nat
    BY <1>1
  <1> QED
    BY <1>3, <1>4

-----------------------------------------------------------------------------
(* Types *)

\* TypeOK in parts, since no step needs all of them.
LifeOK ==
    /\ pc \in [Processes -> {"absent", "map", "open", "ready", "returned", "dead"}]
    /\ inherited \in [Processes -> SUBSET Processes]

PoolsOK == opened \in [Processes -> Nat] /\ \A p \in Processes : opened[p] <= Pool(p)

OutagesOK == up \in BOOLEAN /\ outages \in 0..MaxOutages

PlacesOK ==
    /\ backends \subseteq Places(Sessions) /\ refused \subseteq Places(Sessions)
    /\ Cardinality(backends) <= MaxConnections

CountsOK ==
    succeeded \in [Processes -> Nat] /\ failed \in [Processes -> Nat]

PeakOK == peak \in 0..Cardinality(Sessions)

Types == LifeOK /\ PoolsOK /\ OutagesOK /\ PlacesOK /\ CountsOK /\ PeakOK

LEMMA ManagerIsNoSession ==
    /\ Manager \in Processes /\ Manager \notin Sessions
    /\ \A p \in Processes : p # Manager => p \in Sessions
    /\ \A s \in Sessions : s \in Processes
  BY ConnectionsAssumption DEF ConnectionsAssumption, Processes

LEMMA InitTypes == Init => Types
  <1> SUFFICES ASSUME Init PROVE Types
    OBVIOUS
  <1> USE DEF Init
  <1>1. LifeOK
    BY DEF LifeOK
  <1>2. PoolsOK
    BY ConnectionsAssumption DEF PoolsOK, Pool, ConnectionsAssumption
  <1>3. OutagesOK
    BY ConnectionsAssumption DEF OutagesOK, ConnectionsAssumption
  <1>4. PlacesOK
    BY ConnectionsAssumption, FS_EmptySet DEF PlacesOK, ConnectionsAssumption
  <1>5. CountsOK
    BY DEF CountsOK
  <1>6. PeakOK
    BY CountPlaces DEF PeakOK
  <1> QED
    BY <1>1, <1>2, <1>3, <1>4, <1>5, <1>6 DEF Types

LEMMA LifeStep == LifeOK /\ [Next]_vars => LifeOK'
  <1> SUFFICES ASSUME LifeOK, [Next]_vars
               PROVE  LifeOK'
    OBVIOUS
  <1> USE DEF LifeOK, life
  <1>1. ASSUME NEW p \in Processes, Start(p) \/ Statement(p)
        PROVE  LifeOK'
    BY <1>1 DEF Start, InitializeColumnMap, Open, Constructed, Statement
  <1>2. ASSUME NEW p \in Processes, NEW s \in Sessions, Fork(p, s)
        PROVE  LifeOK'
    BY <1>2, ManagerIsNoSession DEF Fork
  <1>3. ASSUME NEW s \in Sessions, SmileReturns(s) \/ Die(s)
        PROVE  LifeOK'
    BY <1>3 DEF SmileReturns, Die
  <1>4. ASSUME NEW c \in backends, Release(c)
        PROVE  LifeOK'
    BY <1>4 DEF Release
  <1>5. CASE GoDown \/ ComeUp \/ UNCHANGED vars
    BY <1>5 DEF GoDown, ComeUp, vars
  <1> QED
    BY <1>1, <1>2, <1>3, <1>4, <1>5 DEF Next

LEMMA PoolsStep == PoolsOK /\ [Next]_vars => PoolsOK'
  <1> SUFFICES ASSUME PoolsOK, [Next]_vars
               PROVE  PoolsOK'
    OBVIOUS
  <1>1. ASSUME NEW p \in Processes, Open(p)
        PROVE  PoolsOK'
    <2>1. /\ opened' = [opened EXCEPT ![p] = opened[p] + 1]
          /\ opened[p] < Pool(p)
      BY <1>1 DEF Open, More
    <2>2. Pool(p) \in Nat
      BY ConnectionsAssumption DEF Pool, ConnectionsAssumption
    <2> QED
      BY <2>1, <2>2 DEF PoolsOK
  <1>2. CASE UNCHANGED opened
    BY <1>2 DEF PoolsOK
  <1>3. (\E p \in Processes : Open(p)) \/ UNCHANGED opened
    BY DEF Next, vars, Start, InitializeColumnMap, Constructed, Statement, Fork,
           SmileReturns, Die, Release, GoDown, ComeUp
  <1> QED
    BY <1>1, <1>2, <1>3

LEMMA OutagesStep == OutagesOK /\ [Next]_vars => OutagesOK'
  <1> SUFFICES ASSUME OutagesOK, [Next]_vars
               PROVE  OutagesOK'
    OBVIOUS
  <1>1. CASE GoDown
    <2>1. up' \in BOOLEAN
      BY <1>1 DEF GoDown
    <2>2. outages' \in 0..MaxOutages
      BY <1>1, ConnectionsAssumption DEF GoDown, OutagesOK, ConnectionsAssumption
    <2> QED
      BY <2>1, <2>2 DEF OutagesOK
  <1>2. CASE ComeUp
    BY <1>2 DEF ComeUp, OutagesOK
  <1>3. CASE UNCHANGED <<up, outages>>
    BY <1>3 DEF OutagesOK
  <1>4. GoDown \/ ComeUp \/ UNCHANGED <<up, outages>>
    BY DEF Next, vars, server, Start, InitializeColumnMap, Open, Constructed,
           Statement, Fork, SmileReturns, Die, Release
  <1> QED
    BY <1>1, <1>2, <1>3, <1>4

\* What a step may do to the connections.
LEMMA ConnectionSteps ==
    ASSUME [Next]_vars
    PROVE  \/ \E p \in Processes : Open(p)
           \/ \E c \in backends : Release(c)
           \/ GoDown
           \/ UNCHANGED <<backends, refused, opened, outages>>
  BY DEF Next, vars, server, Start, InitializeColumnMap, Constructed, Statement,
         Fork, SmileReturns, Die, ComeUp

\* The connection a process opens has its place.
LEMMA OpenedHasPlace ==
    ASSUME NEW p \in Processes, PoolsOK, Open(p)
    PROVE  <<p, opened[p] + 1>> \in Places({p} \cap Sessions)
  <1>1. opened[p] \in Nat /\ opened[p] + 1 <= Pool(p)
    BY ConnectionsAssumption DEF Open, More, PoolsOK, Pool, ConnectionsAssumption
  <1>2. CASE p = Manager
    BY <1>1, <1>2, ConnectionsAssumption DEF Pool, Places, ConnectionsAssumption
  <1>3. CASE p \in Sessions
    <2>1. Pool(p) = PoolSize
      BY <1>3, ManagerIsNoSession DEF Pool
    <2> QED
      BY <1>1, <1>3, <2>1, ConnectionsAssumption DEF Places, ConnectionsAssumption
  <1> QED
    BY <1>2, <1>3, ManagerIsNoSession

LEMMA PlacesStep == PoolsOK /\ PlacesOK /\ [Next]_vars => PlacesOK'
  <1> SUFFICES ASSUME PoolsOK, PlacesOK, [Next]_vars
               PROVE  PlacesOK'
    OBVIOUS
  <1>0. IsFiniteSet(backends) /\ Cardinality(backends) \in Nat
    BY CountPlaces, FS_Subset, FS_CardinalityType DEF PlacesOK
  <1>1. ASSUME NEW p \in Processes, Open(p)
        PROVE  PlacesOK'
    <2> DEFINE c == <<p, opened[p] + 1>>
    <2>1. c \in Places(Sessions)
      BY <1>1, OpenedHasPlace DEF Places
    <2> HIDE DEF c
    <2>2. CASE Accepts /\ backends' = backends \cup {c} /\ refused' = refused
      <3>1. Cardinality(backends') <= Cardinality(backends) + 1
            /\ Cardinality(backends') \in Nat
        <4>1. /\ IsFiniteSet(backends')
              /\ Cardinality(backends') = IF c \in backends THEN Cardinality(backends)
                                          ELSE Cardinality(backends) + 1
          BY <1>0, <2>2, FS_AddElement
        <4>2. CASE c \in backends
          BY <1>0, <4>1, <4>2
        <4>3. CASE c \notin backends
          BY <1>0, <4>1, <4>3
        <4> QED
          BY <4>2, <4>3
      <3>2. Cardinality(backends) < MaxConnections /\ MaxConnections \in Nat
        BY <2>2, ConnectionsAssumption DEF Accepts, ConnectionsAssumption
      <3>3. Cardinality(backends') <= MaxConnections
        BY <1>0, <3>1, <3>2
      <3> QED
        BY <2>1, <2>2, <3>3 DEF PlacesOK
    <2>3. CASE refused' = refused \cup {c} /\ backends' = backends
      BY <2>1, <2>3 DEF PlacesOK
    <2> QED
      BY <1>1, <2>2, <2>3 DEF Open, c
  <1>2. ASSUME NEW c \in backends, Release(c)
        PROVE  PlacesOK'
    <2>1. backends' = backends \ {c} /\ refused' = refused
      BY <1>2 DEF Release
    <2>2. Cardinality(backends') <= Cardinality(backends) /\ Cardinality(backends') \in Nat
      <3>1. /\ IsFiniteSet(backends')
            /\ Cardinality(backends') = Cardinality(backends) - 1
        BY <1>0, <2>1, FS_RemoveElement
      <3>2. Cardinality(backends') \in Nat
        BY <3>1, FS_CardinalityType
      <3> QED
        BY <1>0, <3>1, <3>2
    <2>3. Cardinality(backends') <= MaxConnections
      BY <1>0, <2>2, ConnectionsAssumption DEF PlacesOK, ConnectionsAssumption
    <2> QED
      BY <2>1, <2>3 DEF PlacesOK
  <1>3. CASE GoDown
    BY <1>3, FS_EmptySet, ConnectionsAssumption
    DEF GoDown, PlacesOK, ConnectionsAssumption
  <1>4. CASE UNCHANGED <<backends, refused, opened, outages>>
    BY <1>4 DEF PlacesOK
  <1> QED
    BY <1>1, <1>2, <1>3, <1>4, ConnectionSteps

LEMMA CountsStep == CountsOK /\ [Next]_vars => CountsOK'
  <1> SUFFICES ASSUME CountsOK, [Next]_vars
               PROVE  CountsOK'
    OBVIOUS
  <1>1. ASSUME NEW p \in Processes, Statement(p)
        PROVE  CountsOK'
    BY <1>1 DEF Statement, CountsOK
  <1>2. CASE UNCHANGED <<succeeded, failed>>
    BY <1>2 DEF CountsOK
  <1>3. (\E p \in Processes : Statement(p)) \/ UNCHANGED <<succeeded, failed>>
    BY DEF Next, vars, statements, Start, InitializeColumnMap, Open, Constructed,
           Fork, SmileReturns, Die, Release, GoDown, ComeUp
  <1> QED
    BY <1>1, <1>2, <1>3

\* The number of sessions that have or open connections goes up in one action only.
LEMMA PeakKinds ==
    ASSUME [Next]_vars
    PROVE  (\E p \in Processes : InitializeColumnMap(p)) \/ peak' = peak
  BY DEF Next, vars, Start, Open, Constructed, Statement, Fork, SmileReturns, Die,
         Release, GoDown, ComeUp

LEMMA PeakStep == PeakOK /\ [Next]_vars => PeakOK' /\ peak <= peak'
  <1> SUFFICES ASSUME PeakOK, [Next]_vars
               PROVE  PeakOK' /\ peak <= peak'
    OBVIOUS
  <1>0. Cardinality(Sessions) \in Nat
    BY CountPlaces
  <1>1. ASSUME NEW p \in Processes, InitializeColumnMap(p)
        PROVE  PeakOK' /\ peak <= peak'
    <2> DEFINE U == Users \cup ({p} \cap Sessions)
    <2>1. peak' = Higher(peak, Cardinality(U))
      BY <1>1 DEF InitializeColumnMap
    <2>2. U \in SUBSET Sessions
      BY DEF Users
    <2> HIDE DEF U
    <2>3. Cardinality(U) \in 0..Cardinality(Sessions)
      BY <2>2, CountPlaces
    <2> QED
      BY <1>0, <2>1, <2>3 DEF PeakOK, Higher
  <1>2. CASE peak' = peak
    BY <1>0, <1>2 DEF PeakOK
  <1> QED
    BY <1>1, <1>2, PeakKinds

LEMMA TypesStep == Types /\ [Next]_vars => Types'
  BY LifeStep, PoolsStep, OutagesStep, PlacesStep, CountsStep, PeakStep DEF Types

LEMMA TypesAlways == Spec => []Types
  BY InitTypes, TypesStep, PTL DEF Spec

\* Processes, pools and server keep their types, whatever their numbers and sizes
\* (DBWrapper.cpp:51-76).
THEOREM ConnectionsTypeCorrect == Spec => []TypeOK
  <1>1. Types => TypeOK
    BY DEF Types, LifeOK, PoolsOK, OutagesOK, PlacesOK, CountsOK, PeakOK, TypeOK
  <1> QED
    BY <1>1, TypesAlways, PTL

-----------------------------------------------------------------------------
(* Why connections are refused *)

Crowded == outages > 0 \/ ManagerPool + PoolSize * peak > MaxConnections

\* Connections are opened in their order, when the map has been read, and all of
\* them before the first statement.
OpenedInOrder ==
    /\ \A c \in backends : c[2] <= opened[c[1]]
    /\ \A p \in Processes : /\ pc[p] \in {"absent", "map"} => opened[p] = 0
                            /\ pc[p] \in {"ready", "returned"} => opened[p] = Pool(p)

UsersCounted == Cardinality(Users) <= peak

\* As long as the server runs it serves all connections of a process that lives,
\* those apart it has refused.
Served ==
    outages = 0 =>
        /\ up
        /\ \A p \in Processes : Alive(p) =>
               \A i \in 1..opened[p] : <<p, i>> \in backends \cup refused

RefusedForCause == refused # {} => Crowded

CauseInv ==
    OpenedInOrder /\ UsersCounted /\ Served /\ RefusedForCause /\ FailsForCause

LEMMA CrowdedStays ==
    ASSUME Types, [Next]_vars
    PROVE  /\ Crowded => Crowded'
           /\ outages' = 0 => outages = 0
  <1>0. outages \in Nat /\ peak \in Nat /\ peak' \in Nat /\ peak <= peak'
    BY TypesStep, PeakStep, CountPlaces, ConnectionsAssumption
    DEF Types, OutagesOK, PeakOK, ConnectionsAssumption
  <1>1. outages' = outages \/ outages' = outages + 1
    BY ConnectionSteps DEF Open, Release, GoDown
  <1>2. PoolSize * peak \in Nat /\ PoolSize * peak' \in Nat
        /\ PoolSize * peak <= PoolSize * peak'
    BY <1>0, Monotone
  <1>3. ManagerPool \in Nat /\ MaxConnections \in Nat
    BY ConnectionsAssumption DEF ConnectionsAssumption
  <1>4. outages > 0 => outages' > 0
    BY <1>0, <1>1
  <1>5. ManagerPool + PoolSize * peak > MaxConnections =>
            ManagerPool + PoolSize * peak' > MaxConnections
    BY <1>2, <1>3
  <1> QED
    BY <1>0, <1>1, <1>4, <1>5 DEF Crowded

LEMMA OrderStep == Types /\ OpenedInOrder /\ [Next]_vars => OpenedInOrder'
  <1> SUFFICES ASSUME Types, OpenedInOrder, [Next]_vars
               PROVE  OpenedInOrder'
    OBVIOUS
  <1> USE DEF OpenedInOrder
  <1>0. /\ pc \in [Processes -> {"absent", "map", "open", "ready", "returned", "dead"}]
        /\ opened \in [Processes -> Nat]
        /\ \A p \in Processes : opened[p] <= Pool(p)
        /\ \A p \in Processes : Pool(p) \in Nat
    BY ConnectionsAssumption DEF Types, LifeOK, PoolsOK, Pool, ConnectionsAssumption
  <1>1. ASSUME NEW p \in Processes, InitializeColumnMap(p)
        PROVE  OpenedInOrder'
    BY <1>0, <1>1 DEF InitializeColumnMap, server
  <1>2. ASSUME NEW p \in Processes, Open(p)
        PROVE  OpenedInOrder'
    <2>1. /\ pc[p] = "open" /\ pc' = pc
          /\ opened' = [opened EXCEPT ![p] = opened[p] + 1]
          /\ backends' \subseteq backends \cup {<<p, opened[p] + 1>>}
      BY <1>2 DEF Open, life
    <2>2. \A q \in Processes : q # p => opened'[q] = opened[q]
      BY <1>0, <2>1
    <2>3. opened'[p] = opened[p] + 1
      BY <1>0, <2>1
    <2>4. \A c \in backends : c[1] \in Processes /\ c[2] \in Nat
      BY ConnectionsAssumption
      DEF Types, PlacesOK, Places, Processes, ConnectionsAssumption
    <2>5. ASSUME NEW c \in backends'
          PROVE  c[2] <= opened'[c[1]]
      <3>1. CASE c = <<p, opened[p] + 1>>
        BY <1>0, <2>3, <3>1
      <3>2. CASE c \in backends
        BY <1>0, <2>2, <2>3, <2>4, <3>2
      <3> QED
        BY <2>1, <3>1, <3>2
    <2> QED
      BY <1>0, <2>1, <2>2, <2>5
  <1>3. ASSUME NEW p \in Processes, Constructed(p)
        PROVE  OpenedInOrder'
    <2>1. opened[p] = Pool(p)
      BY <1>0, <1>3 DEF Constructed, More
    <2>2. pc' = [pc EXCEPT ![p] = "ready"] /\ opened' = opened /\ backends' = backends
      BY <1>3 DEF Constructed, server
    <2> QED
      BY <1>0, <2>1, <2>2 DEF Pool
  <1>4. ASSUME NEW p \in Processes, Statement(p)
        PROVE  OpenedInOrder'
    BY <1>4 DEF Statement, life, server, Pool
  <1>5. ASSUME NEW p \in Processes, NEW s \in Sessions, Fork(p, s)
        PROVE  OpenedInOrder'
    BY <1>0, <1>5, ManagerIsNoSession DEF Fork, server, Pool
  <1>6. ASSUME NEW s \in Sessions, SmileReturns(s) \/ Die(s)
        PROVE  OpenedInOrder'
    BY <1>0, <1>6, ManagerIsNoSession DEF SmileReturns, Die, server, Pool
  <1>7. ASSUME NEW c \in backends, Release(c)
        PROVE  OpenedInOrder'
    BY <1>7 DEF Release, life, Pool
  <1>8. CASE GoDown \/ ComeUp
    BY <1>8 DEF GoDown, ComeUp, life, Pool
  <1>9. CASE UNCHANGED vars
    BY <1>9 DEF vars, life, server, Pool
  <1> QED
    BY <1>1, <1>2, <1>3, <1>4, <1>5, <1>6, <1>7, <1>8, <1>9 DEF Next, Start

LEMMA UsersStep == Types /\ UsersCounted /\ [Next]_vars => UsersCounted'
  <1> SUFFICES ASSUME Types, UsersCounted, [Next]_vars
               PROVE  UsersCounted'
    OBVIOUS
  <1>0. /\ Users \in SUBSET Sessions /\ Users' \in SUBSET Sessions
        /\ peak \in Nat /\ peak' \in Nat /\ peak <= peak'
    BY TypesStep, PeakStep, CountPlaces DEF Users, Types, PeakOK
  <1>1. IsFiniteSet(Users) /\ Cardinality(Users) \in Nat
        /\ Cardinality(Users') \in Nat
    BY <1>0, CountPlaces
  <1>2. ASSUME NEW p \in Processes, InitializeColumnMap(p)
        PROVE  UsersCounted'
    <2> DEFINE U == Users \cup ({p} \cap Sessions)
    <2>1. peak' = Higher(peak, Cardinality(U))
      BY <1>2 DEF InitializeColumnMap
    <2>2. Users' \subseteq U
      BY <1>2 DEF InitializeColumnMap, Users, server, Types, LifeOK
    <2>3. U \in SUBSET Sessions
      BY <1>0
    <2> HIDE DEF U
    <2>4. IsFiniteSet(U) /\ Cardinality(U) \in Nat
      BY <2>3, CountPlaces
    <2>5. Cardinality(Users') <= Cardinality(U)
      BY <2>2, <2>4, FS_Subset
    <2> QED
      BY <1>0, <1>1, <2>1, <2>4, <2>5 DEF Higher, UsersCounted
  <1>3. CASE Users' \subseteq Users
    <2>1. Cardinality(Users') <= Cardinality(Users)
      BY <1>1, <1>3, FS_Subset
    <2> DEFINE m == Cardinality(Users)
               n == Cardinality(Users')
    <2>2. m \in Nat /\ n \in Nat /\ n <= m /\ m <= peak
      BY <1>1, <2>1 DEF UsersCounted
    <2> HIDE DEF m, n
    <2>3. n <= peak'
      BY <1>0, <2>2
    <2> QED
      BY <2>3 DEF n, UsersCounted
  <1>4. ASSUME NEW p \in Processes, Open(p)
        PROVE  Users' \subseteq Users
    <2>1. /\ pc[p] = "open" /\ pc' = pc
          /\ backends' \subseteq backends \cup {<<p, opened[p] + 1>>}
      BY <1>4 DEF Open, life
    <2> QED
      BY <2>1 DEF Users
  <1>5. /\ pc \in [Processes -> {"absent", "map", "open", "ready", "returned", "dead"}]
        /\ \A s \in Sessions : s \in Processes
    BY ManagerIsNoSession DEF Types, LifeOK
  <1> DEFINE NoNew == /\ backends' \subseteq backends
                      /\ \A s \in Sessions : pc'[s] = "open" => pc[s] = "open"
  <1>6. NoNew => Users' \subseteq Users
    BY DEF Users
  <1>7. ASSUME NEW p \in Processes, Constructed(p)
        PROVE  NoNew
    BY <1>5, <1>7 DEF Constructed, server
  <1>8. ASSUME NEW p \in Processes, Statement(p)
        PROVE  NoNew
    BY <1>8 DEF Statement, server, life
  <1>9. ASSUME NEW p \in Processes, NEW s \in Sessions, Fork(p, s)
        PROVE  NoNew
    BY <1>5, <1>9 DEF Fork, server
  <1>10. ASSUME NEW s \in Sessions, SmileReturns(s)
         PROVE  NoNew
    BY <1>5, <1>10 DEF SmileReturns, server
  <1>11. ASSUME NEW s \in Sessions, Die(s)
         PROVE  NoNew
    BY <1>5, <1>11 DEF Die, server
  <1>12. ASSUME NEW c \in backends, Release(c)
         PROVE  NoNew
    BY <1>12 DEF Release, life
  <1>13. CASE GoDown \/ ComeUp
    <2>1. NoNew
      BY <1>13 DEF GoDown, ComeUp, life
    <2> QED
      BY <1>3, <1>6, <2>1
  <1>14. CASE UNCHANGED vars
    <2>1. NoNew
      BY <1>14 DEF vars, life, server
    <2> QED
      BY <1>3, <1>6, <2>1
  <1> HIDE DEF NoNew
  <1> QED
    BY <1>2, <1>3, <1>4, <1>6, <1>7, <1>8, <1>9, <1>10, <1>11, <1>12, <1>13, <1>14
    DEF Next, Start

\* A server that refuses has been restarted or is full, and then the Manager and
\* the sessions that have or want connections need more than it has.
LEMMA RefusedStep ==
    Types /\ OpenedInOrder /\ UsersCounted /\ Served /\ RefusedForCause /\ [Next]_vars
        => RefusedForCause'
  <1> SUFFICES ASSUME Types, OpenedInOrder, UsersCounted, Served, RefusedForCause,
                      [Next]_vars
               PROVE  RefusedForCause'
    OBVIOUS
  <1>1. ASSUME NEW p \in Processes, Open(p), refused' # refused
        PROVE  Crowded
    <2> DEFINE c == <<p, opened[p] + 1>>
    <2>1. pc[p] = "open" /\ (~up \/ ~(Cardinality(backends) < MaxConnections))
      BY <1>1 DEF Open, Accepts
    <2>2. CASE ~up
      <3>1. outages # 0 /\ outages \in Nat
        BY <2>2, ConnectionsAssumption
        DEF Served, Types, OutagesOK, ConnectionsAssumption
      <3> QED
        BY <3>1 DEF Crowded
    <2>3. CASE ~(Cardinality(backends) < MaxConnections)
      <3>1. Users \in SUBSET Sessions
        BY DEF Users
      <3>2. {p} \cap Sessions \subseteq Users
        BY <2>1 DEF Users
      <3>3. c \in Places(Users)
        BY <1>1, <3>2, OpenedHasPlace DEF Types, Places
      <3>4. backends \subseteq Places(Users)
        BY DEF Types, PlacesOK, Places, Users
      <3>5. c \notin backends
        <4>1. opened[p] \in Nat
          BY DEF Types, PoolsOK
        <4> QED
          BY <4>1 DEF OpenedInOrder
      <3> HIDE DEF c
      <3>6. /\ IsFiniteSet(Places(Users)) /\ Cardinality(Places(Users)) \in Nat
            /\ Cardinality(Places(Users)) <= ManagerPool + PoolSize * Cardinality(Users)
            /\ Cardinality(Users) \in Nat
        BY <3>1, CountPlaces
      <3>7. IsFiniteSet(backends) /\ Cardinality(backends) \in Nat
        BY <3>4, <3>6, FS_Subset, FS_CardinalityType
      <3>8. Cardinality(backends \cup {c}) = Cardinality(backends) + 1
        BY <3>5, <3>7, FS_AddElement
      <3>9. Cardinality(backends \cup {c}) <= Cardinality(Places(Users))
        BY <3>3, <3>4, <3>6, FS_Subset
      <3>10. peak \in Nat /\ Cardinality(Users) <= peak
        BY CountPlaces DEF Types, PeakOK, UsersCounted
      <3>11. /\ PoolSize * Cardinality(Users) \in Nat /\ PoolSize * peak \in Nat
             /\ PoolSize * Cardinality(Users) <= PoolSize * peak
        BY <3>6, <3>10, Monotone
      <3>12. ManagerPool \in Nat /\ MaxConnections \in Nat
        BY ConnectionsAssumption DEF ConnectionsAssumption
      <3> DEFINE b == Cardinality(backends)
                 n == Cardinality(Places(Users))
                 u == PoolSize * Cardinality(Users)
                 v == PoolSize * peak
      <3>13. /\ b \in Nat /\ n \in Nat /\ u \in Nat /\ v \in Nat
             /\ b + 1 <= n /\ n <= ManagerPool + u /\ u <= v /\ ~(b < MaxConnections)
        BY <2>3, <3>6, <3>7, <3>8, <3>9, <3>11
      <3> HIDE DEF b, n, u, v
      <3>14. ManagerPool + v > MaxConnections
        BY <3>12, <3>13
      <3> QED
        BY <3>14 DEF v, Crowded
    <2> QED
      BY <2>1, <2>2, <2>3
  <1>2. (\E p \in Processes : Open(p)) \/ refused' = refused
    BY ConnectionSteps DEF Release, GoDown
  <1>3. refused' # {} => Crowded
    BY <1>1, <1>2 DEF RefusedForCause
  <1> QED
    BY <1>3, CrowdedStays DEF RefusedForCause

LEMMA ServedStep == Types /\ OpenedInOrder /\ Served /\ [Next]_vars => Served'
  <1> SUFFICES ASSUME Types, OpenedInOrder, Served, [Next]_vars, outages' = 0
               PROVE  /\ up'
                      /\ \A p \in Processes : Alive(p)' =>
                             \A i \in 1..opened'[p] : <<p, i>> \in backends' \cup refused'
    BY DEF Served
  <1>0. /\ up
        /\ \A p \in Processes : Alive(p) =>
               \A i \in 1..opened[p] : <<p, i>> \in backends \cup refused
    BY CrowdedStays DEF Served
  <1>1. up'
    <2>1. ~GoDown
      BY ConnectionsAssumption
      DEF GoDown, Types, OutagesOK, ConnectionsAssumption
    <2> QED
      BY <1>0, <2>1 DEF Next, vars, server, Start, InitializeColumnMap, Open,
         Constructed, Statement, Fork, SmileReturns, Die, Release, ComeUp
  <1>2. ASSUME NEW p \in Processes, Alive(p)', NEW i \in 1..opened'[p]
        PROVE  <<p, i>> \in backends' \cup refused'
    <2>0. /\ pc \in [Processes -> {"absent", "map", "open", "ready", "returned", "dead"}]
          /\ opened \in [Processes -> Nat]
      BY DEF Types, LifeOK, PoolsOK
    <2>1. Alive(p) \/ opened'[p] = 0
      <3>1. CASE \E q \in Processes, s \in Sessions : Fork(q, s)
        BY <1>2, <2>0, <3>1 DEF Fork, Alive, OpenedInOrder
      <3>2. CASE ~\E q \in Processes, s \in Sessions : Fork(q, s)
        BY <1>2, <2>0, <3>2, ManagerIsNoSession
        DEF Next, vars, life, Start, InitializeColumnMap, Open, Constructed,
            Statement, SmileReturns, Die, Release, GoDown, ComeUp, Alive
      <3> QED
        BY <3>1, <3>2
    <2>2. CASE opened'[p] = 0
      BY <2>2
    <2>3. CASE Alive(p)
      <3>1. CASE UNCHANGED <<backends, refused, opened, outages>>
        BY <1>0, <2>3, <3>1
      <3>2. ASSUME NEW q \in Processes, Open(q)
            PROVE  <<p, i>> \in backends' \cup refused'
        <4>1. /\ opened' = [opened EXCEPT ![q] = opened[q] + 1]
              /\ backends \cup refused \cup {<<q, opened[q] + 1>>}
                     \subseteq backends' \cup refused'
          BY <3>2 DEF Open
        <4>2. CASE i \in 1..opened[p]
          BY <1>0, <2>3, <4>1, <4>2
        <4>3. CASE i \notin 1..opened[p]
          <5>1. p = q /\ i = opened[q] + 1
            BY <2>0, <4>1, <4>3
          <5> QED
            BY <4>1, <5>1
        <4> QED
          BY <4>2, <4>3
      <3>3. ASSUME NEW c \in backends, Release(c)
            PROVE  <<p, i>> \in backends' \cup refused'
        <4>1. /\ ~Held(c) /\ opened' = opened /\ refused' = refused
              /\ backends' = backends \ {c}
          BY <3>3 DEF Release
        <4>2. c # <<p, i>>
          BY <2>3, <4>1 DEF Held
        <4> QED
          BY <1>0, <2>3, <4>1, <4>2
      <3>4. ~GoDown
        BY ConnectionsAssumption
        DEF GoDown, Types, OutagesOK, ConnectionsAssumption
      <3> QED
        BY <3>1, <3>2, <3>3, <3>4, ConnectionSteps
    <2> QED
      BY <2>1, <2>2, <2>3
  <1> QED
    BY <1>1, <1>2

LEMMA FailedStep ==
    Types /\ CauseInv /\ [Next]_vars => FailsForCause'
  <1> SUFFICES ASSUME Types, CauseInv, [Next]_vars, NEW q \in Processes, failed'[q] > 0
               PROVE  Crowded'
    BY DEF FailsForCause, Crowded
  <1>1. CASE failed' = failed
    BY <1>1, CrowdedStays DEF CauseInv, FailsForCause, Crowded
  <1>2. ASSUME NEW p \in Processes, Statement(p), failed' # failed
        PROVE  Crowded
    <2>1. pc[p] = "ready" /\ Used(p) \notin backends
      BY <1>2 DEF Statement
    <2>2. opened[p] = Pool(p) /\ opened[p] \in 1..opened[p]
      BY <2>1, ConnectionsAssumption
      DEF CauseInv, OpenedInOrder, Pool, ConnectionsAssumption
    <2>3. outages = 0 => <<p, opened[p]>> \in backends \cup refused
      BY <2>1, <2>2 DEF CauseInv, Served, Alive
    <2>4. outages = 0 => refused # {}
      BY <2>1, <2>3 DEF Used
    <2>5. outages # 0 => Crowded
      BY ConnectionsAssumption DEF Crowded, Types, OutagesOK, ConnectionsAssumption
    <2> QED
      BY <2>4, <2>5 DEF CauseInv, RefusedForCause
  <1>3. (\E p \in Processes : Statement(p)) \/ failed' = failed
    BY DEF Next, vars, statements, Start, InitializeColumnMap, Open, Constructed,
           Fork, SmileReturns, Die, Release, GoDown, ComeUp
  <1> QED
    BY <1>1, <1>2, <1>3, CrowdedStays

\* As long as the server is not restarted and has places for the sessions there
\* were at any one time, none of its statements fails: 431 of 500 for the four
\* sessions of a trial, but 831 if those of the trial before are still there
\* (OpensmileProcessor.cpp:29, DBWrapper.cpp:59-74).
THEOREM StatementsFailForCause == Spec => []FailsForCause
  <1>1. Init => CauseInv
    <2> SUFFICES ASSUME Init PROVE CauseInv
      OBVIOUS
    <2>1. OpenedInOrder
      BY DEF Init, OpenedInOrder
    <2>2. UsersCounted
      <3>1. Users = {}
        BY ManagerIsNoSession DEF Init, Users
      <3> QED
        BY <3>1, FS_EmptySet DEF Init, UsersCounted
    <2>3. Served
      BY DEF Init, Served
    <2>4. RefusedForCause /\ FailsForCause
      BY DEF Init, RefusedForCause, FailsForCause
    <2> QED
      BY <2>1, <2>2, <2>3, <2>4 DEF CauseInv
  <1>2. Types /\ CauseInv /\ [Next]_vars => CauseInv'
    BY OrderStep, UsersStep, ServedStep, RefusedStep, FailedStep DEF CauseInv
  <1>3. CauseInv => FailsForCause
    BY DEF CauseInv
  <1> QED
    BY <1>1, <1>2, <1>3, TypesAlways, PTL DEF Spec

\* Every statement is stored as long as the server is not restarted.
NothingLost == outages = 0 => \A p \in Processes : failed[p] = 0

\* If the places of the server are enough for the Manager and every session there
\* ever is, as 500 are for 31 and the 100 of each of four participants of a single
\* trial (docker-compose.yml), no statement fails in a server that stays up.
THEOREM EnoughPlaces ==
    ManagerPool + PoolSize * Cardinality(Sessions) <= MaxConnections
        => (Spec => []NothingLost)
  <1> SUFFICES ASSUME ManagerPool + PoolSize * Cardinality(Sessions) <= MaxConnections
               PROVE  Spec => []NothingLost
    OBVIOUS
  <1>1. Types /\ FailsForCause => NothingLost
    <2> SUFFICES ASSUME Types, FailsForCause, outages = 0,
                        NEW p \in Processes, failed[p] # 0
                 PROVE  FALSE
      BY DEF NothingLost
    <2>1. failed[p] > 0
      BY DEF Types, CountsOK
    <2>2. ManagerPool + PoolSize * peak > MaxConnections
      BY <2>1 DEF FailsForCause
    <2>3. /\ peak \in Nat /\ Cardinality(Sessions) \in Nat
          /\ peak <= Cardinality(Sessions)
      BY CountPlaces DEF Types, PeakOK
    <2>4. /\ PoolSize * peak \in Nat /\ PoolSize * Cardinality(Sessions) \in Nat
          /\ PoolSize * peak <= PoolSize * Cardinality(Sessions)
      BY <2>3, Monotone
    <2> QED
      BY <2>2, <2>4, ConnectionsAssumption DEF ConnectionsAssumption
  <1> QED
    BY <1>1, TypesAlways, StatementsFailForCause, PTL

-----------------------------------------------------------------------------
(* A failure is for good *)

\* The connection a process uses is not among those served, once it has failed.
GoneForGood ==
    \A p \in Processes :
        failed[p] > 0 => /\ pc[p] \in {"ready", "returned", "dead"}
                         /\ Used(p) \notin backends

LEMMA GoneStep == Types /\ GoneForGood /\ [Next]_vars => GoneForGood'
  <1> SUFFICES ASSUME Types, GoneForGood, [Next]_vars,
                      NEW p \in Processes, failed'[p] > 0
               PROVE  pc'[p] \in {"ready", "returned", "dead"} /\ Used(p)' \notin backends'
    BY DEF GoneForGood
  <1>0. pc \in [Processes -> {"absent", "map", "open", "ready", "returned", "dead"}]
        /\ opened \in [Processes -> Nat] /\ failed \in [Processes -> Nat]
    BY DEF Types, LifeOK, PoolsOK, CountsOK
  <1> DEFINE Goal == pc'[p] \in {"ready", "returned", "dead"} /\ Used(p)' \notin backends'
             Before == pc[p] \in {"ready", "returned", "dead"} /\ Used(p) \notin backends
  <1>1. failed[p] > 0 => Before
    BY DEF GoneForGood
  <1>2. ASSUME NEW q \in Processes, InitializeColumnMap(q) \/ Constructed(q)
        PROVE  Goal
    BY <1>0, <1>1, <1>2
    DEF InitializeColumnMap, Constructed, server, statements, Used
  <1>3. ASSUME NEW q \in Processes, Open(q)
        PROVE  Goal
    <2>1. /\ pc[q] = "open" /\ pc' = pc /\ failed' = failed
          /\ opened' = [opened EXCEPT ![q] = opened[q] + 1]
          /\ backends' \subseteq backends \cup {<<q, opened[q] + 1>>}
      BY <1>3 DEF Open, life, statements
    <2>2. Before /\ p # q
      BY <1>1, <2>1
    <2> QED
      BY <1>0, <2>1, <2>2 DEF Used
  <1>4. ASSUME NEW q \in Processes, Statement(q)
        PROVE  Goal
    <2>1. /\ pc[q] = "ready" /\ pc' = pc /\ opened' = opened /\ backends' = backends
      BY <1>4 DEF Statement, life, server
    <2>2. CASE failed' = failed
      BY <1>1, <2>1, <2>2 DEF Used
    <2>3. CASE Used(q) \notin backends /\ failed' = [failed EXCEPT ![q] = failed[q] + 1]
      <3>1. CASE p = q
        BY <2>1, <2>3, <3>1 DEF Used
      <3>2. CASE p # q
        BY <1>0, <1>1, <2>1, <2>3, <3>2 DEF Used
      <3> QED
        BY <3>1, <3>2
    <2> QED
      BY <1>4, <2>2, <2>3 DEF Statement
  <1>5. ASSUME NEW q \in Processes, NEW s \in Sessions, Fork(q, s)
        PROVE  Goal
    BY <1>0, <1>1, <1>5, ManagerIsNoSession DEF Fork, server, statements, Used
  <1>6. ASSUME NEW s \in Sessions, SmileReturns(s) \/ Die(s)
        PROVE  Goal
    BY <1>0, <1>1, <1>6, ManagerIsNoSession
    DEF SmileReturns, Die, server, statements, Used
  <1>7. ASSUME NEW c \in backends, Release(c)
        PROVE  Goal
    BY <1>1, <1>7 DEF Release, life, statements, Used
  <1>8. CASE GoDown \/ ComeUp
    BY <1>1, <1>8 DEF GoDown, ComeUp, life, statements, Used
  <1>9. CASE UNCHANGED vars
    BY <1>1, <1>9 DEF vars, life, server, statements, Used
  <1> QED
    BY <1>2, <1>3, <1>4, <1>5, <1>6, <1>7, <1>8, <1>9 DEF Next, Start

\* A process whose newest connection was refused or cut stores nothing from then on:
\* nobody opens a connection again, and with one caller nobody takes another
\* (DBWrapper.cpp:78-98).
THEOREM StatementsFailForGood == Spec => FailsForGood
  <1>1. Init => GoneForGood
    BY DEF Init, GoneForGood
  <1>2. Types /\ GoneForGood /\ [Next]_vars => GoneForGood'
    BY GoneStep
  <1>3. Types /\ GoneForGood /\ [Next]_vars =>
            [\A p \in Processes : failed[p] > 0 => succeeded'[p] = succeeded[p]]_vars
    <2> SUFFICES ASSUME Types, GoneForGood, [Next]_vars,
                        NEW p \in Processes, failed[p] > 0
                 PROVE  succeeded'[p] = succeeded[p]
      OBVIOUS
    <2>1. ASSUME NEW q \in Processes, Statement(q)
          PROVE  succeeded'[p] = succeeded[p]
      <3>1. CASE p = q
        BY <2>1, <3>1 DEF Statement, GoneForGood
      <3>2. CASE p # q
        BY <2>1, <3>2 DEF Statement, Types, CountsOK
      <3> QED
        BY <3>1, <3>2
    <2>2. (\E q \in Processes : Statement(q)) \/ succeeded' = succeeded
      BY DEF Next, vars, statements, Start, InitializeColumnMap, Open, Constructed,
             Fork, SmileReturns, Die, Release, GoDown, ComeUp
    <2> QED
      BY <2>1, <2>2
  <1> QED
    BY <1>1, <1>2, <1>3, TypesAlways, PTL DEF Spec, FailsForGood

-----------------------------------------------------------------------------
(* Induction over the rounds of a loop *)

LessThan == {ss \in Nat \X Nat : ss[1] < ss[2]}

\* The least number principle, for sets of numbers.
LEMMA Least ==
    ASSUME NEW T, T \subseteq Nat, T # {}
    PROVE  \E n \in T : \A k \in T : ~(k < n)
  <1>1. IsWellFoundedOn(LessThan, Nat)
    BY NatLessThanWellFounded DEF OpToRel, LessThan
  <1>2. \E n \in T : \A k \in T : <<k, n>> \notin LessThan
    BY <1>1, WFMin
  <1>3. \A k, n \in T : k < n => <<k, n>> \in LessThan
    BY DEF LessThan
  <1> QED
    BY <1>2, <1>3

\* The maps after each round, up to round n.
Maps(g, f, n) ==
    g = [i \in 0..n |->
            IF i = 0 THEN <<>>
            ELSE BothWays(g[i - 1], opensmile_format(f, i), postgres_format(f, i))]

LEMMA MapsExist ==
    ASSUME NEW f, NEW n \in Nat
    PROVE  \E g : Maps(g, f, n)
  <1> DEFINE T == {m \in Nat : ~ \E g : Maps(g, f, m)}
  <1> SUFFICES ASSUME T # {}
               PROVE  FALSE
    OBVIOUS
  <1>1. PICK m \in T : \A k \in T : ~(k < m)
    <2> HIDE DEF T
    <2>1. T \subseteq Nat
      BY DEF T
    <2> QED
      BY <2>1, Least
  <1>2. m # 0
    <2>1. Maps([i \in 0..0 |-> <<>>], f, 0)
      BY DEF Maps
    <2> QED
      BY <2>1
  <1>3. m - 1 \in Nat /\ m \in Nat
    BY <1>2
  <1>4. PICK g : Maps(g, f, m - 1)
    BY <1>1, <1>3
  <1> DEFINE h == [i \in 0..m |->
                      IF i = m
                      THEN BothWays(g[m - 1], opensmile_format(f, m), postgres_format(f, m))
                      ELSE g[i]]
  <1>5. \A i \in 0..(m - 1) :
            g[i] = IF i = 0 THEN <<>>
                   ELSE BothWays(g[i - 1], opensmile_format(f, i), postgres_format(f, i))
    BY <1>3, <1>4 DEF Maps
  <1>6. \A i \in 0..m :
            h[i] = IF i = 0 THEN <<>>
                   ELSE BothWays(h[i - 1], opensmile_format(f, i), postgres_format(f, i))
    BY <1>2, <1>3, <1>5
  <1>7. Maps(h, f, m)
    BY <1>6 DEF Maps
  <1> QED
    BY <1>7

\* MapOf is the map after the last round.
LEMMA MapOfIsLast ==
    ASSUME NEW f, Rounds(f) \in Nat
    PROVE  \E g : Maps(g, f, Rounds(f)) /\ MapOf(f) = g[Rounds(f)]
  <1>1. Maps(CHOOSE g : Maps(g, f, Rounds(f)), f, Rounds(f))
    BY MapsExist
  <1>2. MapOf(f) = (CHOOSE g : Maps(g, f, Rounds(f)))[Rounds(f)]
    BY DEF MapOf, Maps
  <1> QED
    BY <1>1, <1>2

-----------------------------------------------------------------------------
(* What the map of a well-formed file says *)

\* The field and the column of pair i.
Field(f, i) == f.words[2 * i - 1]
Column(f, i) == f.words[2 * i]
Pairs(f) == Words(f) \div 2

\* The rounds are the pairs, and perhaps one more, which reads the last pair again.
LEMMA RoundsArePairs ==
    ASSUME NEW f \in [open : BOOLEAN, words : Seq(STRING), newline : BOOLEAN],
           WellFormed(f)
    PROVE  /\ Pairs(f) \in Nat /\ Pairs(f) > 0
           /\ Words(f) = 2 * Pairs(f) /\ Words(f) = Len(f.words)
           /\ Rounds(f) \in {Pairs(f), Pairs(f) + 1}
           /\ \A r \in 1..Rounds(f) :
                  LET i == IF r <= Pairs(f) THEN r ELSE Pairs(f)
                  IN  /\ opensmile_format(f, r) = Field(f, i)
                      /\ postgres_format(f, r) = Column(f, i)
  <1> DEFINE n == Words(f)
             m == Pairs(f)
  <1>1. n = Len(f.words) /\ n \in Nat /\ n > 0 /\ n % 2 = 0
    BY DEF WellFormed, Words
  <1>2. m \in Nat /\ m > 0 /\ n = 2 * m
    BY <1>1 DEF Pairs
  <1>3. Rounds(f) = m + (IF f.newline THEN 1 ELSE 0)
    BY <1>1, <1>2 DEF Rounds
  <1>4. f.newline \in BOOLEAN
    OBVIOUS
  <1>5. Rounds(f) \in {m, m + 1}
    BY <1>2, <1>3, <1>4
  <1>6. ASSUME NEW r \in 1..Rounds(f),
               NEW i, i = IF r <= m THEN r ELSE m
        PROVE  opensmile_format(f, r) = Field(f, i) /\ postgres_format(f, r) = Column(f, i)
    <2>1. r \in Nat /\ r >= 1 /\ r <= m + 1
      BY <1>2, <1>5, <1>6
    <2>2. opensmile_format(f, r) = LastUpTo(f, 2 * r - 1, n - 1)
          /\ postgres_format(f, r) = LastUpTo(f, 2 * r, n)
      BY <1>1 DEF opensmile_format, postgres_format
    <2> HIDE DEF n, m
    <2>3. CASE r <= m
      <3>1. /\ i = r
            /\ 2 * r - 1 <= n - 1 /\ 2 * r - 1 >= 1 /\ 2 * r <= n /\ 2 * r >= 1
        BY <1>2, <1>6, <2>1, <2>3
      <3> QED
        BY <2>2, <3>1 DEF LastUpTo, Field, Column
    <2>4. CASE ~(r <= m)
      <3>1. /\ i = m /\ 2 * i = n
            /\ ~(2 * r - 1 <= n - 1) /\ n - 1 >= 1 /\ ~(2 * r <= n) /\ n >= 1
        BY <1>2, <1>6, <2>1, <2>4
      <3> QED
        BY <2>2, <3>1 DEF LastUpTo, Field, Column
    <2> QED
      BY <2>3, <2>4
  <1> QED
    BY <1>1, <1>2, <1>5, <1>6

\* A map that has a pair, both ways.
Has(map, f, i) ==
    /\ {Field(f, i), Column(f, i)} \subseteq DOMAIN map
    /\ map[Field(f, i)] = Column(f, i) /\ map[Column(f, i)] = Field(f, i)

\* A round adds its pair and keeps the others, which share no word with it.
LEMMA RoundKeeps ==
    ASSUME NEW f \in [open : BOOLEAN, words : Seq(STRING), newline : BOOLEAN],
           WellFormed(f), NEW map,
           NEW i \in 1..Pairs(f), NEW j \in 1..Pairs(f),
           Has(map, f, i) \/ i = j
    PROVE  Has(BothWays(map, Field(f, j), Column(f, j)), f, i)
  <1> DEFINE next == BothWays(map, Field(f, j), Column(f, j))
  <1>1. /\ DOMAIN next = DOMAIN map \cup {Field(f, j), Column(f, j)}
        /\ \A k \in DOMAIN next :
               next[k] = IF k = Column(f, j) THEN Field(f, j)
                         ELSE IF k = Field(f, j) THEN Column(f, j) ELSE map[k]
    BY DEF BothWays
  <1> HIDE DEF next
  <1>2. CASE i = j
    <2> DEFINE a == Field(f, j)
               b == Column(f, j)
    <2>1. a \in DOMAIN next /\ b \in DOMAIN next
      BY <1>1
    <2>2. next[b] = a /\ next[a] = b
      BY <1>1, <2>1
    <2> QED
      BY <1>2, <2>1, <2>2 DEF Has, next
  <1>3. CASE i # j
    <2>1. /\ 2 * i - 1 \in 1..Words(f) /\ 2 * i \in 1..Words(f)
          /\ 2 * j - 1 \in 1..Words(f) /\ 2 * j \in 1..Words(f)
          /\ i \in Nat /\ j \in Nat
      BY RoundsArePairs
    <2>2. /\ (2 * i) \div 2 = i /\ (2 * i + 1) \div 2 = i
          /\ (2 * j) \div 2 = j /\ (2 * j + 1) \div 2 = j
      BY <2>1
    <2>3. \A a \in {2 * i - 1, 2 * i}, b \in {2 * j - 1, 2 * j} :
              /\ a \in 1..Words(f) /\ b \in 1..Words(f)
              /\ (a + 1) \div 2 # (b + 1) \div 2
      BY <1>3, <2>1, <2>2
    <2>4. \A a \in {2 * i - 1, 2 * i}, b \in {2 * j - 1, 2 * j} :
              f.words[a] # f.words[b]
      BY <2>3 DEF WellFormed
    <2>5. {Field(f, i), Column(f, i)} \cap {Field(f, j), Column(f, j)} = {}
      BY <2>4 DEF Field, Column
    <2> QED
      BY <1>1, <1>3, <2>5 DEF Has, next
  <1> QED
    BY <1>2, <1>3 DEF next

\* After the last round the map has every pair of the file.
LEMMA MapHasPairs ==
    ASSUME NEW f \in [open : BOOLEAN, words : Seq(STRING), newline : BOOLEAN],
           WellFormed(f), NEW i \in 1..Pairs(f)
    PROVE  Has(MapOf(f), f, i)
  <1>0. /\ Pairs(f) \in Nat /\ Rounds(f) \in Nat
        /\ Pairs(f) <= Rounds(f) /\ i \in Nat
    BY RoundsArePairs
  <1>1. PICK g : Maps(g, f, Rounds(f)) /\ MapOf(f) = g[Rounds(f)]
    BY <1>0, MapOfIsLast
  <1> DEFINE T == {r \in Nat : i <= r /\ r <= Rounds(f) /\ ~ Has(g[r], f, i)}
  <1>2. SUFFICES ASSUME T # {}
                 PROVE  FALSE
    BY <1>0, <1>1
  <1>3. PICK r \in T : \A k \in T : ~(k < r)
    <2> HIDE DEF T
    <2>1. T \subseteq Nat
      BY DEF T
    <2> QED
      BY <1>2, <2>1, Least
  <1>4. r \in 1..Rounds(f) /\ r \in Nat /\ r - 1 \in Nat /\ r - 1 < r
    BY <1>0, <1>3
  <1> DEFINE j == IF r <= Pairs(f) THEN r ELSE Pairs(f)
  <1>5. g[r] = BothWays(g[r - 1], Field(f, j), Column(f, j))
    <2>1. g[r] = BothWays(g[r - 1], opensmile_format(f, r), postgres_format(f, r))
      <3>1. g = [k \in 0..Rounds(f) |->
                    IF k = 0 THEN <<>>
                    ELSE BothWays(g[k - 1], opensmile_format(f, k), postgres_format(f, k))]
        BY <1>1 DEF Maps
      <3>2. r \in 0..Rounds(f) /\ r # 0
        BY <1>0, <1>4
      <3> HIDE DEF T, j
      <3> QED
        BY <3>1, <3>2
    <2> QED
      BY <1>4, <2>1, RoundsArePairs
  <1>6. j \in 1..Pairs(f)
    BY <1>0, <1>4, RoundsArePairs
  <1>7. i = j \/ Has(g[r - 1], f, i)
    <2>1. CASE i = r
      BY <2>1, <1>0
    <2>2. CASE i # r
      BY <1>0, <1>3, <1>4, <2>2
    <2> QED
      BY <2>1, <2>2
  <1> HIDE DEF j
  <1>8. Has(g[r], f, i)
    BY <1>5, <1>6, <1>7, RoundKeeps
  <1> QED
    BY <1>3, <1>8

\* A process that has read the file has its map.
MapRead ==
    /\ file \in Files
    /\ columnMap \in [Processes -> {NoMap, MapOf(file)}]
    /\ pc \in [Processes -> {"absent", "map", "open", "ready", "returned", "dead"}]
    /\ \A p \in Processes : pc[p] \in {"open", "ready"} => columnMap[p] = MapOf(file)

LEMMA MapReadStep == MapRead /\ [Next]_vars => MapRead'
  <1> SUFFICES ASSUME MapRead, [Next]_vars
               PROVE  MapRead'
    OBVIOUS
  <1> USE DEF MapRead, life, server, statements
  <1>0. Manager \in Processes /\ \A s \in Sessions : s \in Processes
    BY DEF Processes
  <1>1. ASSUME NEW p \in Processes, InitializeColumnMap(p)
        PROVE  MapRead'
    BY <1>1 DEF InitializeColumnMap
  <1>2. ASSUME NEW p \in Processes, Constructed(p)
        PROVE  MapRead'
    BY <1>2 DEF Constructed
  <1>3. ASSUME NEW p \in Processes, NEW s \in Sessions, Fork(p, s)
        PROVE  MapRead'
    BY <1>0, <1>3 DEF Fork
  <1>4. ASSUME NEW s \in Sessions, SmileReturns(s) \/ Die(s)
        PROVE  MapRead'
    BY <1>0, <1>4 DEF SmileReturns, Die
  <1>5. CASE UNCHANGED <<file, columnMap, pc>>
    BY <1>5
  <1>6. \/ \E p \in Processes : InitializeColumnMap(p) \/ Constructed(p)
        \/ \E p \in Processes, s \in Sessions : Fork(p, s)
        \/ \E s \in Sessions : SmileReturns(s) \/ Die(s)
        \/ UNCHANGED <<file, columnMap, pc>>
    BY DEF Next, vars, Start, Open, Statement, Release, GoDown, ComeUp
  <1> QED
    BY <1>1, <1>2, <1>3, <1>4, <1>5, <1>6

\* Whatever follows the last word of a file of pairs, the map the loop of
\* InitializeColumnMap builds (DBWrapper.cpp:38-49) leads from a field to its
\* column and back, for a file of any length.
THEOREM ColumnsMapBack == Spec => []MapsBack
  <1>1. Init => MapRead
    BY DEF Init, MapRead
  <1>2. MapRead => MapsBack
    <2> SUFFICES ASSUME MapRead, WellFormed(file),
                        NEW p \in Processes, pc[p] \in {"open", "ready"},
                        NEW i \in 1..(Words(file) \div 2)
                 PROVE  /\ format_to_db_string(columnMap[p], Field(file, i)) = Column(file, i)
                        /\ format_to_db_string(columnMap[p], Column(file, i)) = Field(file, i)
      BY DEF MapsBack, Field, Column
    <2>1. file \in [open : BOOLEAN, words : Seq(STRING), newline : BOOLEAN]
      BY ConnectionsAssumption DEF MapRead, ConnectionsAssumption
    <2>2. columnMap[p] = MapOf(file)
      BY DEF MapRead
    <2>3. Has(MapOf(file), file, i)
      BY <2>1, MapHasPairs DEF Pairs
    <2> QED
      BY <2>2, <2>3 DEF Has, format_to_db_string
  <1> QED
    BY <1>1, <1>2, MapReadStep, PTL DEF Spec
=============================================================================
