------------------------------ MODULE DBWrapper ------------------------------
(***************************************************************************)
(* The connection pool of DBWrapper (src/src/DBWrapper.cpp): a stack of    *)
(* connections guarded by connection_mutex, and connection_condition, on   *)
(* which a thread sleeps while the stack is empty.  PublishChunk,          *)
(* ClearTrial and FeaturesBetween all have the shape                       *)
(*                                                                         *)
(*     conn = GetConnection(); run one statement; FreeConnection(conn)     *)
(*                                                                         *)
(* and ignore the outcome of the statement, so a call is the same path     *)
(* through the pool whichever of the three it is and however it ends.      *)
(***************************************************************************)
EXTENDS Naturals, Sequences, FiniteSets

CONSTANTS Threads,      \* the threads that share this DBWrapper
          PoolSize,     \* connection_pool_size, the constructor's argument
          MaxCalls,     \* bound: the calls each thread makes
          NoThread      \* "nobody", the owner of a mutex that is free

ASSUME PoolAssumption == /\ IsFiniteSet(Threads)
                         /\ NoThread \notin Threads
                         /\ PoolSize \in Nat \ {0}
                         /\ MaxCalls \in Nat

VARIABLES connection_pool,  \* the stack; its top is the last element
          mutex,            \* the owner of connection_mutex
          pc,               \* where each thread is in its call
          conn,             \* the PGconn each thread holds, or NoConn
          calls,            \* the calls each thread has completed
          lowest            \* history: the fewest connections the stack ever had

vars == <<connection_pool, mutex, pc, conn, calls, lowest>>

\* Connections are numbered in the order InitializeConnections opens them.
Connections == 1..PoolSize
NoConn == 0

\* Slips of the stack, for the mutants: a branch of GetConnection that leaves
\* conn unassigned, a forgotten pop, and the ends of the stack mixed up.
TopUnassigned == 0
PoppedNot == connection_pool
PoppedBottom == Tail(connection_pool)
PushedBottom(c) == <<c>> \o connection_pool

Top == connection_pool[Len(connection_pool)]
Popped == SubSeq(connection_pool, 1, Len(connection_pool) - 1)
Pushed(c) == Append(connection_pool, c)
ConnectionAvaliable == connection_pool # <<>>

Waiters == {t \in Threads : pc[t] = "wait"}
Holders == {t \in Threads : pc[t] \in {"exec", "free", "push"}}

\* The constructor: the connections are opened and pushed one by one, before
\* any other thread can call.
Init ==
    /\ connection_pool = [i \in Connections |-> i]
    /\ mutex = NoThread
    /\ pc = [t \in Threads |-> "idle"]
    /\ conn = [t \in Threads |-> NoConn]
    /\ calls = [t \in Threads |-> 0]
    /\ lowest = PoolSize

\* A thread enters PublishChunk, ClearTrial or FeaturesBetween.
Call(t) ==
    /\ pc[t] = "idle" /\ calls[t] < MaxCalls
    /\ pc' = [pc EXCEPT ![t] = "get"]
    /\ UNCHANGED <<connection_pool, mutex, conn, calls, lowest>>

\* The unique_lock of GetConnection, or its re-acquisition inside wait.
LockGet(t) ==
    /\ pc[t] \in {"get", "woken"} /\ mutex = NoThread
    /\ mutex' = t
    /\ pc' = [pc EXCEPT ![t] = "check"]
    /\ UNCHANGED <<connection_pool, conn, calls, lowest>>

Lesser(m, n) == IF m < n THEN m ELSE n

\* A connection is available: pop the top of the stack and unlock.
Take(t) ==
    /\ pc[t] = "check" /\ ConnectionAvaliable
    /\ conn' = [conn EXCEPT ![t] = Top]
    /\ connection_pool' = Popped
    /\ lowest' = Lesser(lowest, Len(connection_pool'))
    /\ mutex' = NoThread
    /\ pc' = [pc EXCEPT ![t] = "exec"]
    /\ UNCHANGED calls

\* None is available: unlock and sleep on the condition, in one step.
Wait(t) ==
    /\ pc[t] = "check" /\ ~ConnectionAvaliable
    /\ mutex' = NoThread
    /\ pc' = [pc EXCEPT ![t] = "wait"]
    /\ UNCHANGED <<connection_pool, conn, calls, lowest>>

\* std::condition_variable::wait may return without a notification.
SpuriousWake(t) ==
    /\ pc[t] = "wait"
    /\ pc' = [pc EXCEPT ![t] = "woken"]
    /\ UNCHANGED <<connection_pool, mutex, conn, calls, lowest>>

\* The statement itself; whatever PQexec returns, the caller goes on to
\* PQclear and FreeConnection.
Exec(t) ==
    /\ pc[t] = "exec"
    /\ pc' = [pc EXCEPT ![t] = "free"]
    /\ UNCHANGED <<connection_pool, mutex, conn, calls, lowest>>

\* The lock_guard of FreeConnection.
LockFree(t) ==
    /\ pc[t] = "free" /\ mutex = NoThread
    /\ mutex' = t
    /\ pc' = [pc EXCEPT ![t] = "push"]
    /\ UNCHANGED <<connection_pool, conn, calls, lowest>>

\* Slips of notify_one, for the mutants: it is forgotten, or it is done only
\* when the stack was empty.
NotifyNone(pcs) == pc' = pcs
NotifyIfEmpty(pcs) ==
    IF Waiters = {} \/ connection_pool # <<>>
    THEN pc' = pcs
    ELSE \E w \in Waiters : pc' = [pcs EXCEPT ![w] = "woken"]

\* notify_one: one sleeping thread is woken, if there is one.
NotifyOne(pcs) ==
    IF Waiters = {} THEN pc' = pcs
                    ELSE \E w \in Waiters : pc' = [pcs EXCEPT ![w] = "woken"]

\* The body of FreeConnection: push, notify, unlock; the call is over.
Push(t) ==
    /\ pc[t] = "push"
    /\ connection_pool' = Pushed(conn[t])
    /\ conn' = [conn EXCEPT ![t] = NoConn]
    /\ NotifyOne([pc EXCEPT ![t] = "idle"])
    /\ mutex' = NoThread
    /\ calls' = [calls EXCEPT ![t] = @ + 1]
    /\ UNCHANGED lowest

\* What the thread itself does; waking up without a reason is not its doing.
Step(t) == \/ Call(t) \/ LockGet(t) \/ Take(t) \/ Wait(t)
           \/ Exec(t) \/ LockFree(t) \/ Push(t)

\* Every thread has made its calls: the only way the pool comes to rest.
Finished == /\ \A t \in Threads : pc[t] = "idle" /\ calls[t] = MaxCalls
            /\ UNCHANGED vars

Next == \/ \E t \in Threads : Step(t) \/ SpuriousWake(t)
        \/ Finished

Spec == Init /\ [][Next]_vars

\* The operating system schedules every runnable thread, and a thread is woken
\* without a reason finitely often.  Each thread makes finitely many calls, so
\* weak fairness is enough for the mutex too: once the spurious wakeups have
\* ended, it cannot be taken and released for ever by the others.
FairSpec == /\ Spec
            /\ \A t \in Threads : WF_vars(Step(t))
            /\ <>[][\A t \in Threads : ~SpuriousWake(t)]_vars

-----------------------------------------------------------------------------
(* Properties *)

\* The pool holds connections, the mutex has one owner, every thread is at a
\* known point of its call.
TypeOK ==
    /\ connection_pool \in Seq(Connections)
    /\ mutex \in Threads \cup {NoThread}
    /\ pc \in [Threads -> {"idle", "get", "woken", "check", "wait",
                           "exec", "free", "push"}]
    /\ conn \in [Threads -> Connections \cup {NoConn}]
    /\ calls \in [Threads -> 0..MaxCalls]
    /\ lowest \in 0..PoolSize

\* A connection is on the stack or with one thread, never in two places and
\* never lost: two statements can not share a PGconn (libpq forbids it).
ConnectionExclusive ==
    /\ \A i, j \in 1..Len(connection_pool) :
           connection_pool[i] = connection_pool[j] => i = j
    /\ \A t \in Threads : conn[t] # NoConn =>
           /\ \A i \in 1..Len(connection_pool) : connection_pool[i] # conn[t]
           /\ \A u \in Threads : conn[u] = conn[t] => u = t

\* While threads sleep on the condition, every idle connection has a thread on
\* its way to it: no notification of FreeConnection is lost, whoever overtakes
\* the woken thread.
Arriving == {t \in Threads : pc[t] \in {"woken", "check"}}
NoLostWakeup ==
    Waiters # {} => Len(connection_pool) <= Cardinality(Arriving)

\* Whatever part of the stack the threads have never needed at once stays as it was
\* opened, and it is all but one connection for each thread: the connections
\* opened first are never used.  A pool of 100 with one caller, as in
\* OpensmileProcessor, sends every statement over the last connection opened.
ReusesNewest ==
    /\ PoolSize <= lowest + Cardinality(Threads)
    /\ \A i \in 1..lowest : i <= Len(connection_pool) /\ connection_pool[i] = i

\* Every call returns: no thread sleeps for ever while connections come back.
EveryCallReturns ==
    \A t \in Threads : pc[t] # "idle" ~> pc[t] = "idle"

\* The pool implements ConnectionPool: the stack is a set of idle connections.
Abstract == INSTANCE ConnectionPool
                WITH idle <- {connection_pool[i] : i \in 1..Len(connection_pool)},
                     held <- conn
ImplementsPool == Abstract!Spec
=============================================================================
