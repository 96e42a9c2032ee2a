\* More threads than connections: ASR threads queueing for the pool.
SPECIFICATION FairSpec
CONSTANTS
    Threads = {t1, t2, t3, t4}
    PoolSize = 2
    MaxCalls = 2
    NoThread = NoThread
INVARIANTS TypeOK ConnectionExclusive NoLostWakeup ReusesNewest
PROPERTIES EveryCallReturns ImplementsPool
