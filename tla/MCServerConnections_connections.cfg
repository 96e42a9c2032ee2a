\* Two sessions for one place, with strays and a restart of the server.
SPECIFICATION FairSpec
CONSTANTS
    Manager = Manager
    Sessions = {s1, s2}
    ManagerPool = 1
    PoolSize = 2
    MaxConnections = 3
    Files <- MCFiles
    MaxStatements = 2
    MaxOutages = 1
INVARIANTS TypeOK MapsBack FailsForCause
PROPERTIES FailsForGood StartsUp
CHECK_DEADLOCK FALSE
