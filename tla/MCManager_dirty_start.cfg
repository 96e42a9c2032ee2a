\* A trial stopped and started again, every DELETE done.
SPECIFICATION Spec
CONSTANTS
    ana = ana
    bob = bob
    Trials = {t1}
    Participants = {ana}
    Rosters <- Once
    MaxMessages = 3
    MaxProcs = 2
    SmileMayReturn = FALSE
    ClearMayFail = FALSE
CHECK_DEADLOCK FALSE
INVARIANTS StartsClean
