\* An openSMILE that returns in the session of the first of two participants.
SPECIFICATION Spec
CONSTANTS
    ana = ana
    bob = bob
    Trials = {t1}
    Participants = {ana, bob}
    Rosters <- Pair
    MaxMessages = 2
    MaxProcs = 3
    SmileMayReturn = TRUE
    ClearMayFail = FALSE
CHECK_DEADLOCK FALSE
INVARIANTS StopReachesAll
