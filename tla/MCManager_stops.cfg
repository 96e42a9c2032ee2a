\* One participant, an openSMILE that may return in a session process, the strays
\* that come of it, and stops, under a fair scheduler.
SPECIFICATION FairSpec
CONSTANTS
    ana = ana
    bob = bob
    Trials = {t1}
    Participants = {ana}
    Rosters <- Once
    MaxMessages = 4
    MaxProcs = 2
    SmileMayReturn = TRUE
    ClearMayFail = FALSE
CHECK_DEADLOCK FALSE
INVARIANTS OwnSessionsTracked
PROPERTIES StopEndsSessions ImplementsService
