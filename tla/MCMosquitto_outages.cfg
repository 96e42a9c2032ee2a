\* Outages at any moment, and a clock that runs.
SPECIFICATION FairSpec
CONSTANTS
    Trials = 2
    TryReconnect = TRUE
    MaxSeconds = 2
    MaxOutages = 3
CHECK_DEADLOCK FALSE
INVARIANTS TypeOK GivesUpForCause
PROPERTIES DeafAfterReconnect OneReconnectEndsLoop
