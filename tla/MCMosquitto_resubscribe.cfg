\* One cut of the connection.
SPECIFICATION Spec
CONSTANTS
    Trials = 2
    TryReconnect = TRUE
    MaxSeconds = 2
    MaxOutages = 1
CHECK_DEADLOCK FALSE
INVARIANTS ReconnectRestores
