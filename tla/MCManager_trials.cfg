\* Two trials of one participant, whom a start may name twice; trials are started,
\* stopped and started again in any order; a DELETE may fail.
SPECIFICATION Spec
CONSTANTS
    ana = ana
    bob = bob
    Trials = {t1, t2}
    Participants = {ana}
    Rosters <- OnceOrTwice
    MaxMessages = 3
    MaxProcs = 2
    SmileMayReturn = FALSE
    ClearMayFail = TRUE
SYMMETRY Symmetry
CHECK_DEADLOCK FALSE
INVARIANTS TypeOK OneSessionPerName StaleRowsRaced
