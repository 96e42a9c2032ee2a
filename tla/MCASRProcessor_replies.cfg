\* Three utterances of two words share one connection; one is malformed.
SPECIFICATION FairSpec
CONSTANTS
    Utterances = {u1, u2, u3}
    Malformed = {u3}
    Words = 2
    WindowOf <- MCWindowOf
    MaxRows = 1
    Connections = {c1}
    NoConn = NoConn
CHECK_DEADLOCK FALSE
INVARIANTS TypeOK NoneHeldWhileAsking
PROPERTIES EveryUtteranceAsked ImplementsReplies
