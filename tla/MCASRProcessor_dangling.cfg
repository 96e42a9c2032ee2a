\* One utterance of two words.
SPECIFICATION Spec
CONSTANTS
    Utterances = {u1}
    Malformed = {}
    Words = 2
    WindowOf <- MCWindowOf
    MaxRows = 2
    Connections = {c1}
    NoConn = NoConn
CHECK_DEADLOCK FALSE
INVARIANTS AlignedFeatures
