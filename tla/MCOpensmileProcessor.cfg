\* Four frames of two fields, with values that are not numbers and log lines
\* that mention lld at any point.  The log may end anywhere.
SPECIFICATION Spec
CONSTANTS
    Fields = {f1, f2}
    MaxFrames = 4
    MaxMentions = 2
CHECK_DEADLOCK FALSE
INVARIANTS TypeOK OneStatementPerFrame LagsByOne TimesMatch OnlyFirstUntagged NanCostsOwnRow
PROPERTIES MentionEndsStorage
