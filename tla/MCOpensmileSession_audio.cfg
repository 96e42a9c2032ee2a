\* Chunks of every kind at every point of the start-up.
SPECIFICATION FairSpec
CONSTANTS
    Audio <- MCAudio
    NotJson = NotJson
    MaxChunks = 3
    BufferSize = 3
CHECK_DEADLOCK FALSE
INVARIANTS TypeOK AudioIntact EndsForCause
PROPERTIES ChunksTaken
