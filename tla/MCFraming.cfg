CONSTANTS
    Streams <- MixedStreams
    MaxChunk = 14
    MaxExtract = 2
SPECIFICATION Spec
INVARIANTS
    TypeOK
    QueuedInOrder
    HeartbeatsInOrder
    BytesConserved
    NothingLeftBehind
CHECK_DEADLOCK FALSE
