SPECIFICATION Spec
CONSTANTS
    a1 = a1
    Task = Task
    Apps <- OneApp
    Lens <- TwoLens
    Buffer = 2
    PongLimit = 2
    InboxLimit = 1
    Chunks <- MixedChunks
    ChunkMax = 2
    Heartbeat = FALSE
    Tls = FALSE
    Faults = {}
    MaxSends = 1
    MaxReads = 2
INVARIANTS
    Accounting
    NoMissedDrain
    NoLostWakeup
    PongsInOrder
    
    CloseFrameIsLast
PROPERTIES
    FlushedBeforeEnd
CHECK_DEADLOCK FALSE
