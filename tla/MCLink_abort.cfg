SPECIFICATION Spec
CONSTANTS
    a1 = a1
    Task = Task
    Apps <- OneApp
    Lens <- TwoLens
    Buffer = 2
    PongLimit = 2
    InboxLimit = 1
    Chunks <- ClosingChunks
    ChunkMax = 2
    Heartbeat = FALSE
    Tls = FALSE
    Faults = {}
    MaxSends = 0
    MaxReads = 0
INVARIANTS
    AbortsOnlyPending
CHECK_DEADLOCK FALSE
