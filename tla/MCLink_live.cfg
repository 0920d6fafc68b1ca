SPECIFICATION LiveSpec
CONSTANTS
    a1 = a1
    Task = Task
    Apps <- OneApp
    Lens <- TwoLens
    Buffer = 2
    PongLimit = 1
    InboxLimit = 1
    Chunks <- StrayChunks
    ChunkMax = 2
    Heartbeat = FALSE
    Tls = FALSE
    Faults = {"hub"}
    MaxSends = 0
    MaxReads = 1
PROPERTIES
    ClosingEnds
CHECK_DEADLOCK FALSE
