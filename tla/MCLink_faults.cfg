SPECIFICATION Spec
CONSTANTS
    a1 = a1
    Task = Task
    Apps <- OneApp
    Lens <- TwoLens
    Buffer = 2
    PongLimit = 2
    InboxLimit = 1
    Chunks <- BeatChunks
    ChunkMax = 2
    Heartbeat = TRUE
    Tls = TRUE
    Faults = {"terminate", "hub", "task", "io"}
    MaxSends = 0
    MaxReads = 1
INVARIANTS
    SocketReleased
    OneProbe
PROPERTIES
    ImplementsConnection
CHECK_DEADLOCK FALSE
