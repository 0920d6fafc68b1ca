SPECIFICATION LiveSpec
CONSTANTS
    p1 = p1
    p2 = p2
    c1 = c1
    Peers <- TwoPeers
    Closers <- OneCloser
    MaxConnections = 1
    MaxPending = 1
    MaxTraffic = 1
INVARIANTS
    AdmissionBounded
    RetainedConnFrees
PROPERTIES
    PendingFrees
    HubDropFrees
CHECK_DEADLOCK FALSE
