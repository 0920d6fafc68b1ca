SPECIFICATION LiveSpec
CONSTANTS
    c1 = c1
    p1 = p1
    s1 = s1
    Clients <- OneClient
    Peers <- OnePeer
    Servers <- OneServer
    ServerOf <- AtOne
    MaxQueue = 3
INVARIANTS
    RegistryExact
    InboundKnown
    RequestsAnswered
    ListenersSeeState
PROPERTY
    RunEnds
CHECK_DEADLOCK FALSE
