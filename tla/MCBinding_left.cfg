SPECIFICATION Spec
CONSTANTS
    c1 = c1
    p1 = p1
    s1 = s1
    Clients <- OneClient
    Peers <- OnePeer
    Servers <- OneServer
    ServerOf <- AtOne
    MaxQueue = 1
INVARIANT
    RunLeavesNoneOpen
CHECK_DEADLOCK FALSE
