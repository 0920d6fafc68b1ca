SPECIFICATION ClientSpec
CONSTANTS
    w1 = w1
    w2 = w2
    s1 = s1
    s2 = s2
    t1 = t1
    t2 = t2
    c1 = c1
    c2 = c2
    c3 = c3
    NoWaker = NoWaker
    Waiters <- TwoWaiters
    Setters <- TwoSetters
    Wakers <- TwoTasks
    Clients <- ThreeClients
    Limit = 1
    MaxAddrs = 2
    Reachable = {2}
INVARIANTS
    NoLostCancel
    PermitsConserved
PROPERTIES
    ImplementsFairLatch
    QueuedGetsSlot
    ReachesListener
CHECK_DEADLOCK FALSE
