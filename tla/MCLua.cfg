SPECIFICATION LuaSpec
CONSTANTS
    t1 = t1
    t2 = t2
    Ids <- TwoTimers
    Delays = {0, 1}
    Limits = {0}
    Batch = 2
    MaxNow = 2
    f = f
    g = g
    w1 = w1
    w2 = w2
    Plain = Plain
    Fns <- TwoFns
    Wrappers <- TwoWrappers
    MaxList = 3
INVARIANT
    NoOversleep
PROPERTIES
    FiresInOrder
    OnceExact
    NotStarved
CHECK_DEADLOCK FALSE
