SPECIFICATION Spec
CONSTANTS
    Interval = 2
    MaxAhead = 1
    MaxTime = 7
INVARIANTS
    NoEarlyDrop
    DropInTime
CHECK_DEADLOCK FALSE
