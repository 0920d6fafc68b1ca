SPECIFICATION WireSpec
CONSTANTS
    Short = 2
    Medium = 4
    Top = 100
    Limit = 5
    Wires <- SomeWires
    Texts <- SomeTexts
    Options <- MCOptions
    Strangers <- MCStrangers
    Replies <- MCReplies
    Decisions <- MCDecisions
    MaxHead = 26
    MaxHeaders = 6
    KeyBytes = 4
    Chunk = 9
    Frames = 4
INVARIANTS
    ReadsWhatWasSent
    BufferBounded
    HeadExact
    
    Agreement
    KeysCanonical
PROPERTY
    LimitExact
CHECK_DEADLOCK FALSE
