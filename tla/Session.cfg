SPECIFICATION LiveSpec
CONSTANT
    MaxSends = 2

    
PROPERTY
    HandshakeCompletes
CHECK_DEADLOCK FALSE
