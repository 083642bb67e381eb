CONSTANTS
    MAX_FRAME_SIZE = 2
    Bytes <- MCBytes
    MaxMsgLen = 3
    MaxLead = 3
    Glitches <- MCGlitches
SPECIFICATION Spec
CHECK_DEADLOCK FALSE
INVARIANTS
    
    TypeOK
PROPERTIES
    UartImplementsChannel
