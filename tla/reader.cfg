CONSTANTS
    p1 = p1
    p2 = p2
    c1 = c1
    c2 = c2
    HostCmds <- MCHostCmds
    Timeouts <- MCTimeouts
    Pupis = {p1}
    ChipIds = {c1, c2}
    MAX_FRAME_SIZE = 256
    MaxReqs = 4
    Garbage = Garbage
SPECIFICATION Spec
CHECK_DEADLOCK FALSE
INVARIANTS
    TypeOK
    BlockNumbersAlternate
    FailedSelectEndsCommand
    SuccessReplyDefined
    
PROPERTIES
    TriggerReleased
