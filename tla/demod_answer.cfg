CONSTANTS
    MaxLen = 1
    Timeout = 2
    Bytes <- MCBytes
    MaxMsgLen = 2
    MaxDelay = 3
    Phases <- MCPhases
    Cuts <- MCCuts
    Spikes <- MCSpikes
SPECIFICATION Spec
CHECK_DEADLOCK FALSE
INVARIANTS
    TypeOK
    AnswerMatchesTag
PROPERTIES
    AnswerReturns
