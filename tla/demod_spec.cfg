CONSTANTS
    MaxLen = 1
    Timeout = 2
    Bytes <- MCBytes
    MaxMsgLen = 2
    MaxDelay = 0
    Phases <- MCPhases
    Cuts <- MCCuts
    Spikes = {}
SPECIFICATION Spec
CHECK_DEADLOCK FALSE
PROPERTIES
    SpecDemodAnswer
