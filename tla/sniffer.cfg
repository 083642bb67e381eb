CONSTANTS
    MAX_FRAME_SIZE = 2
    Bytes <- MCBytes
    MaxMsgLen = 1
    Phases <- MCPhases
    Gaps <- MCGaps
    Cuts <- MCCuts
SPECIFICATION Spec
INVARIANTS
    SniffLogFaithful
    SniffComplete
