CONSTANTS
    ClockBits = 10
    Guard = 600
    StepTicks = 2
    EofTimes <- MCEofTimes
    ProcTimes <- MCProcTimes
SPECIFICATION Spec
INVARIANTS
    TxOnTime
