SPECIFICATION Spec
CONSTANTS
    Requests <- MCEdgeRequests
    Answers <- MCAnswers
INVARIANTS
    DumpSafe
