SPECIFICATION Spec
CONSTANTS
    Requests <- MCRequests
    Answers <- MCAnswers
INVARIANTS
    ReplyIsDump
