CONSTANTS
    Commands <- MCCommands

SPECIFICATION Spec
CHECK_DEADLOCK FALSE
INVARIANTS
    TypeOK
PROPERTIES
    ButtonEndsSim
    HostDataEndsSim
    AtqbAnswersReqb
    OkFollowsAttrib
