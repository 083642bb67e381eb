CONSTANTS
    Commands <- MCCommands

SPECIFICATION Spec
CHECK_DEADLOCK FALSE
PROPERTIES
    SpecTagAnswers
