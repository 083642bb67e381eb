CONSTANTS
    N <- MCN
    Lags <- MCLags
SPECIFICATION Spec
INVARIANTS
    TypeOK
    NoSampleLost
    NoDoubleRead
PROPERTIES
    ButtonHonoured
