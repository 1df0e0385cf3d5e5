SPECIFICATION Spec
CONSTANTS
    NULL = NULL
    Configs <- MCConfigs
    MaxData = 1
INVARIANTS TypeOK NoSpuriousFailure Agreement
PROPERTY ComesToRest
CHECK_DEADLOCK FALSE
