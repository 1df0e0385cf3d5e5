SPECIFICATION Spec
CONSTANTS
    Configs <- MCConfigs
    DTLS1_TMO_ALERT_COUNT = 12
INVARIANTS
    TypeOK
    NoSpuriousFailure
PROPERTIES
    NumbersFresh
    Completes
CHECK_DEADLOCK FALSE
