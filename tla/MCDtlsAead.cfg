SPECIFICATION Spec
CONSTANTS
    Configs <- MCAead
    DTLS1_TMO_ALERT_COUNT = 12
INVARIANT RetransmittedAsSent
CHECK_DEADLOCK FALSE
