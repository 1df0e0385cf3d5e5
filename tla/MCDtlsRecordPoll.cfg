SPECIFICATION Spec
CONSTANTS
    MaxEpoch = 2
    MaxSeq = 2
    W = 2
    Sat = 3
    QueueLimit = 2
    Waits = FALSE
    Client = FALSE
    Dgrams <- MCBadDgrams
INVARIANTS
    NoReplay
    ActsOnAuthentic
