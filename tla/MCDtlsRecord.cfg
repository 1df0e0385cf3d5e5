SPECIFICATION FairSpec
CONSTANTS
    MaxEpoch = 2
    MaxSeq = 2
    W = 2
    Sat = 3
    QueueLimit = 2
    Waits = TRUE
    Client = TRUE
    Dgrams <- MCDgrams
INVARIANTS
    BufferedRecordsFit
    QueueNotStranded
PROPERTIES
    EpochAdvancesWhenAwaited
    BufferedRecordsSurface
