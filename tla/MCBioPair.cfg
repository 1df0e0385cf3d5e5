SPECIFICATION FairSpec
CONSTANTS
    Bios = {a, b}
    Writers = {a}
    Bytes = {0, 1}
    Sizes = {1, 3}
    Amounts = {1, 3}
    DefaultSize = 3
    NULL = NULL
    Data <- MCData
INVARIANTS TypeOK PeersAgree RequestSound
PROPERTIES ImplementsPipe ClosedDrains
