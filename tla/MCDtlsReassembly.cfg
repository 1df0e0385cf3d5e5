SPECIFICATION Spec
CONSTANTS
    Count = 2
    MsgLen <- MCMsgLen
    HL = 2
    Rooms <- MCRooms
    Window = 1
    WritesFail = TRUE
    NoQueryMtu = TRUE
INVARIANTS TypeOK DeliveredIntact TranscriptsAgree HeaderRoomMadeOnce
PROPERTY Arrives
