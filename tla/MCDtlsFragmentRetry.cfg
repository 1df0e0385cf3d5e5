SPECIFICATION Spec
CONSTANTS
    Count = 2
    MsgLen <- MCMsgLen
    HL = 2
    Rooms <- MCRooms
    Window = 1
    WritesFail = TRUE
    NoQueryMtu = FALSE
INVARIANT HeaderRoomMadeOnce
