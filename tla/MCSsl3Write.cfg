SPECIFICATION Spec
CONSTANTS
    MaxFragment = 2
    Units = 2
    Modes = {{}, {"partial"}, {"moving"}, {"partial", "moving"}}
    HsMessages = 2
    HsLength = 1
    Events = {"shutdown", "refused", "hello"}
    StreamLength = 5
INVARIANT AckedIsWritten
PROPERTIES StreamContinues RecordsComplete NoDataAfterClose
