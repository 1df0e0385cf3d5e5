SPECIFICATION FairSpec
CONSTANTS
    MaxFragment = 1
    Units = 2
    Modes = {{}, {"partial"}, {"moving"}, {"partial", "moving"}}
    HsMessages = 2
    HsLength = 1
    Events = {"hello_request"}
    StreamLength = 4
PROPERTIES WriteCompletes RenegotiationPerformed
