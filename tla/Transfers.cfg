SPECIFICATION HistorySpec
CONSTANTS
    Luns = {0, 1}
    LunRange = {0, 1, 2}
    Removable = {}
    Initiators = {7}
    Commands <- DataCommands
    MsgBytes = {128, 129, 130}
    MaxMsgBytes = 1
    SenseLength = 3
INVARIANTS
    TypeOK
    TransferConsistent
    NoMissingDevice
    DataComplete
PROPERTIES
    SenseDelivered
CHECK_DEADLOCK FALSE
