SPECIFICATION Spec
CONSTANTS
    Luns = {0}
    LunRange = {0, 1}
    Removable = {0}
    Initiators = {6, 7}
    Commands <- UnitCommands
    MsgBytes = {129, 12}
    MaxMsgBytes = 1
    SenseLength = 3
INVARIANTS
    ReservationRespected
PROPERTIES
    ReservationNotTaken
    MediumProtected
CHECK_DEADLOCK FALSE
