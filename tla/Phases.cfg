SPECIFICATION FairSpec
CONSTANTS
    Luns = {0}
    LunRange = {0, 1}
    Removable = {}
    Initiators = {7}
    Commands <- PhaseCommands
    MsgBytes = {129, 1, 6, 12}
    MaxMsgBytes = 3
    SenseLength = 3
INVARIANTS
    LinesMatchPhase
    NexusCleared
PROPERTIES
    ImplementsTarget
    
CHECK_DEADLOCK FALSE
