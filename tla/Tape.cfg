SPECIFICATION TapeSpec
CONSTANTS
    Capacity = 20
    BlockSize = 2
    Files <- SomeFiles
    Lengths = {3, 4}
    Counts = {1, 2}
    Data = {9}
    MaxLocation = 2
INVARIANTS
    TapeTypeOK
    ObjectsKept
    PositionOnObject
    
CHECK_DEADLOCK FALSE
CONSTRAINT Bound
