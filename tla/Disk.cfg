SPECIFICATION DiskSpec
CONSTANTS
    Kinds = {"SCHD", "SCMO"}
    Modes = {"PISCSI", "LINUX_OPTIMIZED"}
    m1 = m1
    m2 = m2
    Media = {m1, m2}
    NoMedium = NoMedium
    Length <- Lengths
    Sizes = {1}
    Standard = {1}
    Requested = {1, 2}
    Values = {1}
    MaxCount = 2
INVARIANTS
    
    
    ChangeReported
PROPERTIES
    ProtectedKept
CHECK_DEADLOCK FALSE
