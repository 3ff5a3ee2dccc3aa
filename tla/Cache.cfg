SPECIFICATION CacheSpec
CONSTANTS
    Blocks = 5
    TrackSize = 2
    CacheMax = 2
    SerialLimit = 3
    a = a
    b = b
    Values = {a, b}
SYMMETRY ValueSymmetry
INVARIANTS
    CacheTypeOK
    CacheCoherent
PROPERTIES
    ImplementsStore
CHECK_DEADLOCK FALSE
