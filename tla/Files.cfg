SPECIFICATION FilesSpec
CONSTANTS
    Ids = {0}
    Luns = {0, 1}
    Types = {"SCRM", "SCHD", "SCDP"}
    Files = {f, g}
    Requests <- SomeRequests
SYMMETRY FileSymmetry
CONSTRAINT
    Bound
INVARIANTS
    ReservationsExact
    NoSharedImage
    DeviceListConsistent
PROPERTIES
    ReadyMediumKept
CHECK_DEADLOCK FALSE
