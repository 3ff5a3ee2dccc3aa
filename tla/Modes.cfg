SPECIFICATION ModePagesSpec
CONSTANTS
    Kinds = {"SAHD", "SCHD", "SCRM", "SCMO", "SCCD", "SCTP", "SCHS"}
    i1 = i1
    i2 = i2
    Initiators = {i1, i2}
    Sizes = {512, 65536}
    Definitions <- SomeDefinitions
    Requests <- SomeRequests
    Lists <- SomeLists
SYMMETRY InitiatorSymmetry
INVARIANTS
    GivenBack
    FormatPageAgrees
CHECK_DEADLOCK FALSE
