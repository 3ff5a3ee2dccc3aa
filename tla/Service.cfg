SPECIFICATION ServiceSpec
CONSTANTS
    Clients = {"c", "d"}
    Initiators = {"i", "j"}
    Requests = {"INFO", "INVALID", "ATTACH", "DETACH_ALL", "SHUT_DOWN", "GARBAGE"}
    ShutdownModes = {"STOP_S2P"}
    MaxSignals = 2
INVARIANTS
    ResultsOfInitiator
    
PROPERTIES
    CommandsAnswered
    Terminates
CHECK_DEADLOCK FALSE
