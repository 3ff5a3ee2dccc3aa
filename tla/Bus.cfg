SPECIFICATION HandshakeSpec
CONSTANTS
    Commands <- SomeCommands
    CdbLength = 3
INVARIANTS
    GoodMeansDelivered
    AtMostOneLost
PROPERTIES
    CommandsEnd
