SPECIFICATION FairSpec
CONSTANTS
    Writes = 3
    Room = 2
CHECK_DEADLOCK FALSE
PROPERTIES
    ImplementsDuplex
    Delivers
    HandlerEnds
