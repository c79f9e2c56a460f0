SPECIFICATION FairSpec
CONSTANTS
    c1 = c1
    c2 = c2
    Channels = {c1, c2}
    Owner <- TwoOwners
    MaxPending = 1
    MaxAttempts = 2
CHECK_DEADLOCK FALSE
INVARIANTS
    OnlyPermittedRuns
    HeldIsBounded
PROPERTIES
    ImplementsMonitor
    AuthenticatedIsSpared
    HandshakeEnds
