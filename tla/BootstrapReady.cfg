SPECIFICATION Spec
CONSTANTS
    Pods = {p1}
    LoginTries = 2
    RunTries = 1
    FaultyTries = 1
    Unlucky = {}
CHECK_DEADLOCK FALSE
INVARIANTS
    ReadyMeansLockedDown
