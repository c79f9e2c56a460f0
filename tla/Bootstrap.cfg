SPECIFICATION FairSpec
CONSTANTS
    Pods = {p1, p2}
    LoginTries = 3
    RunTries = 2
    FaultyTries = 1
    Unlucky = {p1}
CHECK_DEADLOCK FALSE
INVARIANTS
    AdministratorRemains
    SuccessIsComplete
PROPERTIES
    OtherVolumeUntouched
    BootstrapCompletes
