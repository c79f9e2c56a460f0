SPECIFICATION OperatedSpec
CONSTANTS
    BackupPods = {b1, b2}
    RecoveryPods = {r1, r2}
    NoPod = none
    Failures = {}
    Killable = {b1, b2}
    Careful = TRUE
CHECK_DEADLOCK FALSE
PROPERTIES
    BackupEndsRestored
    StrandedIsRecovered
