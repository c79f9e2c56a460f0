SPECIFICATION Spec
CONSTANTS
    BackupPods = {b1, b2}
    RecoveryPods = {r1}
    NoPod = none
    Failures = {}
    Killable = {}
    Careful = FALSE
CHECK_DEADLOCK FALSE
INVARIANT PublishedIsConsistent
