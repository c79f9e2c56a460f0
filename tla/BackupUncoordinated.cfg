SPECIFICATION Spec
CONSTANTS
    BackupPods = {b1, b2}
    RecoveryPods = {r1}
    NoPod = none
    Failures = {"refused", "unanswered", "deadline"}
    Killable = {b1, r1}
    Careful = FALSE
CHECK_DEADLOCK FALSE
INVARIANTS
    LeaseCoversOutage
    ExitCodeHonest
PROPERTY
    ImplementsWindow
