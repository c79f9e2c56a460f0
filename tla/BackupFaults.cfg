SPECIFICATION Spec
CONSTANTS
    BackupPods = {b1, b2}
    RecoveryPods = {r1, r2}
    NoPod = none
    Failures = {"refused", "unanswered", "deadline"}
    Killable = {b1, b2, r1, r2}
    Careful = TRUE
CHECK_DEADLOCK FALSE
SYMMETRY Symmetry
INVARIANTS
    PublishedIsConsistent
    ReconcilersHeld
    OneDriver
    GraphStopsFirst
    AbandonedOutageAlerts
