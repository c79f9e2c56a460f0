SPECIFICATION SmallSpec
CONSTANTS
    Runs = {r1, r2}
    Workstations = {w1, w2}
    Names = {n1, n2}
    Backups = {good, damaged, older, bare}
    Damaged = {damaged}
    Matching = {good, damaged, bare}
    Seeded = {good, damaged, older}
    Expiring = {good}
    Nobody = nobody
    r1 = r1
    w1 = w1
    n1 = n1
CHECK_DEADLOCK FALSE
INVARIANTS
    NamespaceIsOneRestore
    VerifiedIsTheArchive
    GoodRestoreAccepted
PROPERTIES
    RestoreEnds
