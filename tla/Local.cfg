SPECIFICATION Spec
CONSTANTS
    b1 = b1
    b2 = b2
    r1 = r1
    r2 = r2
    u1 = u1
    u2 = u2
    p1 = p1
    d1 = d1
    None = None
    Backups = {b1, b2}
    Restores = {r1, r2}
    Uploads = {u1, u2}
    Ups = {p1}
    Downs = {d1}
SYMMETRY Symmetry
CONSTRAINT Bound
CHECK_DEADLOCK FALSE
INVARIANTS
    ManifestIsTrue
    OneOperation
    StartedAgain
    RehearsedItsOwn
    MarkedIsVerified
