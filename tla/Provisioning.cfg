SPECIFICATION Spec
CONSTANTS
    r1 = r1
    r2 = r2
    r3 = r3
    w1 = w1
    w2 = w2
    Runs = {r1, r2, r3}
    Workstations = {w1, w2}
    Place <- TwoAndOne
CHECK_DEADLOCK FALSE
INVARIANTS
    SourceKeepsSecrets
    SecretIsOneSet
    SuccessIsComplete
    OneSucceeds
PROPERTIES
    NeverOverwritten
