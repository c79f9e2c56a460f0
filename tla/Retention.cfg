SPECIFICATION Spec
CONSTANTS
    MaxBackups = 4
    LastDay = 10
    KeepDays = 2
    WeeklyDays = 7
    WeekDays = 3
    WeekOffset = 1
CHECK_DEADLOCK FALSE
INVARIANTS
    PromisedIsRetained
    SurplusRetired
    RestoreFindsPromised
PROPERTIES
    ImplementsBucket
