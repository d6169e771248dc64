CHECK_DEADLOCK FALSE
SPECIFICATION Spec
CONSTANTS
    MaxQty = 2
    MaxDay = 2
    MaxVersion = 2
    MaxAttempts = 1
    MaxWaiting = 2
    MaxFaults = 1
INVARIANTS
    ManagedIsHeld
    StopCovers
    FlattenIsNew
