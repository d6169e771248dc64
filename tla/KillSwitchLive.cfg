SPECIFICATION FairSpec
CONSTANTS
    m = m
    x1 = x1
    x2 = x2
    Strategies <- MCStrategies
    Exits <- OneExit
    Owner <- MCOwner
    Marks <- Sliding
    DailyLossPct = 2
    DrawdownPct = 5
    DailyLossAction = "HALT_NEW"
    DrawdownAction = "FLATTEN"
    MaxConsecLosses = 1
    MaxEntries = 1
    RearmOnNewDay = TRUE
    MaxPieces = 2
    MaxDay = 2
    MaxStops = 1
    Torn = TRUE
INVARIANTS
    LossOnRecord
    StreakIsEarned
PROPERTIES
    DayIsKept
    HaltFileHolds
