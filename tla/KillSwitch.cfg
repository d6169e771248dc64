SPECIFICATION Spec
CONSTANTS
    m = m
    x1 = x1
    x2 = x2
    Strategies <- MCStrategies
    Exits <- TwoExits
    Owner <- MCOwner
    Marks <- Falling
    DailyLossPct = 2
    DrawdownPct = 5
    DailyLossAction = "HALT_NEW"
    DrawdownAction = "FLATTEN"
    MaxConsecLosses = 2
    MaxEntries = 1
    RearmOnNewDay = FALSE
    MaxPieces = 2
    MaxDay = 2
    MaxStops = 1
    Torn = FALSE
INVARIANTS
    Latched
    StreakIsEarned
PROPERTIES
    NoEntryWhileHalted
