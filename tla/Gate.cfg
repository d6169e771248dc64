CHECK_DEADLOCK FALSE
SPECIFICATION Spec
CONSTANTS
    Instruments <- MCInstruments
    Signals <- MCSignals
    Sector <- MCSector
    Cash = 20
    Close = 2
    MaxPrice = 3
    StopDistance = 1
    MaxPositions = 2
    MaxEntries = 3
    MaxGrossPct = 30
    MaxSectorPct = 20
    MaxHeatPct = 20
    RiskPct = 10
    PositionPct = 20
    StrategyPct = 20
    LossPct = 10
    DrawdownPct = 10
    AdvShares = 2
    MaxEvents = 2
    MaxRestarts = 1
    PartialPolls = FALSE
INVARIANTS
    DispositionsTell
PROPERTIES
    KeepsBudget
    HeatKept
