SPECIFICATION Spec
CONSTANTS
    b1 = b1
    s1 = s1
    s2 = s2
    Intents <- MCIntents
    Buys <- MCBuys
    Stops <- MCStops
    MaxQty = 2
    MaxFillQuotes = 2
    MaxDay = 2
    MaxLiquidity = 2
    MaxStops = 2
    Torn = TRUE
INVARIANTS
    TypeOK
    RestoreIsFaithful
    BrokerNeverShort
    ExitsNeverFlip
    SameBook
PROPERTIES
    ForwardOnly
