SPECIFICATION FairSpec
CONSTANTS
    b1 = b1
    s1 = s1
    s2 = s2
    Intents <- MCIntents
    Buys <- MCBuys
    Stops <- MCStops
    MaxQty = 1
    MaxFillQuotes = 2
    MaxDay = 2
    MaxLiquidity = 1
    MaxStops = 1
    Torn = FALSE
PROPERTIES
    OrdersEnd
