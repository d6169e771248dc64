SPECIFICATION Spec
CONSTANTS
    b1 = b1
    s1 = s1
    s2 = s2
    Intents <- Exits
    Buys = {}
    Stops <- StopExit
    MaxQty = 2
    Held = 2
    InOrder = TRUE
CHECK_DEADLOCK FALSE
INVARIANTS
    BookedOnce
    ExitsCovered
PROPERTIES
    FinalAfterCall
