CHECK_DEADLOCK FALSE
SPECIFICATION Spec
CONSTANTS
    Loops = {monitor}
    Clients = {c1, lifespan}
    Lifespan = lifespan
    MaxRuns = 2
    monitor = monitor
    c1 = c1
    lifespan = lifespan
INVARIANTS
    SessionIsWatched
    ReportIsFinal
    NothingLeftRunning
PROPERTIES
    StopsEnd
