CHECK_DEADLOCK FALSE
SPECIFICATION Spec
CONSTANTS
    Conns <- MCConns
    Latest <- MCLatest
    Kinds <- MCKinds
    Readers = {"tool"}
    BookCount = 1
    Inputs <- MCInputs
    KvKeys = {"exits"}
    KvVals = {"v1"}
    MaxLog = 3
    MaxOpens = 3
    MaxViews = 1
    MaxSaves = 1
INVARIANTS
    TablesFollowLog
    
PROPERTIES
    BatchesWhole
