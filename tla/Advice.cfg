CHECK_DEADLOCK FALSE
SPECIFICATION AdviceSpec
CONSTANTS
    Items = {1, 2, 3, 4}
    Ours = {1, 2, 4}
    Results = {2}
    Window = 2
    Sampled = {1, 9}
    MaxAttempts = 2
    Calibration <- MCCalibration
    Reworded = {}
    Subjects <- MCSubjects
    Models = {"paid", "free"}
    Providers = {"v1", "v2"}
    Prompts = {9, 21, 22}
    Routers = {"engine", "labels"}
    ProviderOf <- MCProviderOf
    PriceOf <- MCPrice
    RoleOf <- MCRoleOf
    Decisions = {9}
    Chain <- MCChain
    DailyCap = 2
    RoleCap = 1
    DecisionCap = 1
    BreakerFailures = 2
    Cooldown = 2
    PauseFor = 1
    CallTimeout = 2
    DayLength = 2
    MaxTime = 3
    Proposals <- MCProposals
    Books <- MCBooks
    AdvisorOf <- MCAdvisorOf
    Scenarios <- MCScenarios
INVARIANTS
    RoleWithinCap
    ReplayAgrees
    Accounted
PROPERTIES
    NothingStalls
