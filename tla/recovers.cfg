SPECIFICATION LivingSpec
CONSTANTS
    N = 1
    MaxAgents = 1
    MaxAttempts = 2
    CostCap = 0
    ConflictLimit = 0
    SweepEvery = 1
    MaxFetchFailures = 1
    Store = TRUE
    Split = {}
    OperatorSteps = {}
    Approvals = {"approved"}
    Outcomes = {"done", "failed"}
    MayStall = TRUE
    HoldKinds = {}
    GitHubFails = TRUE
    HumanLabels = {"todo"}
    HumansClose = TRUE
    HumansReopen = FALSE
    Conflicts = FALSE
    MayStop = TRUE
    MaxRestarts = 1
PROPERTIES StopsArrive BoardSettles
CHECK_DEADLOCK FALSE
