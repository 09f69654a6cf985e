SPECIFICATION Spec
CONSTANTS
    N = 3
    MaxAgents = 1
    MaxAttempts = 2
    CostCap = 0
    ConflictLimit = 0
    SweepEvery = 1
    MaxFetchFailures = 1
    Store = TRUE
    Split = {1, 2, 3}
    OperatorSteps = {2}
    Approvals = {"approved"}
    Outcomes = {"done"}
    MayStall = FALSE
    HoldKinds = {}
    GitHubFails = TRUE
    HumanLabels = {"todo"}
    HumansClose = TRUE
    HumansReopen = FALSE
    Conflicts = FALSE
    MayStop = FALSE
    MaxRestarts = 0
INVARIANTS ExclusiveHold SlotsRespected
PROPERTIES SweepKeepsTheOrder
CHECK_DEADLOCK FALSE
