SPECIFICATION Spec
CONSTANTS
    N = 1
    MaxAgents = 1
    MaxAttempts = 2
    CostCap = 1
    ConflictLimit = 1
    SweepEvery = 1
    MaxFetchFailures = 1
    Store = TRUE
    Split = {}
    OperatorSteps = {}
    Approvals = {"approved", "unapproved", "unreadable"}
    Outcomes = {"done", "spent", "failed", "crashed", "auth_failed", "usage_limited"}
    MayStall = FALSE
    HoldKinds = {"preflight", "auth", "usage"}
    GitHubFails = TRUE
    HumanLabels = {"rework"}
    HumansClose = TRUE
    HumansReopen = TRUE
    Conflicts = TRUE
    MayStop = FALSE
    MaxRestarts = 1
INVARIANTS BouncesBounded AnnouncedOnce
PROPERTIES HandedOverStays RunsWithinBudget NoRunUnderHold KeepsBudget
CHECK_DEADLOCK FALSE
