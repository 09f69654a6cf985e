SPECIFICATION LedgerSpec
CONSTANTS
    a = a
    b = b
    c = c
    Ids = {a, b, c}
    Limit = 2
    SeedLimit = 2
    MaxRuns = 4
    MaxAttempts = 2
    CostCap = 1
SYMMETRY Symmetric
INVARIANTS KeepsRecentlyRun
CHECK_DEADLOCK FALSE
