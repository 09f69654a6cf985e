SPECIFICATION Spec
CONSTANTS
    Issues = {i1, i2, i3}
    Triaged = {i3}
    Accounts = {a1, a2, a3}
    Pools = {{a1, a2}, {a1, a3}}
    NoOne = NoOne
    MaxAgents = 2
    MaxUpsets = 2
INVARIANTS SessionsApart IdleIsSealed WorksInItsOwnClone FinishedIsAskedFor
CHECK_DEADLOCK FALSE
