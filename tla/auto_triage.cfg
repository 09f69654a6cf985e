SPECIFICATION FairSpec
CONSTANTS
    N = 2
    Settle = 2
    Lag = 1
    ReadTime = 1
    MaxTime = 4
    MaxToggles = 1
    MaxRestarts = 1
INVARIANTS NoneSkipped LabelledOnce
PROPERTIES FinalOnceStored NewIssuesAreDecided
CHECK_DEADLOCK FALSE
