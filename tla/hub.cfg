SPECIFICATION HubFairSpec
CONSTANTS
    Webs = {w1, w2}
    Top = 2
    MaxPeriods = 2
    MaxOutages = 1
    MaxFaults = 2
INVARIANTS NotPostedAgain
PROPERTIES HubDelivers
CHECK_DEADLOCK FALSE
