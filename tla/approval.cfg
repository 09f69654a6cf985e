SPECIFICATION FairSpec
CONSTANTS
    Ceiling = 2
    MaxEvents = 3
    MaxSeconds = 1
    MaxFaults = 1
INVARIANTS RunsApproved
PROPERTIES LabelsAnswered
CHECK_DEADLOCK FALSE
