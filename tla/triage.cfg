SPECIFICATION FairSpec
CONSTANTS
    Titles = {1, 2}
    Operator = {1}
    MaxAttempts = 2
    MaxReviews = 1
    MaxGaps = 1
    MaxSteps = 2
    MaxActs = 1
    MaxFaults = 1
    MaxRestarts = 1
INVARIANTS FiledAsDrafted SessionsBounded
PROPERTIES StepsStayHeld HandedOverWaits LanesSettle
