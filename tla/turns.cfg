SPECIFICATION FairSpec
CONSTANTS
    Kinds = {"work", "triage"}
    MaxTurns = 2
    MaxRuns = 2
    MaxUpsets = 2
INVARIANTS ResumesInterrupted EndsWell
PROPERTIES EndsInTime
CHECK_DEADLOCK FALSE
